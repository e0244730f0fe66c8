----------------------------- MODULE Properties -----------------------------
(***************************************************************************)
(* What the object types of demo/object/ share: how a property is read and *)
(* written, what is answered, and the argument checks of h_wp.c.           *)
(*                                                                         *)
(* A value is << tag, v >>; reals are in tenths.  The reply to a read or a *)
(* write is << "ack", v >>, << "error", code >> or << "abort", reason >>.  *)
(***************************************************************************)
EXTENDS Integers, Sequences

CONSTANTS
    All,            \* BACNET_ARRAY_ALL
    MAX_APDU        \* the octets a reply may take

ASSUME PropertiesAssumption == All \notin Nat /\ MAX_APDU \in Nat /\ MAX_APDU >= 50

BACNET_MAX_PRIORITY == 16
Priorities == 1 .. BACNET_MAX_PRIORITY
Null == 255             \* AO_LEVEL_NULL, BINARY_NULL, MULTISTATE_NULL, ...
Wild == 1000000         \* a date and time of wildcards, later than any other

Ack(v) == << "ack", v >>
SimpleAck == Ack("simple")
Error(code) == << "error", code >>
Abort(reason) == << "abort", reason >>

\* What a write leaves and answers.
Done(after) == [reply |-> SimpleAck, after |-> after]
Refused(state, code) == [reply |-> Error(code), after |-> state]

-----------------------------------------------------------------------------
\* (mutant: an element is read where the next one is kept)
ReadsNextElement(scalars, arrays, p, i) ==
    IF p \in DOMAIN arrays THEN
        CASE i = 0 -> Ack(<< "unsigned", Len(arrays[p]) >>)
          [] i = All -> Ack(arrays[p])
          [] i + 1 \in DOMAIN arrays[p] -> Ack(arrays[p][i + 1])
          [] OTHER -> Error("invalid_array_index")
    ELSE IF p \notin DOMAIN scalars THEN Error("unknown_property")
    ELSE IF i # All THEN Error("property_is_not_an_array")
    ELSE Ack(scalars[p])

\* The end of every ..._Read_Property: scalars have no index, arrays have a
\* count at 0, every element at All, and one element at its number.
Reading(scalars, arrays, p, i) ==
    IF p \in DOMAIN arrays THEN
        CASE i = 0 -> Ack(<< "unsigned", Len(arrays[p]) >>)
          [] i = All -> Ack(arrays[p])
          [] i \in DOMAIN arrays[p] -> Ack(arrays[p][i])
          [] OTHER -> Error("invalid_array_index")
    ELSE IF p \notin DOMAIN scalars THEN Error("unknown_property")
    ELSE IF i # All THEN Error("property_is_not_an_array")
    ELSE Ack(scalars[p])

NoArrays == << >>

\* f, and g where f has nothing.
f ++ g == [x \in DOMAIN f \cup DOMAIN g |-> IF x \in DOMAIN f THEN f[x] ELSE g[x]]

\* The properties every object has, out of service only shown where "flag" is.
Identified(type, n, name) ==
    [object_identifier |-> << "object_id", << type, n >> >>,
     object_name |-> << "string", name >>,
     object_type |-> << "enumerated", type >>]
Described(name) == [description |-> << "string", name >>]
Flagged(oos, flag) ==
    [status_flags |-> << "bits", << FALSE, FALSE, FALSE, flag >> >>,
     event_state |-> << "enumerated", "normal" >>,
     out_of_service |-> << "boolean", oos >>]

-----------------------------------------------------------------------------
WPValidateArgType(value, tag) == value[1] = tag

\* A string to be written, << content, length, character set >>: ASCII, not
\* empty, short enough.
WPValidateString(value, maxLen, emptyAllowed) ==
    IF value[1] # "string" THEN "invalid_data_type"
    ELSE IF value[2][3] # "ansi" THEN "character_set_not_supported"
    ELSE IF ~emptyAllowed /\ value[2][2] = 0 THEN "value_out_of_range"
    ELSE IF value[2][2] >= maxLen THEN "no_space_to_write_property"
    ELSE "ok"

\* Out of service is written the same way by every type that lets it be written.
OutOfServiceWritten(objects, wp) ==
    IF WPValidateArgType(wp.value, "boolean")
    THEN Done([objects EXCEPT ![wp.instance].oos = wp.value[2]])
    ELSE Refused(objects, "invalid_data_type")

-----------------------------------------------------------------------------
(* Commandable objects: a level for each priority, the lowest number wins. *)
Relinquished == [p \in Priorities |-> Null]
Commands(object) == {p \in Priorities : object.level[p] # Null}
Highest(object) == CHOOSE p \in Commands(object) : \A q \in Commands(object) : p <= q
Commanded(objects, n, p, level) == [objects EXCEPT ![n].level[p] = level]

\* The level a device asks for; priority 6 is kept for minimum on and off times.
MayCommand(p) == p \in Priorities \ {6}

Effective(object, default) ==
    IF Commands(object) = {} THEN default ELSE object.level[Highest(object)]

ElementOf(level, tag, scale) ==
    IF level = Null THEN << "null", 0 >> ELSE << tag, level * scale >>
PriorityArray(object, tag, scale) ==
    [priority_array |-> [p \in Priorities |-> ElementOf(object.level[p], tag, scale)]]

\* Present value written by av.c, bo.c, bv.c and mso.c: a command at a priority
\* other than 6 that is settable, or NULL to relinquish, at 6 too.
CommandWritten(objects, wp, tag, settable, stored) ==
    IF wp.value[1] = tag THEN
        IF MayCommand(wp.priority) /\ settable
        THEN Done(Commanded(objects, wp.instance, wp.priority, stored))
        ELSE Refused(objects, IF wp.priority = 6 THEN "write_access_denied"
                              ELSE "value_out_of_range")
    ELSE IF ~WPValidateArgType(wp.value, "null") THEN Refused(objects, "invalid_data_type")
    ELSE IF wp.priority \in Priorities
         THEN Done(Commanded(objects, wp.instance, wp.priority, Null))
         ELSE Refused(objects, "value_out_of_range")
=============================================================================
