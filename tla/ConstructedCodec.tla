-------------------------- MODULE ConstructedCodec --------------------------
(***************************************************************************)
(* The values made of several elements that the services share: date with  *)
(* time (datetime.c), time stamps (timestamp.c), property states           *)
(* (bacpropstates.c) and references to a property or an object of some     *)
(* device (bacdevobjpropref.c).                                            *)
(***************************************************************************)
EXTENDS Elements

OBJECT_DEVICE == 8
NoDevice == [type |-> 0, instance |-> 0]

bacapp_encode_datetime(d) == App("date", d.date) \o App("time", d.time)
bacapp_encode_context_datetime(tag, d) == Enclosed(tag, bacapp_encode_datetime(d))

bacapp_decode_datetime == << Application("date", "date"), Application("time", "time") >>
bacapp_decode_context_datetime(tag) ==
    << Opening(tag) >> \o bacapp_decode_datetime \o << Closing(tag) >>

-----------------------------------------------------------------------------
\* A time stamp is a time, a sequence number of sixteen bits or a date with time.
bacapp_encode_timestamp(t) ==
    CASE t.stamp = "time"     -> Ctx(0, "time", t.time)
      [] t.stamp = "sequence" -> Ctx(1, "unsigned", t.sequence)
      [] t.stamp = "datetime" -> bacapp_encode_context_datetime(2, t)

bacapp_encode_context_timestamp(tag, t) == Enclosed(tag, bacapp_encode_timestamp(t))

bacapp_decode_timestamp ==
    << Choice("stamp", (0 :> "time") @@ (1 :> "sequence") @@ (2 :> "datetime"),
           (0 :> << Required(0, "time", "time") >>)
           @@ (1 :> << Required(1, "unsigned", "sequence"), Among("sequence", 0 .. 65535) >>)
           @@ (2 :> bacapp_decode_context_datetime(2))) >>

\* a service that finds no opening tag here goes on without a time stamp
NoStamp == [stamp |-> "none"]
bacapp_decode_context_timestamp(tag, field) ==
    << IfOpening(tag, << Opening(tag), Group(field, bacapp_decode_timestamp), Closing(tag) >>,
                 field, NoStamp) >>

\* bacapp_timestamp_copy: the tag and the one member it selects
bacapp_timestamp_copy(t) ==
    CASE t.stamp = "time"     -> [stamp |-> "time", time |-> t.time]
      [] t.stamp = "sequence" -> [stamp |-> "sequence", sequence |-> t.sequence]
      [] t.stamp = "datetime" -> [stamp |-> "datetime", date |-> t.date, time |-> t.time]

-----------------------------------------------------------------------------
\* Property states, in the order of their tags from 0 on.
PropertyStates ==
    << "boolean", "binary value", "event type", "polarity", "program change",
       "program state", "reason for halt", "reliability", "state", "system status",
       "units", "unsigned", "life safety mode", "life safety state" >>

StateTag(state) == (CHOOSE i \in DOMAIN PropertyStates : PropertyStates[i] = state) - 1
StateType(state) ==
    IF state \in {"boolean", "unsigned"} THEN state ELSE "enum"

bacapp_encode_property_state(s) == Ctx(StateTag(s.state), StateType(s.state), s.value)

\* decode_boolean takes the length of the contents for the value, so that a
\* false state is read as a true one
bacapp_decode_property_state ==
    << Choice("state", [tag \in 0 .. 13 |-> PropertyStates[tag + 1]],
           [tag \in 0 .. 13 |->
               << Numbered(tag, IF tag = 0 THEN "length" ELSE StateType(PropertyStates[tag + 1]),
                           "value") >>]) >>

bacapp_decode_context_property_state(tag, field) ==
    << Opening(tag), Group(field, bacapp_decode_property_state), Closing(tag) >>

-----------------------------------------------------------------------------
\* References.  The array index is left out when it is zero and the device when
\* it is not one.
bacapp_encode_device_obj_property_ref(r) ==
    Ctx(0, "oid", r.object) \o Ctx(1, "enum", r.property)
    \o When(r.index > 0, Ctx(2, "unsigned", r.index))
    \o When(r.device.type = OBJECT_DEVICE, Ctx(3, "oid", r.device))

bacapp_encode_context_device_obj_property_ref(tag, r) ==
    Enclosed(tag, bacapp_encode_device_obj_property_ref(r))

bacapp_decode_device_obj_property_ref ==
    << Required(0, "oid", "object"), Required(1, "enum", "property"),
       Optional(2, "unsigned", "index", 0), Optional(3, "oid", "device", NoDevice) >>

bacapp_decode_context_device_obj_property_ref(tag, field) ==
    << Opening(tag), Group(field, bacapp_decode_device_obj_property_ref), Closing(tag) >>

bacapp_encode_device_obj_ref(r) ==
    When(r.device.type = OBJECT_DEVICE, Ctx(0, "oid", r.device)) \o Ctx(1, "oid", r.object)

bacapp_encode_context_device_obj_ref(tag, r) == Enclosed(tag, bacapp_encode_device_obj_ref(r))

bacapp_decode_device_obj_ref ==
    << Optional(0, "oid", "device", NoDevice), Required(1, "oid", "object") >>

bacapp_decode_context_device_obj_ref(tag, field) ==
    << Opening(tag), Group(field, bacapp_decode_device_obj_ref), Closing(tag) >>
=============================================================================
