--------------------------- MODULE PropertyCodec ---------------------------
(***************************************************************************)
(* The services that read and write properties, encoded and decoded:       *)
(* rp.c, rpm.c, wp.c and readrange.c.                                      *)
(***************************************************************************)
EXTENDS Elements

NoPriority  == 0        \* BACNET_NO_PRIORITY
MaxPriority == 16       \* BACNET_MAX_PRIORITY

\* A property reference: which object, which property, which entry of it.
PropertyReference(d) ==
    Ctx(0, "oid", d.object) \o Ctx(1, "enum", d.property)
    \o When(d.index # All, Ctx(2, "unsigned", d.index))

-----------------------------------------------------------------------------
\* ReadProperty
rp_encode_apdu(d) == PropertyReference(d)

rp_decode_service_request ==
    << Required(0, "oid", "object"), Numbered(1, "enum", "property"),
       Optional(2, "unsigned", "index", All) >>

\* what is left over after the optional index is too many arguments
RefuseMore(steps, s) ==
    LET AtEnd(c) == IF c.ok /\ ~More(c) THEN c ELSE Fail(c)
    IN  Outcome(AtEnd(Read(steps, Cursor(s))))

rp_ack_encode_apdu(d) == PropertyReference(d) \o Enclosed(3, d.value)

rp_ack_decode_service_request ==
    << Required(0, "oid", "object"), Numbered(1, "enum", "property"),
       Optional(2, "unsigned", "index", All), Within(3, "value") >>

-----------------------------------------------------------------------------
\* ReadPropertyMultiple: per object a list of property references, and in the
\* answer a value or an error for each.
rpm_encode_apdu_object_property(p) ==
    Ctx(0, "enum", p.property) \o When(p.index # All, Ctx(1, "unsigned", p.index))

rpm_encode_apdu(d) ==
    FlattenSeq([i \in DOMAIN d.objects |->
        Ctx(0, "oid", d.objects[i].object) \o Enclosed(1,
            FlattenSeq([j \in DOMAIN d.objects[i].properties |->
                rpm_encode_apdu_object_property(d.objects[i].properties[j])]))])

rpm_decode_object_property ==
    << Required(0, "enum", "property"), Optional(1, "unsigned", "index", All) >>

rpm_decode_object_id == << Required(0, "oid", "object"), Opening(1) >>

rpm_decode_service_request ==
    << Repeat("objects", rpm_decode_object_id
                         \o << Repeat("properties", rpm_decode_object_property), Closing(1) >>) >>

rpm_ack_encode_apdu_object_property(p) ==
    Ctx(2, "enum", p.property) \o When(p.index # All, Ctx(3, "unsigned", p.index))

rpm_ack_encode_apdu_object_property_value(p) == Enclosed(4, p.value)

rpm_ack_encode_apdu_object_property_error(p) ==
    Enclosed(5, App("enum", p.error_class) \o App("enum", p.error_code))

RpmAckResult(p) ==
    rpm_ack_encode_apdu_object_property(p)
    \o (IF p.result = "value" THEN rpm_ack_encode_apdu_object_property_value(p)
        ELSE rpm_ack_encode_apdu_object_property_error(p))

rpm_ack_encode_apdu(d) ==
    FlattenSeq([i \in DOMAIN d.objects |->
        Ctx(0, "oid", d.objects[i].object) \o Enclosed(1,
            FlattenSeq([j \in DOMAIN d.objects[i].properties |->
                RpmAckResult(d.objects[i].properties[j])]))])

rpm_ack_decode_object_property ==
    << Required(2, "enum", "property"), Optional(3, "unsigned", "index", All) >>

rpm_ack_decode_service_request ==
    << Repeat("objects",
          << Required(0, "oid", "object"), Opening(1),
             Repeat("properties", rpm_ack_decode_object_property
                \o << Choice("result", (4 :> "value") @@ (5 :> "error"),
                         (4 :> << Within(4, "value") >>)
                         @@ (5 :> << Opening(5), Application("enum", "error_class"),
                                     Application("enum", "error_code"), Closing(5) >>)) >>),
             Closing(1) >>) >>

-----------------------------------------------------------------------------
\* WriteProperty
wp_encode_apdu(d) ==
    PropertyReference(d) \o Enclosed(3, d.value)
    \o When(d.priority # NoPriority, Ctx(4, "unsigned", d.priority))

wp_decode_steps ==
    << Required(0, "oid", "object"), Numbered(1, "enum", "property"),
       Optional(2, "unsigned", "index", All), Within(3, "value"),
       Optional(4, "unsigned", "priority", MaxPriority) >>

\* a priority outside 1 .. 16 is refused; none at all means the lowest
wp_decode_service_request(s) ==
    LET Checked(r) == IF r.ok /\ r.data.priority \in 1 .. MaxPriority THEN r ELSE [ok |-> FALSE]
    IN  Checked(Decode(wp_decode_steps, s))

-----------------------------------------------------------------------------
\* ReadRange
rr_encode_apdu(d) ==
    PropertyReference(d)
    \o (CASE d.request = "by_position" ->
               Enclosed(3, App("unsigned", d.reference) \o App("signed", d.count))
          [] d.request = "by_sequence" ->
               Enclosed(6, App("unsigned", d.reference) \o App("signed", d.count))
          [] d.request = "by_time" ->
               Enclosed(7, App("date", d.date) \o App("time", d.time) \o App("signed", d.count))
          [] d.request = "read_all" -> <<>>)

rr_decode_service_request ==
    << Required(0, "oid", "object"), Numbered(1, "enum", "property"),
       Optional(2, "unsigned", "index", All),
       ChoiceOr("request",
           (3 :> "by_position") @@ (6 :> "by_sequence") @@ (7 :> "by_time"),
           (3 :> << Skip, Application("unsigned", "reference"),
                    Application("signed", "count"), Skip >>)
           @@ (6 :> << Skip, Application("unsigned", "reference"),
                       Application("signed", "count") >>)
           @@ (7 :> << Skip, Application("date", "date"), Application("time", "time"),
                       Application("signed", "count"), Skip >>),
           "read_all") >>

rr_ack_encode_apdu(d) ==
    PropertyReference(d) \o Ctx(3, "bits", d.flags) \o Ctx(4, "unsigned", d.count)
    \o Enclosed(5, When(d.count # 0, d.value))
    \o When(d.count # 0 /\ d.request \notin {"by_position", "read_all"},
            Ctx(6, "unsigned", d.first))

\* The walk over the items adds each tag's value as the length of its contents,
\* also for an application tagged TRUE, which has none: such a walk is lost.
WalkSurvives(s) == \A i \in DOMAIN s : s[i].cls = "app" /\ s[i].tag = TagOf.boolean => s[i].lvt = 0

rr_ack_decode_steps ==
    << Required(0, "oid", "object"), Numbered(1, "enum", "property"),
       Optional(2, "unsigned", "index", All), Numbered(3, "bits", "flags"),
       Numbered(4, "unsigned", "count"), Within(5, "value"),
       Optional(6, "unsigned", "first", 0) >>

rr_ack_decode_service_request(s) ==
    IF WalkSurvives(s) THEN Decode(rr_ack_decode_steps, s) ELSE [ok |-> FALSE]
=============================================================================
