----------------------------- MODULE AlarmCodec -----------------------------
(***************************************************************************)
(* The services for changes of value, events and alarms, encoded and       *)
(* decoded: cov.c, event.c, getevent.c, alarm_ack.c and lso.c.             *)
(***************************************************************************)
EXTENDS ConstructedCodec

-----------------------------------------------------------------------------
\* Change of value notifications
CovValue(v) ==
    Ctx(0, "enum", v.property) \o When(v.index # All, Ctx(1, "unsigned", v.index))
    \o Enclosed(2, bacapp_encode_application_data(v.value))
    \o When(v.priority # 0, Ctx(3, "unsigned", v.priority))

notify_encode_adpu(d) ==
    Ctx(0, "unsigned", d.process) \o Ctx(1, "oid", d.device) \o Ctx(2, "oid", d.object)
    \o Ctx(3, "unsigned", d.timeRemaining)
    \o Enclosed(4, FlattenSeq([i \in DOMAIN d.values |-> CovValue(d.values[i])]))

\* there is room for, and need of, at least one value
cov_notify_decode_service_request ==
    << Required(0, "unsigned", "process"),
       Required(1, "oid", "device"), Among("device", [type : {OBJECT_DEVICE}, instance : 0 .. 4194303]),
       Required(2, "oid", "object"), Required(3, "unsigned", "timeRemaining"), Opening(4),
       RepeatSome("values",
           << Required(0, "enum", "property"), Optional(1, "unsigned", "index", All),
              Opening(2), AnyApplication("value"), Closing(2),
              Optional(3, "unsigned", "priority", 0) >>), Closing(4) >>

\* Subscriptions.  A cancellation is a subscription with neither of the two.
SubscriptionTerms(d) ==
    When(d.confirmed # <<>>, Ctx(2, "boolean", d.confirmed[1]) \o Ctx(3, "unsigned", d.lifetime))

SubscriptionSteps ==
    << Maybe(2, "boolean", "confirmed"), Optional(3, "unsigned", "lifetime", 0) >>

cov_subscribe_encode_adpu(d) ==
    Ctx(0, "unsigned", d.process) \o Ctx(1, "oid", d.object) \o SubscriptionTerms(d)

cov_subscribe_decode_service_request ==
    << Required(0, "unsigned", "process"), Required(1, "oid", "object") >> \o SubscriptionSteps

cov_subscribe_property_encode_adpu(d) ==
    Ctx(0, "unsigned", d.process) \o Ctx(1, "oid", d.object) \o SubscriptionTerms(d)
    \o Enclosed(4, Ctx(0, "enum", d.property) \o When(d.index # All, Ctx(1, "unsigned", d.index)))
    \o When(d.increment # <<>>, Ctx(5, "real", d.increment[1]))

cov_subscribe_property_decode_service_request ==
    << Required(0, "unsigned", "process"), Required(1, "oid", "object") >> \o SubscriptionSteps
    \o << Opening(4), Required(0, "enum", "property"), Optional(1, "unsigned", "index", All),
          Closing(4), Maybe(5, "real", "increment") >>

-----------------------------------------------------------------------------
\* Event notifications.  The parameters depend on the type of the event; the
\* fields of each are listed in the order and with the tags of the wire.
EVENT_CHANGE_OF_STATE == 1
EVENT_CHANGE_OF_VALUE == 2
EVENT_BUFFER_READY    == 10
NOTIFY_ALARM == 0
NOTIFY_EVENT == 1
NOTIFY_ACK   == 2

Flags(tag) == << tag, "bits", "flags" >>
Reals(first, second, third) ==
    << << 0, "real", first >>, Flags(1), << 2, "real", second >>, << 3, "real", third >> >>

PlainParameters ==
    (0 :> << << 0, "bits", "referenced" >>, Flags(1) >>)
    @@ (4  :> Reals("reference", "setPoint", "errorLimit"))
    @@ (5  :> Reals("exceeding", "deadband", "exceeded"))
    @@ (8  :> << << 0, "enum", "newState" >>, << 1, "enum", "newMode" >>, Flags(2),
                 << 3, "enum", "expected" >> >>)
    @@ (11 :> << << 0, "unsigned", "exceeding" >>, Flags(1), << 2, "unsigned", "exceeded" >> >>)

EventTypes == DOMAIN PlainParameters
              \cup {EVENT_CHANGE_OF_STATE, EVENT_CHANGE_OF_VALUE, EVENT_BUFFER_READY}

EncodeParameters(type, p) ==
    CASE type \in DOMAIN PlainParameters ->
             FlattenSeq([i \in DOMAIN PlainParameters[type] |->
                 LET f == PlainParameters[type][i] IN Ctx(f[1], f[2], p[f[3]])])
      [] type = EVENT_CHANGE_OF_STATE ->
             Enclosed(0, bacapp_encode_property_state(p.newState)) \o Ctx(1, "bits", p.flags)
      [] type = EVENT_CHANGE_OF_VALUE ->
             Enclosed(0, IF p.value = "real" THEN Ctx(1, "real", p.changeValue)
                         ELSE Ctx(0, "bits", p.changedBits))
             \o Ctx(1, "bits", p.flags)
      [] type = EVENT_BUFFER_READY ->
             bacapp_encode_context_device_obj_property_ref(0, p.buffer)
             \o Ctx(1, "unsigned", p.previous) \o Ctx(2, "unsigned", p.current)

DecodeParameters(type) ==
    CASE type \in DOMAIN PlainParameters ->
             [i \in DOMAIN PlainParameters[type] |->
                 LET f == PlainParameters[type][i] IN Required(f[1], f[2], f[3])]
      [] type = EVENT_CHANGE_OF_STATE ->
             bacapp_decode_context_property_state(0, "newState") \o << Required(1, "bits", "flags") >>
      [] type = EVENT_CHANGE_OF_VALUE ->
             << Opening(0),
                Choice("value", (0 :> "bits") @@ (1 :> "real"),
                    (0 :> << Required(0, "bits", "changedBits") >>)
                    @@ (1 :> << Required(1, "real", "changeValue") >>)),
                Closing(0), Required(1, "bits", "flags") >>
      [] type = EVENT_BUFFER_READY ->
             bacapp_decode_context_device_obj_property_ref(0, "buffer")
             \o << Required(1, "unsigned", "previous"), Required(2, "unsigned", "current") >>

Noteworthy(notifyType) == notifyType \in {NOTIFY_ALARM, NOTIFY_EVENT}

event_notify_encode_service_request(d) ==
    Ctx(0, "unsigned", d.process) \o Ctx(1, "oid", d.device) \o Ctx(2, "oid", d.object)
    \o bacapp_encode_context_timestamp(3, d.stamp)
    \o Ctx(4, "unsigned", d.class) \o Ctx(5, "unsigned", d.priority) \o Ctx(6, "enum", d.eventType)
    \o When(d.text # <<>>, Ctx(7, "string", d.text[1])) \o Ctx(8, "enum", d.notifyType)
    \o When(Noteworthy(d.notifyType),
            Ctx(9, "boolean", d.ackRequired) \o Ctx(10, "enum", d.fromState))
    \o Ctx(11, "enum", d.toState)
    \o When(Noteworthy(d.notifyType),
            Enclosed(12, Enclosed(d.eventType, EncodeParameters(d.eventType, d.parameters))))

EventHeader ==
    << Required(0, "unsigned", "process"), Required(1, "oid", "device"),
       Required(2, "oid", "object") >>
    \o bacapp_decode_context_timestamp(3, "stamp")
    \o << Required(4, "unsigned", "class"),
          Required(5, "unsigned", "priority"), Among("priority", 0 .. 255),
          Required(6, "enum", "eventType"), Maybe(7, "string", "text"),
          Required(8, "enum", "notifyType") >>

\* what follows the header depends on what the header said
event_notify_decode_service_request(s) ==
    LET Remainder(type, noteworthy) ==
            IF noteworthy
            THEN << Required(9, "boolean", "ackRequired"), Required(10, "enum", "fromState"),
                    Required(11, "enum", "toState"), Opening(12), Opening(type),
                    Group("parameters", DecodeParameters(type)), Closing(type), Closing(12) >>
            ELSE << Required(11, "enum", "toState") >>
        Known(head) ==
            head.ok /\ (Noteworthy(head.got.notifyType) => head.got.eventType \in EventTypes)
        Whole(head) ==
            IF Known(head)
            THEN Read(Remainder(head.got.eventType, Noteworthy(head.got.notifyType)), head)
            ELSE Fail(head)
    IN  Outcome(Whole(Read(EventHeader, Cursor(s))))

-----------------------------------------------------------------------------
\* GetEventInformation
getevent_encode_apdu(d) == When(d.last # <<>>, Ctx(0, "oid", d.last[1]))

\* no arguments at all are no last object; the decoder looks at nothing then
getevent_decode_service_request(s) ==
    IF s = <<>> THEN [ok |-> TRUE, data |-> [last |-> <<>>]]
    ELSE LET Checked(r) == IF r.ok /\ r.data.last # <<>> THEN r ELSE [ok |-> FALSE]
         IN  Checked(Decode(<< Maybe(0, "oid", "last") >>, s))

getevent_ack_encode_apdu_data(e) ==
    Ctx(0, "oid", e.object) \o Ctx(1, "enum", e.state) \o Ctx(2, "bits", e.acknowledged)
    \o Enclosed(3, bacapp_encode_timestamp(e.toOffnormal) \o bacapp_encode_timestamp(e.toFault)
                   \o bacapp_encode_timestamp(e.toNormal))
    \o Ctx(4, "enum", e.notifyType) \o Ctx(5, "bits", e.enable)
    \o Enclosed(6, App("unsigned", e.p1) \o App("unsigned", e.p2) \o App("unsigned", e.p3))

getevent_ack_encode_apdu(d) ==
    Enclosed(0, FlattenSeq([i \in DOMAIN d.events |-> getevent_ack_encode_apdu_data(d.events[i])]))
    \o Ctx(1, "boolean", d.more)

\* a list without events is refused
getevent_ack_decode_service_request ==
    << Opening(0),
       RepeatSome("events",
           << Required(0, "oid", "object"), Required(1, "enum", "state"),
              Required(2, "bits", "acknowledged"), Opening(3),
              Group("toOffnormal", bacapp_decode_timestamp),
              Group("toFault", bacapp_decode_timestamp),
              Group("toNormal", bacapp_decode_timestamp), Closing(3),
              Required(4, "enum", "notifyType"), Required(5, "bits", "enable"), Opening(6),
              AnyUnsigned("p1"), AnyUnsigned("p2"), AnyUnsigned("p3"), Closing(6) >>),
       Closing(0), Required(1, "boolean", "more") >>

-----------------------------------------------------------------------------
\* AcknowledgeAlarm
alarm_ack_encode_service_request(d) ==
    Ctx(0, "unsigned", d.process) \o Ctx(1, "oid", d.object) \o Ctx(2, "enum", d.state)
    \o bacapp_encode_context_timestamp(3, d.eventStamp) \o Ctx(4, "string", d.source)
    \o bacapp_encode_context_timestamp(5, d.ackStamp)

alarm_ack_decode_service_request ==
    << Required(0, "unsigned", "process"), Required(1, "oid", "object"),
       Required(2, "enum", "state") >>
    \o bacapp_decode_context_timestamp(3, "eventStamp") \o << Required(4, "string", "source") >>
    \o bacapp_decode_context_timestamp(5, "ackStamp")

\* LifeSafetyOperation: the target is always sent, and read when it is there
lso_encode_adpu(d) ==
    Ctx(0, "unsigned", d.process) \o Ctx(1, "string", d.source) \o Ctx(2, "enum", d.operation)
    \o Ctx(3, "oid", d.target)

lso_decode_service_request ==
    << Required(0, "unsigned", "process"), Required(1, "string", "source"),
       Required(2, "enum", "operation"), Optional(3, "oid", "target", NoDevice) >>
=============================================================================
