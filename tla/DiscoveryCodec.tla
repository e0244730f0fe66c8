--------------------------- MODULE DiscoveryCodec ---------------------------
(***************************************************************************)
(* Finding devices and objects, setting clocks, managing a device, and     *)
(* the answers that are no data: whois.c, whohas.c, iam.c, ihave.c,        *)
(* timesync.c, rd.c, dcc.c, bacerror.c, reject.c and abort.c.              *)
(***************************************************************************)
EXTENDS ConstructedCodec

MaxInstance == 4194303          \* BACNET_MAX_INSTANCE
MaxSegmentation == 4            \* MAX_BACNET_SEGMENTATION
NoLimit == -1

-----------------------------------------------------------------------------
\* Who-Is and Who-Has: the range of instances is left out when it is not one.
IsRange(low, high) ==
    low >= 0 /\ low <= MaxInstance /\ high >= 0 /\ high <= MaxInstance

Limits(d) ==
    When(IsRange(d.low, d.high), Ctx(0, "unsigned", d.low) \o Ctx(1, "unsigned", d.high))

whois_encode_apdu(d) == Limits(d)

\* the caller's limits stay as they are where a number is too large to be one
Instance(v, before) == IF v <= MaxInstance THEN v ELSE before

whois_decode_service_request(s) ==
    IF s = <<>> THEN [ok |-> TRUE, data |-> [low |-> NoLimit, high |-> NoLimit]]
    ELSE LET Limited(r) ==
                 IF r.ok THEN [ok |-> TRUE, data |-> [low  |-> Instance(r.data.low, NoLimit),
                                                      high |-> Instance(r.data.high, NoLimit)]]
                 ELSE r
         IN  Limited(Decode(<< Numbered(0, "unsigned", "low"), Numbered(1, "unsigned", "high") >>, s))

whohas_encode_apdu(d) ==
    Limits(d) \o (IF d.what = "name" THEN Ctx(3, "string", d.name) ELSE Ctx(2, "oid", d.object))

whohas_decode_service_request(s) ==
    LET what == << Choice("what", (2 :> "object") @@ (3 :> "name"),
                      (2 :> << Required(2, "oid", "object") >>)
                      @@ (3 :> << Required(3, "string", "name") >>)) >>
        ranged == << Required(0, "unsigned", "low"), Required(1, "unsigned", "high") >> \o what
        isRanged == HeadIs(Cursor(s), "ctx", 0)
        Limited(r) ==
            IF r.ok /\ ~isRanged
            THEN [ok |-> TRUE, data |-> (("low" :> NoLimit) @@ ("high" :> NoLimit) @@ r.data)]
            ELSE r
    IN  Limited(Decode(IF isRanged THEN ranged ELSE what, s))

iam_encode_apdu(d) ==
    App("oid", [type |-> OBJECT_DEVICE, instance |-> d.device]) \o App("unsigned", d.maxApdu)
    \o App("enum", d.segmentation) \o App("unsigned", d.vendor)

iam_decode_service_request(s) ==
    LET Checked(r) ==
            IF r.ok /\ r.data.id.type = OBJECT_DEVICE
            THEN [ok |-> TRUE, data |-> [device |-> r.data.id.instance, maxApdu |-> r.data.maxApdu,
                                         segmentation |-> r.data.segmentation,
                                         vendor |-> r.data.vendor]]
            ELSE [ok |-> FALSE]
    IN  Checked(Decode(<< Application("oid", "id"), Application("unsigned", "maxApdu"),
                          Application("enum", "segmentation"),
                          Among("segmentation", 0 .. MaxSegmentation - 1),
                          Application("unsigned", "vendor"), Among("vendor", 0 .. 65535) >>, s))

ihave_encode_apdu(d) == App("oid", d.device) \o App("oid", d.object) \o App("string", d.name)
ihave_decode_service_request ==
    << Application("oid", "device"), Application("oid", "object"), Application("string", "name") >>

timesync_encode_apdu_service(d) == App("date", d.date) \o App("time", d.time)
timesync_decode_service_request == << Application("date", "date"), Application("time", "time") >>

-----------------------------------------------------------------------------
\* Device management.  A password may be left out, a duration of zero is.
rd_encode_apdu(d) ==
    Ctx(0, "enum", d.state) \o When(d.password # <<>>, Ctx(1, "string", d.password[1]))

\* anything after the state has to be a password
rd_decode_service_request(s) ==
    LET Checked(r) == IF r.ok /\ Len(s) > 1 /\ r.data.password = <<>> THEN [ok |-> FALSE] ELSE r
    IN  Checked(Decode(<< Required(0, "enum", "state"), Maybe(1, "string", "password") >>, s))

dcc_encode_apdu(d) ==
    When(d.duration # 0, Ctx(0, "unsigned", d.duration)) \o Ctx(1, "enum", d.enable)
    \o When(d.password # <<>>, Ctx(2, "string", d.password[1]))

\* a duration of more than sixteen bits loses the upper ones
dcc_decode_service_request(s) ==
    LET Checked(c) ==
            IF c.ok /\ (c.got.password = <<>> => ~More(c))
            THEN [ok |-> TRUE, data |-> [c.got EXCEPT !.duration = @ % 65536]]
            ELSE [ok |-> FALSE]
    IN  Checked(Read(<< Optional(0, "unsigned", "duration", 0), Required(1, "enum", "enable"),
                        Maybe(2, "string", "password") >>, Cursor(s)))

-----------------------------------------------------------------------------
\* Errors
bacerror_encode_apdu(d) == App("enum", d.class) \o App("enum", d.code)
bacerror_decode_error_class_and_code == << Application("enum", "class"), Application("enum", "code") >>

\* The code of an error says with which reason a request is rejected or aborted;
\* any other code counts as the last one's reason, OTHER, which is zero.
FirstProprietary == 64
ReasonOf(named, code) == IF code \in DOMAIN named THEN named[code] ELSE 0

abort_convert_error_code(code) ==
    ReasonOf([abort_buffer_overflow |-> 1, abort_invalid_apdu_in_this_state |-> 2,
              abort_preempted_by_higher_priority_task |-> 3,
              abort_segmentation_not_supported |-> 4, abort_proprietary |-> FirstProprietary,
              abort_other |-> 0], code)

reject_convert_error_code(code) ==
    ReasonOf([reject_buffer_overflow |-> 1, reject_inconsistent_parameters |-> 2,
              reject_invalid_parameter_data_type |-> 3, reject_invalid_tag |-> 4,
              reject_missing_required_parameter |-> 5, reject_parameter_out_of_range |-> 6,
              reject_too_many_arguments |-> 7, reject_undefined_enumeration |-> 8,
              reject_unrecognized_service |-> 9, reject_proprietary |-> FirstProprietary,
              reject_other |-> 0], code)

-----------------------------------------------------------------------------
\* What stands in front of the elements, by the kind of the PDU.
encode_max_segs_max_apdu(segments, octets) ==
    (CASE segments < 2 -> 0 [] segments \in 2 .. 3 -> 16 [] segments \in 4 .. 7 -> 32
       [] segments \in 8 .. 15 -> 48 [] segments \in 16 .. 31 -> 64
       [] segments \in 32 .. 63 -> 80 [] segments = 64 -> 96 [] OTHER -> 112)
    + (CASE octets <= 50 -> 0 [] octets \in 51 .. 128 -> 1 [] octets \in 129 .. 206 -> 2
         [] octets \in 207 .. 480 -> 3 [] octets \in 481 .. 1024 -> 4
         [] octets \in 1025 .. 1476 -> 5 [] OTHER -> 0)

decode_max_segs(octet) ==
    LET n == octet \div 16
    IN  IF n = 7 THEN 65 ELSE IF n \in 1 .. 6 THEN 2 ^ n ELSE 0

decode_max_apdu(octet) ==
    LET n == octet % 16
        sizes == << 50, 128, 206, 480, 1024, 1476 >>
    IN  IF n < 6 THEN sizes[n + 1] ELSE 0

ConfirmedHead(id, service) == << 0, encode_max_segs_max_apdu(0, MaxApdu), id, service >>
UnconfirmedHead(service)   == << 16, service >>
encode_simple_ack(id, service) == << 32, id, service >>
ComplexAckHead(id, service) == << 48, id, service >>
ErrorHead(id, service)      == << 80, id, service >>
reject_encode_apdu(id, reason) == << 96, id, reason >>
abort_encode_apdu(id, reason, server) == << IF server THEN 113 ELSE 112, id, reason >>

\* Both are decoded from what follows the first octet.
reject_decode_service_request(s) == [id |-> s[1], reason |-> s[2]]
abort_decode_service_request(s)  == [id |-> s[1], reason |-> s[2]]
=============================================================================
