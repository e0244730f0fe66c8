------------------------------- MODULE Codec --------------------------------
(***************************************************************************)
(* A message on its way: the service's parameters, encoded behind the      *)
(* heads of the APDU and of the network layer into octets, and read back   *)
(* at the other end the way the dispatch of apdu.c hands it to the         *)
(* service's decoder.                                                      *)
(***************************************************************************)
EXTENDS PropertyCodec, AlarmCodec, DiscoveryCodec, FileCodec

Network == INSTANCE Npdu

CONSTANT Messages       \* sets of the [service, data] records somebody may send

VARIABLES message,      \* what was sent last
          wire,         \* its octets, none when nothing is under way
          understood    \* what was received last

codecVars == << message, wire, understood >>

-----------------------------------------------------------------------------
\* The services by kind of PDU and service choice.
ConfirmedChoice ==
    [ alarm_ack |-> 0, ccov_notify |-> 1, cevent_notify |-> 2, cov_subscribe |-> 5, arf |-> 6,
      awf |-> 7, rp |-> 12, rpm |-> 14, wp |-> 15, dcc |-> 17, ptransfer |-> 18, rd |-> 20,
      rr |-> 26, lso |-> 27, cov_subscribe_property |-> 28, getevent |-> 29 ]
UnconfirmedChoice ==
    [ iam |-> 0, ihave |-> 1, ucov_notify |-> 2, uevent_notify |-> 3, uptransfer |-> 4,
      timesync |-> 6, whohas |-> 7, whois |-> 8, timesync_utc |-> 9 ]
AckChoice ==
    [ arf_ack |-> 6, awf_ack |-> 7, rp_ack |-> 12, rpm_ack |-> 14, ptransfer_ack |-> 18,
      rr_ack |-> 26, getevent_ack |-> 29 ]
ErrorChoice == [ ptransfer_error |-> 18, bacerror |-> 12 ]

\* the answers that may carry data, and those that are no more than a yes
apdu_set_confirmed_ack_handler == {3, 4, 6, 7, 10, 12, 13, 14, 18, 21, 23, 24, 26, 29}
apdu_set_confirmed_simple_ack_handler == {0, 1, 2, 5, 8, 9, 11, 15, 16, 17, 19, 20, 22, 25, 27, 28}

Named(choices, n) ==
    IF \E s \in DOMAIN choices : choices[s] = n
    THEN CHOOSE s \in DOMAIN choices : choices[s] = n ELSE "unrecognized"

EncodeService(service, d) ==
    CASE service = "rp" -> rp_encode_apdu(d)
      [] service = "rp_ack" -> rp_ack_encode_apdu(d)
      [] service = "rpm" -> rpm_encode_apdu(d)
      [] service = "rpm_ack" -> rpm_ack_encode_apdu(d)
      [] service = "wp" -> wp_encode_apdu(d)
      [] service = "rr" -> rr_encode_apdu(d)
      [] service = "rr_ack" -> rr_ack_encode_apdu(d)
      [] service \in {"ccov_notify", "ucov_notify"} -> notify_encode_adpu(d)
      [] service = "cov_subscribe" -> cov_subscribe_encode_adpu(d)
      [] service = "cov_subscribe_property" -> cov_subscribe_property_encode_adpu(d)
      [] service \in {"cevent_notify", "uevent_notify"} -> event_notify_encode_service_request(d)
      [] service = "getevent" -> getevent_encode_apdu(d)
      [] service = "getevent_ack" -> getevent_ack_encode_apdu(d)
      [] service = "alarm_ack" -> alarm_ack_encode_service_request(d)
      [] service = "lso" -> lso_encode_adpu(d)
      [] service = "whois" -> whois_encode_apdu(d)
      [] service = "whohas" -> whohas_encode_apdu(d)
      [] service = "iam" -> iam_encode_apdu(d)
      [] service = "ihave" -> ihave_encode_apdu(d)
      [] service \in {"timesync", "timesync_utc"} -> timesync_encode_apdu_service(d)
      [] service = "rd" -> rd_encode_apdu(d)
      [] service = "dcc" -> dcc_encode_apdu(d)
      [] service = "bacerror" -> bacerror_encode_apdu(d)
      [] service = "arf" -> arf_encode_apdu(d)
      [] service = "arf_ack" -> arf_ack_encode_apdu(d)
      [] service = "awf" -> awf_encode_apdu(d)
      [] service = "awf_ack" -> awf_ack_encode_apdu(d)
      [] service \in {"ptransfer", "uptransfer"} -> pt_encode_apdu(d)
      [] service = "ptransfer_ack" -> ptransfer_ack_encode_apdu(d)
      [] service = "ptransfer_error" -> ptransfer_error_encode_apdu(d)

DecodeService(service, s) ==
    CASE service = "rp" -> RefuseMore(rp_decode_service_request, s)
      [] service = "rp_ack" -> Decode(rp_ack_decode_service_request, s)
      [] service = "rpm" -> Decode(rpm_decode_service_request, s)
      [] service = "rpm_ack" -> Decode(rpm_ack_decode_service_request, s)
      [] service = "wp" -> wp_decode_service_request(s)
      [] service = "rr" -> Decode(rr_decode_service_request, s)
      [] service = "rr_ack" -> rr_ack_decode_service_request(s)
      [] service \in {"ccov_notify", "ucov_notify"} -> Decode(cov_notify_decode_service_request, s)
      [] service = "cov_subscribe" -> Decode(cov_subscribe_decode_service_request, s)
      [] service = "cov_subscribe_property" ->
             Decode(cov_subscribe_property_decode_service_request, s)
      [] service \in {"cevent_notify", "uevent_notify"} -> event_notify_decode_service_request(s)
      [] service = "getevent" -> getevent_decode_service_request(s)
      [] service = "getevent_ack" -> Decode(getevent_ack_decode_service_request, s)
      [] service = "alarm_ack" -> Decode(alarm_ack_decode_service_request, s)
      [] service = "lso" -> Decode(lso_decode_service_request, s)
      [] service = "whois" -> whois_decode_service_request(s)
      [] service = "whohas" -> whohas_decode_service_request(s)
      [] service = "iam" -> iam_decode_service_request(s)
      [] service = "ihave" -> Decode(ihave_decode_service_request, s)
      [] service \in {"timesync", "timesync_utc"} -> Decode(timesync_decode_service_request, s)
      [] service = "rd" -> rd_decode_service_request(s)
      [] service = "dcc" -> dcc_decode_service_request(s)
      [] service = "bacerror" -> Decode(bacerror_decode_error_class_and_code, s)
      [] service = "arf" -> Decode(arf_decode_service_request, s)
      [] service = "arf_ack" -> Decode(arf_ack_decode_service_request, s)
      [] service = "awf" -> Decode(awf_decode_service_request, s)
      [] service = "awf_ack" -> Decode(awf_ack_decode_service_request, s)
      [] service \in {"ptransfer", "uptransfer", "ptransfer_ack"} ->
             ptransfer_decode_service_request(s)
      [] service = "ptransfer_error" -> ptransfer_error_decode_service_request(s)
      [] OTHER -> [ok |-> FALSE]

-----------------------------------------------------------------------------
InvokeId == 17

ApduHead(service) ==
    CASE service \in DOMAIN ConfirmedChoice -> ConfirmedHead(InvokeId, ConfirmedChoice[service])
      [] service \in DOMAIN UnconfirmedChoice -> UnconfirmedHead(UnconfirmedChoice[service])
      [] service \in DOMAIN AckChoice -> ComplexAckHead(InvokeId, AckChoice[service])
      [] service \in DOMAIN ErrorChoice -> ErrorHead(InvokeId, ErrorChoice[service])

Apdu(m) ==
    CASE m.service = "simple_ack" -> encode_simple_ack(InvokeId, m.data.choice)
      [] m.service = "reject" -> reject_encode_apdu(InvokeId, reject_convert_error_code(m.data.code))
      [] m.service = "abort" ->
             abort_encode_apdu(InvokeId, abort_convert_error_code(m.data.code), m.data.server)
      [] OTHER -> ApduHead(m.service) \o OctetStream(EncodeService(m.service, m.data))

\* the head of a confirmed request says how large an answer may be
apdu_decode_confirmed_service_request(a) ==
    [segments |-> decode_max_segs(a[2]), octets |-> decode_max_apdu(a[2]), id |-> a[3]]

\* apdu_handler: which service the octets are for, by the upper half of the first
Dispatch(a) ==
    LET kind == a[1] \div 16
        service ==
            CASE kind = 0 -> Named(ConfirmedChoice, a[4])
              [] kind = 1 -> Named(UnconfirmedChoice, a[2])
              [] kind = 3 -> IF a[3] \in apdu_set_confirmed_ack_handler
                             THEN Named(AckChoice, a[3]) ELSE "unrecognized"
              [] kind = 5 -> IF a[3] = ErrorChoice.ptransfer_error THEN "ptransfer_error"
                             ELSE "bacerror"
        head == CASE kind = 0 -> 4 [] kind = 1 -> 2 [] OTHER -> 3
    IN  CASE kind \in {0, 1, 3, 5} ->
                 [service |-> service]
                 @@ DecodeService(service, Elements(SubSeq(a, head + 1, Len(a))))
                 @@ (IF kind = 0 THEN [limits |-> apdu_decode_confirmed_service_request(a)] ELSE <<>>)
          [] kind = 2 -> IF a[3] \in apdu_set_confirmed_simple_ack_handler
                         THEN [service |-> "simple_ack", ok |-> TRUE, data |-> [choice |-> a[3]]]
                         ELSE [service |-> "unrecognized", ok |-> FALSE]
          [] kind = 6 -> [service |-> "reject", ok |-> TRUE,
                          data |-> [reason |-> reject_decode_service_request(Tail(a)).reason]]
          [] kind = 7 -> [service |-> "abort", ok |-> TRUE,
                          data |-> [reason |-> abort_decode_service_request(Tail(a)).reason,
                                    server |-> a[1] % 2 = 1]]
          [] OTHER -> [service |-> "unrecognized", ok |-> FALSE]

CodecInit ==
    /\ message = [service |-> "none"]
    /\ wire = <<>>
    /\ understood = [service |-> "none"]

\* Somebody sends a message, on this network or through routers from and to others.
Send(m, dest, src) ==
    /\ message.service = "none"
    /\ message' = m @@ [dest |-> dest, src |-> src]
    /\ wire' = Network!npdu_encode_pdu(dest, src,
                   Network!npdu_encode_npdu_data(m.service \in DOMAIN ConfirmedChoice, 0))
               \o Apdu(m)
    /\ UNCHANGED understood

\* The other end reads the octets.
Receive ==
    /\ wire # <<>>
    /\ LET n == Network!npdu_decode(wire)
           a == SubSeq(wire, n.length + 1, Len(wire))
       IN  understood' = (IF n.ok THEN [dest |-> n.dest, src |-> n.src] @@ Dispatch(a)
                          ELSE [service |-> "unrecognized", ok |-> FALSE])
    /\ wire' = <<>>
    /\ UNCHANGED message

\* It has been dealt with; the next one may come.
Finish ==
    /\ understood.service # "none"
    /\ message' = [service |-> "none"]
    /\ understood' = [service |-> "none"]
    /\ UNCHANGED wire

Addresses == { Network!LocalAddress, [net |-> 7, adr |-> <<>>], [net |-> 300, adr |-> <<1, 2, 3, 4, 186, 192>>] }

CodecNext ==
    \/ \E i \in DOMAIN Messages : \E m \in Messages[i], dest, src \in Addresses : Send(m, dest, src)
    \/ Receive
    \/ Finish

-----------------------------------------------------------------------------
\* What a message says when nothing is lost on the way.  Three things are known
\* to change: a write without a priority has the lowest one, half a range of
\* instances is none, and - a slip of bacpropstates.c - a false state reads true.
Meaning(m) ==
    CASE m.service = "wp" -> [m.data EXCEPT !.priority = IF @ = NoPriority THEN MaxPriority ELSE @]
      [] m.service = "whois" -> IF IsRange(m.data.low, m.data.high) THEN m.data
                                ELSE [low |-> NoLimit, high |-> NoLimit]
      [] m.service = "rr_ack" ->
             [object |-> m.data.object, property |-> m.data.property, index |-> m.data.index,
              flags |-> m.data.flags, count |-> m.data.count,
              value |-> When(m.data.count # 0, m.data.value),
              first |-> IF m.data.count # 0 /\ m.data.request = "by_sequence"
                        THEN m.data.first ELSE 0]
      [] m.service \in {"cevent_notify", "uevent_notify"} ->
             IF m.data.eventType = EVENT_CHANGE_OF_STATE /\ Noteworthy(m.data.notifyType)
                /\ m.data.parameters.newState.state = "boolean"
             THEN [m.data EXCEPT !.parameters.newState.value = TRUE] ELSE m.data
      [] m.service = "reject" -> [reason |-> reject_convert_error_code(m.data.code)]
      [] m.service = "abort" -> [reason |-> abort_convert_error_code(m.data.code),
                                 server |-> m.data.server]
      [] OTHER -> m.data

\* Whatever the sender put into a message - the boundary values of every width an
\* integer is packed in, absent and present optional parameters, lists, values of
\* every type - the receiver's decoder accepts and finds the same again
\* (the encoders and decoders of every service, the tags between them, the
\* network header in front).
RoundTrip ==
    understood.service # "none" =>
        /\ understood.service = message.service
        /\ understood.dest = message.dest /\ understood.src = message.src
        /\ understood.ok
        /\ understood.data = Meaning(message)
        /\ message.service \in DOMAIN ConfirmedChoice =>
               understood.limits = [segments |-> 0, octets |-> MaxApdu, id |-> InvokeId]
=============================================================================
