-------------------------------- MODULE Npdu --------------------------------
(***************************************************************************)
(* The network layer's header (npdu.c): who sends to whom over networks,   *)
(* how urgently, and whether an answer is expected.                        *)
(*                                                                         *)
(* An address of network 0 is one on the local network; it is not sent.    *)
(***************************************************************************)
LOCAL INSTANCE Integers
LOCAL INSTANCE Sequences
LOCAL INSTANCE Primitives

MaxMacLen == 7                  \* MAX_MAC_LEN
NetworkMessageInvalid == 256    \* NETWORK_MESSAGE_INVALID
FirstVendorMessage == 128
LocalAddress == [net |-> 0, adr |-> <<>>]

Bit(on, value) == IF on THEN value ELSE 0
Has(octet, value) == (octet \div value) % 2 = 1

\* npdu_encode_npdu_data: what every request and answer of this stack carries
npdu_encode_npdu_data(expectingReply, priority) ==
    [version |-> 1, expectingReply |-> expectingReply, networkMessage |-> FALSE,
     messageType |-> NetworkMessageInvalid, vendor |-> 0, priority |-> priority, hops |-> 255]

npdu_copy_data(src) == src

RemoteAddress(a) == IF a.net = 0 THEN <<>> ELSE OctetsOf(a.net, 2) \o <<Len(a.adr)>> \o a.adr

npdu_encode_pdu(dest, src, d) ==
    << d.version,
       Bit(d.networkMessage, 128) + Bit(dest.net # 0, 32) + Bit(src.net # 0, 8)
       + Bit(d.expectingReply, 4) + (d.priority % 4) >>
    \o RemoteAddress(dest) \o RemoteAddress(src)
    \o (IF dest.net # 0 THEN <<d.hops>> ELSE <<>>)
    \o (IF ~d.networkMessage THEN <<>>
        ELSE <<d.messageType>>
             \o (IF d.messageType >= FirstVendorMessage THEN OctetsOf(d.vendor, 2) ELSE <<>>))

\* An address as it is read: where it ends, or that it is longer than any can be.
ReadAddress(s, at, present) ==
    IF ~present THEN [ok |-> TRUE, next |-> at, address |-> LocalAddress]
    ELSE [ok |-> s[at + 2] <= MaxMacLen, next |-> at + 3 + s[at + 2],
          address |-> [net |-> UnsignedFrom(SubSeq(s, at, at + 1)),
                       adr |-> SubSeq(s, at + 3, at + 2 + s[at + 2])]]

\* The hop count is there when the destination's network is not zero; the vendor
\* is read with a vendor's message only and is otherwise what it was, zero here.
npdu_decode(s) ==
    LET dest   == ReadAddress(s, 3, Has(s[2], 32))
        src    == ReadAddress(s, dest.next, Has(s[2], 8))
        routed == dest.address.net # 0
        body   == src.next + Bit(routed, 1)
        message == Has(s[2], 128)
        vendors == message /\ s[body] >= FirstVendorMessage
    IN  IF ~dest.ok \/ ~src.ok THEN [ok |-> FALSE]
        ELSE [ok |-> TRUE, dest |-> dest.address, src |-> src.address,
              data |-> [version |-> s[1], expectingReply |-> Has(s[2], 4),
                        networkMessage |-> message, priority |-> s[2] % 4,
                        hops |-> IF routed THEN s[src.next] ELSE 0,
                        messageType |-> IF message THEN s[body] ELSE NetworkMessageInvalid,
                        vendor |-> IF vendors THEN UnsignedFrom(SubSeq(s, body + 1, body + 2))
                                   ELSE 0],
              length |-> (body - 1) + Bit(message, 1) + Bit(vendors, 2)]
=============================================================================
