----------------------------- MODULE FileCodec ------------------------------
(***************************************************************************)
(* Atomic file access and private transfers, encoded and decoded: arf.c,   *)
(* awf.c and ptransfer.c.                                                  *)
(***************************************************************************)
EXTENDS ConstructedCodec

\* A file is read and written as a stream of octets or as numbered records;
\* opening tag 0 or 1 says which.
Access == << "stream", "record" >>
AccessTag(d) == IF d.access = "stream" THEN 0 ELSE 1
ByAccess(stream, record) ==
    OpenedChoice("access", (0 :> "stream") @@ (1 :> "record"),
            (0 :> << Opening(0) >> \o stream \o << Closing(0) >>)
            @@ (1 :> << Opening(1) >> \o record \o << Closing(1) >>))

-----------------------------------------------------------------------------
\* AtomicReadFile
arf_encode_apdu(d) ==
    App("oid", d.file)
    \o Enclosed(AccessTag(d), App("signed", d.start) \o App("unsigned", d.count))

Extent == << Application("signed", "start"), Application("unsigned", "count") >>
arf_decode_service_request == << Application("oid", "file"), ByAccess(Extent, Extent) >>

arf_ack_encode_apdu(d) ==
    App("boolean", d.endOfFile)
    \o Enclosed(AccessTag(d),
                App("signed", d.start) \o When(d.access = "record", App("unsigned", d.count))
                \o App("octets", d.data))

StreamData == << Application("signed", "start"), Application("octets", "data") >>
RecordData == << Application("signed", "start"), Application("unsigned", "count"),
                 Application("octets", "data") >>
arf_ack_decode_service_request ==
    << Application("boolean", "endOfFile"), ByAccess(StreamData, RecordData) >>

-----------------------------------------------------------------------------
\* AtomicWriteFile
awf_encode_apdu(d) ==
    App("oid", d.file)
    \o Enclosed(AccessTag(d),
                App("signed", d.start) \o When(d.access = "record", App("unsigned", d.count))
                \o App("octets", d.data))

awf_decode_service_request == << Application("oid", "file"), ByAccess(StreamData, RecordData) >>

awf_ack_encode_apdu(d) == Ctx(AccessTag(d), "signed", d.start)

awf_ack_decode_service_request ==
    << Choice("access", (0 :> "stream") @@ (1 :> "record"),
           (0 :> << Numbered(0, "signed", "start") >>)
           @@ (1 :> << Numbered(1, "signed", "start") >>)) >>

-----------------------------------------------------------------------------
\* Private transfers.  The parameters are octets nobody looks at: all that
\* stands between the opening tag and the last octet of the APDU.
Numbers(first, d) == Ctx(first, "unsigned", d.vendor) \o Ctx(first + 1, "unsigned", d.service)

pt_encode_apdu(d) == Numbers(0, d) \o Enclosed(2, d.parameters)
ptransfer_ack_encode_apdu(d) == Numbers(0, d) \o Enclosed(2, d.parameters)

\* the vendor keeps its lower sixteen bits
VendorOf(r) == IF r.ok THEN [r EXCEPT !.data.vendor = @ % 65536] ELSE r

ptransfer_decode_service_request(s) ==
    VendorOf(Decode(<< Required(0, "unsigned", "vendor"), Required(1, "unsigned", "service"),
                       ToTheEnd(2, "parameters") >>, s))

ptransfer_error_encode_apdu(d) ==
    Enclosed(0, App("enum", d.class) \o App("enum", d.code)) \o Numbers(1, d)
    \o Enclosed(3, d.parameters)

\* class and code may be missing
ptransfer_error_decode_service_request(s) ==
    VendorOf(Decode(<< IfOpening(0, << Opening(0), Application("enum", "class"),
                                       Application("enum", "code"), Closing(0) >>, "class", 0),
                       Required(1, "unsigned", "vendor"), Required(2, "unsigned", "service"),
                       ToTheEnd(3, "parameters") >>, s))
=============================================================================
