----------------------------- MODULE MstpFrame ------------------------------
(***************************************************************************)
(* The octets of mstp.c: MSTP_Create_Frame and MSTP_Receive_Frame_FSM.  A  *)
(* station hears frames one octet after the other with silence between the *)
(* frames; an octet may arrive changed, with a framing error, or not at    *)
(* all.  What Mstp takes for granted of a frame on the line is shown here. *)
(***************************************************************************)
EXTENDS Integers, SequencesExt, Bitwise

CONSTANTS Frames,            \* the frames sent: [type, dest, src, data]
          This_Station,
          InputBufferSize,
          Masks              \* the ways an octet may be changed: bits inverted

VARIABLES sent,              \* the frame on its way
          coming,            \* its octets still to come
          harmed,            \* how often it was interfered with
          quiet,             \* the line was silent for longer than Tframe_abort
          rx                 \* the receiving half of mstp_port

mstpFrameVars == << sent, coming, harmed, quiet, rx >>

Everybody == 255             \* MSTP_BROADCAST_ADDRESS

-----------------------------------------------------------------------------
\* crc.c
XorOf(terms) == FoldSeq(LAMBDA a, b : a ^^ b, 0, terms)
HeaderRemainder ==
    [x \in 0 .. 255 |->
        LET c == XorOf([i \in 1 .. 8 |-> x * 2^(i - 1)])
        IN  2 * ((c % 256) \div 2) + ((c \div 256) % 2)]
CRC_Calc_Header(octet, crc) == HeaderRemainder[crc ^^ octet]

DataRemainder ==
    [x \in 0 .. 255 |->
        XorOf(<< 256 * x, 8 * x, 4096 * x, x \div 16, x % 16, 128 * (x % 16) >>) % 65536]
CRC_Calc_Data(octet, crc) == (crc \div 256) ^^ DataRemainder[(crc % 256) ^^ octet]

HeaderCRCOf[octets \in Seq(0 .. 255)] ==
    IF octets = <<>> THEN 255
    ELSE CRC_Calc_Header(octets[Len(octets)], HeaderCRCOf[SubSeq(octets, 1, Len(octets) - 1)])
DataCRCOf[octets \in Seq(0 .. 255)] ==
    IF octets = <<>> THEN 65535
    ELSE CRC_Calc_Data(octets[Len(octets)], DataCRCOf[SubSeq(octets, 1, Len(octets) - 1)])

MSTP_Create_Frame(f) ==
    LET header == << f.type, f.dest, f.src, Len(f.data) \div 256, Len(f.data) % 256 >>
        crc == 65535 - DataCRCOf[f.data]
    IN  << 85, 255 >> \o header \o << 255 - HeaderCRCOf[header] >>
        \o (IF f.data = <<>> THEN <<>> ELSE f.data \o << crc % 256, crc \div 256 >>)

-----------------------------------------------------------------------------
Listening == [state |-> "idle", index |-> 0, header |-> <<>>, headerCRC |-> 0, data |-> <<>>, dataCRC |-> 0,
              valid |-> FALSE, invalid |-> FALSE]

MstpFrameInit ==
    /\ sent \in Frames /\ coming = MSTP_Create_Frame(sent)
    /\ harmed = 0 /\ quiet = TRUE /\ rx = Listening

\* header is type, destination, source and the two octets of the length
DataLength == 256 * rx.header[4] + rx.header[5]
Addressed == rx.header[2] \in {This_Station, Everybody}
Drop == [rx EXCEPT !.state = "idle"]
ReceivedInvalid == [Drop EXCEPT !.invalid = TRUE]

IdleOctet(octet) == IF octet = 85 THEN [rx EXCEPT !.state = "preamble"] ELSE rx

PreambleOctet(octet) ==
    IF octet = 255 THEN [rx EXCEPT !.state = "header", !.index = 0, !.header = <<>>, !.headerCRC = 255]
    ELSE IF octet = 85 THEN rx ELSE Drop

\* (mutant: the header's CRC is not looked at)
HeaderUnchecked(crc) ==
    CASE DataLength > InputBufferSize -> ReceivedInvalid
      [] DataLength \in 1 .. InputBufferSize ->
             [rx EXCEPT !.state = "data", !.index = 0, !.data = <<>>, !.dataCRC = 65535]
      [] DataLength = 0 -> [Drop EXCEPT !.valid = @ \/ Addressed, !.data = <<>>]

\* the header is complete with its CRC octet
HeaderDone(crc) ==
    CASE crc # 85 -> ReceivedInvalid
      [] crc = 85 /\ DataLength > InputBufferSize -> ReceivedInvalid
      [] crc = 85 /\ DataLength \in 1 .. InputBufferSize ->
             [rx EXCEPT !.state = "data", !.index = 0, !.data = <<>>, !.dataCRC = 65535]
      [] crc = 85 /\ DataLength = 0 -> [Drop EXCEPT !.valid = @ \/ Addressed, !.data = <<>>]

HeaderOctet(octet) ==
    LET crc == CRC_Calc_Header(octet, rx.headerCRC)
    IN  IF rx.index < 5
        THEN [rx EXCEPT !.index = @ + 1, !.header = Append(@, octet), !.headerCRC = crc]
        ELSE HeaderDone(crc)

DataOctet(octet) ==
    LET crc == CRC_Calc_Data(octet, rx.dataCRC)
    IN  CASE rx.index < DataLength ->
                 [rx EXCEPT !.index = @ + 1, !.data = Append(@, octet), !.dataCRC = crc]
          [] rx.index = DataLength -> [rx EXCEPT !.index = @ + 1, !.dataCRC = crc]
          [] rx.index = DataLength + 1 ->
                 IF crc = 61624 THEN [Drop EXCEPT !.valid = @ \/ Addressed] ELSE ReceivedInvalid

Receives(octet) ==
    /\ quiet => rx.state = "idle"
    /\ rx' = CASE rx.state = "idle" -> IdleOctet(octet)
               [] rx.state = "preamble" -> PreambleOctet(octet)
               [] rx.state = "header" -> HeaderOctet(octet)
               [] rx.state = "data" -> DataOctet(octet)
    /\ quiet' = FALSE

Waiting == coming # <<>> /\ UNCHANGED sent /\ coming' = Tail(coming)

OctetArrives == Waiting /\ Receives(coming[1]) /\ UNCHANGED harmed
ChangedOctet(mask) == Waiting /\ Receives(coming[1] ^^ mask) /\ harmed = 0 /\ harmed' = 1
LostOctet == Waiting /\ harmed = 0 /\ harmed' = 1 /\ UNCHANGED << quiet, rx >>

\* a framing error or an overrun
ReceiveError ==
    /\ Waiting /\ harmed = 0 /\ harmed' = 1
    /\ quiet => rx.state = "idle"
    /\ rx' = IF rx.state \in {"header", "data"} THEN ReceivedInvalid ELSE Drop
    /\ quiet' = FALSE

FrameAbort ==
    /\ quiet /\ rx.state # "idle"
    /\ rx' = IF rx.state \in {"header", "data"} THEN ReceivedInvalid ELSE Drop
    /\ UNCHANGED << sent, coming, harmed, quiet >>

\* between two frames, or in the middle of one when its sender stops
Silence ==
    /\ ~quiet /\ quiet' = TRUE
    /\ coming = <<>> \/ harmed = 0
    /\ coming' = <<>>
    /\ harmed' = IF coming = <<>> THEN harmed ELSE 1
    /\ UNCHANGED << sent, rx >>

\* the master node has seen to what was received, and nothing reads it again
NextFrame ==
    /\ coming = <<>> /\ quiet /\ rx.state = "idle"
    /\ sent' \in Frames /\ coming' = MSTP_Create_Frame(sent')
    /\ harmed' = 0
    /\ rx' = Listening
    /\ UNCHANGED quiet

MstpFrameNext ==
    \/ OctetArrives \/ LostOctet \/ ReceiveError \/ FrameAbort \/ Silence \/ NextFrame
    \/ \E mask \in Masks : ChangedOctet(mask)

-----------------------------------------------------------------------------
(* A frame is taken for valid exactly when it came in whole, was meant for *)
(* this station and fits its buffer, whatever was on the line before it;   *)
(* and what is handed over then is what was sent.                          *)
FramesProtected ==
    /\ rx.valid =>
           /\ harmed = 0 /\ coming = <<>>
           /\ SubSeq(rx.header, 1, 3) = << sent.type, sent.dest, sent.src >> /\ rx.data = sent.data
    /\ coming = <<>> /\ harmed = 0 =>
           (rx.valid <=> /\ sent.dest \in {This_Station, Everybody} /\ Len(sent.data) <= InputBufferSize)
=============================================================================
