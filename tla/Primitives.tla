----------------------------- MODULE Primitives -----------------------------
(***************************************************************************)
(* The octets of BACnet's primitive values and of the tags in front of     *)
(* them: bacint.c, bacreal.c, the value halves of bacdcode.c and the bit   *)
(* and character strings of bacstr.c.                                      *)
(*                                                                         *)
(* An element of an APDU is a record: its class ("app", "ctx", "open" or   *)
(* "close"), its tag number, the length/value/type number of the tag and   *)
(* the octets of its contents.  TLC's integers stop at 2^31 - 1, so the    *)
(* upper half of the 32 bit unsigned numbers and of the object types is    *)
(* left out.                                                               *)
(***************************************************************************)
LOCAL INSTANCE Integers
LOCAL INSTANCE Sequences
LOCAL INSTANCE SequencesExt
LOCAL INSTANCE TLC

MaxApdu == 1476        \* MAX_APDU
MaxBitstringBytes == 15

-----------------------------------------------------------------------------
\* Integers.  A value is cut into n octets, the highest first; a negative one
\* comes out in two's complement, for \div rounds down.
OctetsOf(v, n) == [i \in 1 .. n |-> (v \div 256 ^ (n - i)) % 256]

UnsignedFrom(s) == FoldLeft(LAMBDA v, octet : 256 * v + octet, 0, s)

\* the sign is the top bit of the first octet, whatever the width
SignedFrom(s) ==
    FoldLeft(LAMBDA v, octet : 256 * v + octet,
             IF s[1] >= 128 THEN s[1] - 256 ELSE s[1], Tail(s))

encode_bacnet_unsigned(v) ==
    OctetsOf(v, CASE v < 256      -> 1
                  [] v < 65536    -> 2
                  [] v < 16777216 -> 3
                  [] OTHER        -> 4)

encode_bacnet_signed(v) ==
    OctetsOf(v, CASE v \in -128 .. 127 -> 1
                  [] v \in -32768 .. 32767 -> 2
                  [] v > -8388608 /\ v < 8388608 -> 3
                  [] OTHER -> 4)

\* any other length yields zero and still skips the contents
decode_unsigned(s) == IF Len(s) \in 1 .. 4 THEN UnsignedFrom(s) ELSE 0
decode_signed(s)   == IF Len(s) \in 1 .. 4 THEN SignedFrom(s) ELSE 0

-----------------------------------------------------------------------------
\* Floating point numbers are the octets the compiler keeps them in, lowest
\* first on the platforms this builds for; the wire has the highest first.
encode_bacnet_real(r) == Reverse(r)
decode_real(s)        == Reverse(s)

\* Object identifiers: ten bits of type, twenty-two of instance.
encode_bacnet_object_id(type, instance) ==
    OctetsOf((type % 1024) * 4194304 + (instance % 4194304), 4)

decode_object_id(s) ==
    LET v == UnsignedFrom(s)
    IN  [type |-> v \div 4194304, instance |-> v % 4194304]

encode_bacnet_time(t) == <<t.hour, t.min, t.sec, t.hundredths>>
decode_bacnet_time(s) ==
    [hour |-> s[1], min |-> s[2], sec |-> s[3], hundredths |-> s[4]]

\* A year is kept in full or, below 256, as it goes on the wire.
encode_bacnet_date(d) ==
    IF d.year >= 1900 THEN <<(d.year - 1900) % 256, d.month, d.day, d.wday>>
    ELSE IF d.year < 256 THEN <<d.year, d.month, d.day, d.wday>>
    ELSE <<>>
decode_date(s) ==
    [year |-> s[1] + 1900, month |-> s[2], day |-> s[3], wday |-> s[4]]

-----------------------------------------------------------------------------
\* Bit strings: a sequence of truth values here, octets whose first bit is the
\* lowest in memory and the highest on the wire, after a count of unused bits.
bitstring_bytes_used(b) == IF b = <<>> THEN 0 ELSE (Len(b) - 1) \div 8 + 1

bitstring_set_bit(b, n, on) ==
    IF n \div 8 >= MaxBitstringBytes THEN b
    ELSE [i \in 1 .. (IF n + 1 > Len(b) THEN n + 1 ELSE Len(b)) |->
             IF i = n + 1 THEN on ELSE IF i <= Len(b) THEN b[i] ELSE FALSE]

\* octet k of the string as the wire has it
ReversedOctet(b, k) ==
    FoldLeft(LAMBDA v, i : 2 * v + (IF i <= Len(b) /\ b[i] THEN 1 ELSE 0),
             0, [j \in 1 .. 8 |-> 8 * k + j])

encode_bitstring(b) ==
    IF b = <<>> THEN <<0>>
    ELSE <<8 - (Len(b) - 8 * (bitstring_bytes_used(b) - 1))>>
         \o [k \in 1 .. bitstring_bytes_used(b) |-> ReversedOctet(b, k - 1)]

\* a longer one than there is room for is read as empty
decode_bitstring(s) ==
    IF s = <<>> \/ Len(s) - 1 > MaxBitstringBytes THEN <<>>
    ELSE [i \in 1 .. 8 * (Len(s) - 1) - (s[1] % 8) |->
             (s[2 + (i - 1) \div 8] \div 2 ^ (7 - ((i - 1) % 8))) % 2 = 1]

\* Character strings carry their encoding in the first octet.
encode_bacnet_character_string(c) == <<c.encoding>> \o c.value
decode_character_string(s) == [encoding |-> s[1], value |-> Tail(s)]

-----------------------------------------------------------------------------
\* Tags.
TagClass(ctx) == IF ctx THEN 8 ELSE 0

\* (mutant: fifteen is taken for a number that still fits)
TagNumberThroughFifteen(tag, low) ==
    IF tag <= 15 THEN <<16 * tag + low>> ELSE <<240 + low, tag>>

\* first octet's tag number, then the one that follows when it does not fit
TagNumberOctets(tag, low) ==
    IF tag <= 14 THEN <<16 * tag + low>> ELSE <<240 + low, tag>>

encode_tag(tag, ctx, lvt) ==
    IF lvt <= 4 THEN TagNumberOctets(tag, TagClass(ctx) + lvt)
    ELSE TagNumberOctets(tag, TagClass(ctx) + 5)
         \o (CASE lvt <= 253   -> <<lvt>>
               [] lvt > 253 /\ lvt <= 65535 -> <<254>> \o OctetsOf(lvt, 2)
               [] OTHER        -> <<255>> \o OctetsOf(lvt, 4))

encode_opening_tag(tag) == TagNumberOctets(tag, 8 + 6)
encode_closing_tag(tag) == TagNumberOctets(tag, 8 + 7)

ElementOctets(e) ==
    CASE e.cls = "open"  -> encode_opening_tag(e.tag)
      [] e.cls = "close" -> encode_closing_tag(e.tag)
      [] OTHER -> encode_tag(e.tag, e.cls = "ctx", e.lvt) \o e.body

IsExtendedTagNumber(octet) == octet \div 16 = 15
IsExtendedValue(octet)     == octet % 8 = 5

decode_tag_number(s) ==
    IF IsExtendedTagNumber(s[1]) THEN [tag |-> s[2], len |-> 2]
    ELSE [tag |-> s[1] \div 16, len |-> 1]

\* an opening or closing tag has no value, and no contents of its own
decode_tag_number_and_value(s) ==
    LET n == decode_tag_number(s)
        k == n.len
    IN  CASE IsExtendedValue(s[1]) /\ s[k + 1] = 255 ->
                 [n EXCEPT !.len = k + 5] @@ [value |-> UnsignedFrom(SubSeq(s, k + 2, k + 5))]
          [] IsExtendedValue(s[1]) /\ s[k + 1] = 254 ->
                 [n EXCEPT !.len = k + 3] @@ [value |-> UnsignedFrom(SubSeq(s, k + 2, k + 3))]
          [] IsExtendedValue(s[1]) /\ s[k + 1] < 254 ->
                 [n EXCEPT !.len = k + 1] @@ [value |-> s[k + 1]]
          [] OTHER ->
                 n @@ [value |-> IF s[1] % 8 \in {6, 7} THEN 0 ELSE s[1] % 8]
=============================================================================
