------------------------------ MODULE Elements ------------------------------
(***************************************************************************)
(* The tagged elements an APDU is made of, how the encoders put values     *)
(* into them and how the decoders walk over them.                          *)
(*                                                                         *)
(* A typed value is a record of its type and its contents.  A decoder is a *)
(* sequence of steps, each naming the element it expects next and the      *)
(* field the value goes to; Read runs the steps over the elements.         *)
(***************************************************************************)
EXTENDS Primitives, Integers, Sequences, SequencesExt, TLC

All == -1               \* BACNET_ARRAY_ALL, an absent array index
Null == [type |-> "null", v |-> 0]

TagOf == [ null |-> 0, boolean |-> 1, unsigned |-> 2, signed |-> 3, real |-> 4,
           double |-> 5, octets |-> 6, string |-> 7, bits |-> 8, enum |-> 9,
           date |-> 10, time |-> 11, oid |-> 12 ]
Types == DOMAIN TagOf

TypeOf(tag) == IF \E t \in Types : TagOf[t] = tag
               THEN CHOOSE t \in Types : TagOf[t] = tag ELSE "none"

Contents(type, v) ==
    CASE type = "null"     -> <<>>
      [] type = "boolean"  -> <<IF v THEN 1 ELSE 0>>
      [] type \in {"unsigned", "enum"} -> encode_bacnet_unsigned(v)
      [] type = "signed"   -> encode_bacnet_signed(v)
      [] type \in {"real", "double"} -> encode_bacnet_real(v)
      [] type = "octets"   -> v
      [] type = "string"   -> encode_bacnet_character_string(v)
      [] type = "bits"     -> encode_bitstring(v)
      [] type = "date"     -> encode_bacnet_date(v)
      [] type = "time"     -> encode_bacnet_time(v)
      [] type = "oid"      -> encode_bacnet_object_id(v.type, v.instance)

Element(cls, tag, body) == [cls |-> cls, tag |-> tag, lvt |-> Len(body), body |-> body]

Ctx(tag, type, v) == <<Element("ctx", tag, Contents(type, v))>>
Open(tag)  == <<Element("open", tag, <<>>)>>
Close(tag) == <<Element("close", tag, <<>>)>>
Enclosed(tag, s) == Open(tag) \o s \o Close(tag)
When(present, s) == IF present THEN s ELSE <<>>

\* An application tagged boolean is in the tag itself.
App(type, v) ==
    <<IF type = "boolean"
      THEN [Element("app", TagOf.boolean, <<>>) EXCEPT !.lvt = IF v THEN 1 ELSE 0]
      ELSE Element("app", TagOf[type], Contents(type, v))>>

bacapp_encode_application_data(value) == App(value.type, value.v)
bacapp_encode_context_data_value(tag, value) == Ctx(tag, value.type, value.v)

\* bacapp_copy: the value and its tag; what it says of the context tag stays.
bacapp_copy(value) == [type |-> value.type, v |-> value.v]

-----------------------------------------------------------------------------
\* Reading a value.  Contents of a length the type cannot have give a zero
\* value; contents of no octets at all give no value but a null or a boolean.
Invalid == [type |-> "none", v |-> 0]

bacapp_decode_data(type, e) ==
    LET n == Len(e.body)
        v == CASE type = "null" -> 0
               [] type = "boolean" -> e.lvt > 0
               [] type \in {"unsigned", "enum"} -> decode_unsigned(e.body)
               [] type = "signed" -> decode_signed(e.body)
               [] type = "real"   -> IF n = 4 THEN decode_real(e.body) ELSE <<0, 0, 0, 0>>
               [] type = "double" -> IF n = 8 THEN decode_real(e.body)
                                     ELSE <<0, 0, 0, 0, 0, 0, 0, 0>>
               [] type = "octets" -> e.body
               [] type = "string" -> decode_character_string(e.body)
               [] type = "bits"   -> decode_bitstring(e.body)
               [] type = "date"   -> IF n = 4 THEN decode_date(e.body)
                                     ELSE decode_date(<<0, 0, 0, 0>>)
               [] type = "time"   -> IF n = 4 THEN decode_bacnet_time(e.body)
                                     ELSE decode_bacnet_time(<<0, 0, 0, 0>>)
               [] type = "oid"    -> decode_object_id(e.body)
    IN  IF type = "none" \/ (n = 0 /\ type \notin {"null", "boolean"}) THEN Invalid
        ELSE [type |-> type, v |-> v]

\* An application tagged element says itself what it is.
bacapp_decode_application_data(e) == bacapp_decode_data(TypeOf(e.tag), e)

\* A context tagged element is of the type the service gives that tag; "length"
\* is a truth value taken, wrongly, from the length the tag carries.
DecodeContext(type, e) ==
    IF type = "boolean" THEN e.body # <<>> /\ e.body[1] # 0
    ELSE IF type = "length" THEN e.lvt > 0
    ELSE bacapp_decode_data(type, e).v

-----------------------------------------------------------------------------
\* The wire is the octets of the elements one after the other; Elements cuts
\* them apart again, "open" and "close" being the tags whose value is 6 and 7.
OctetStream(s) == FlattenSeq([i \in DOMAIN s |-> ElementOctets(s[i])])

RECURSIVE Elements(_)
Elements(s) ==
    IF s = <<>> THEN <<>>
    ELSE LET t    == decode_tag_number_and_value(s)
             low  == s[1] % 8
             cls  == IF low = 6 THEN "open" ELSE IF low = 7 THEN "close"
                     ELSE IF (s[1] \div 8) % 2 = 1 THEN "ctx" ELSE "app"
             size == IF cls = "app" /\ t.tag = TagOf.boolean THEN 0 ELSE t.value
         IN  <<[cls |-> cls, tag |-> t.tag, lvt |-> t.value,
                body |-> SubSeq(s, t.len + 1, t.len + size)]>>
             \o Elements(SubSeq(s, t.len + size + 1, Len(s)))

-----------------------------------------------------------------------------
\* The steps of a decoder.
Required(tag, type, field) == [how |-> "required", tag |-> tag, type |-> type, field |-> field]
\* the decoder looks at the tag's number and not at its class
Numbered(tag, type, field) == [how |-> "numbered", tag |-> tag, type |-> type, field |-> field]
Optional(tag, type, field, absent) ==
    [how |-> "optional", tag |-> tag, type |-> type, field |-> field, absent |-> absent]
\* the same, an absent one leaving an empty sequence where a present one leaves <<v>>
Maybe(tag, type, field) == [how |-> "maybe", tag |-> tag, type |-> type, field |-> field]
\* a value read before that has to be one of these
Among(field, set) == [how |-> "among", field |-> field, set |-> set]
Application(type, field) == [how |-> "application", type |-> type, field |-> field]
\* an application tagged value of whatever type, and a number whatever its tag
AnyApplication(field) == [how |-> "any", field |-> field]
AnyUnsigned(field)    == [how |-> "anyunsigned", field |-> field]
Opening(tag) == [how |-> "opening", tag |-> tag]
Closing(tag) == [how |-> "closing", tag |-> tag]
\* an element skipped without a look at its tag
Skip == [how |-> "skip"]
\* everything from an opening tag to the closing one that matches it
Within(tag, field) == [how |-> "within", tag |-> tag, field |-> field]
\* steps run again and again, to the end or to a closing tag
Repeat(field, steps) == [how |-> "repeat", field |-> field, steps |-> steps]
\* the same where the decoder insists on a first entry
RepeatSome(field, steps) == [how |-> "repeatsome", field |-> field, steps |-> steps]
\* one of several ways to go on, by the number of the next tag
Choice(field, names, ways) ==
    [how |-> "choice", field |-> field, names |-> names, ways |-> ways]
\* the same when the element is there, and a name for when it is not
ChoiceOr(field, names, ways, absent) ==
    [how |-> "choiceor", field |-> field, names |-> names, ways |-> ways, absent |-> absent]
\* the same by the number of the opening tag, which the way reads itself
OpenedChoice(field, names, ways) ==
    [how |-> "openedchoice", field |-> field, names |-> names, ways |-> ways]
\* what is left behind an opening tag, but for one last element
ToTheEnd(tag, field) == [how |-> "totheend", tag |-> tag, field |-> field]
\* a group of fields of its own
Group(field, steps) == [how |-> "group", field |-> field, steps |-> steps]
\* steps that run when the next element has this opening tag
IfOpening(tag, steps, field, absent) ==
    [how |-> "ifopening", tag |-> tag, steps |-> steps, field |-> field, absent |-> absent]

Cursor(s) == [rest |-> s, got |-> <<>>, ok |-> TRUE]
Fail(c)   == [c EXCEPT !.ok = FALSE]
Put(c, field, v) == [c EXCEPT !.got = (field :> v) @@ @]
Next1(c)  == Head(c.rest)
More(c)   == c.rest # <<>>
Forward(c) == [c EXCEPT !.rest = Tail(@)]
HeadIs(c, cls, tag) == More(c) /\ Next1(c).cls = cls /\ Next1(c).tag = tag

\* where the tag opened first is closed: one more than the elements before
RECURSIVE CloseOf(_, _, _, _)
CloseOf(s, tag, i, depth) ==
    IF i > Len(s) THEN 0
    ELSE LET e == s[i]
             d == IF e.tag # tag THEN depth
                  ELSE IF e.cls = "open" THEN depth + 1
                  ELSE IF e.cls = "close" THEN depth - 1 ELSE depth
         IN  IF d = 0 THEN i ELSE CloseOf(s, tag, i + 1, d)

RECURSIVE Read(_, _), ReadStep(_, _), ReadList(_, _, _)

\* the contents of an opened list, an entry at a time
ReadList(steps, c, list) ==
    IF ~c.ok \/ ~More(c) \/ Next1(c).cls = "close" THEN <<c, list>>
    ELSE LET inner == Read(steps, [Cursor(c.rest) EXCEPT !.ok = c.ok])
         IN  IF inner.ok /\ Len(inner.rest) < Len(c.rest)
             THEN ReadList(steps, [c EXCEPT !.rest = inner.rest], Append(list, inner.got))
             ELSE <<Fail(c), list>>

ReadStep(step, c) ==
    CASE step.how = "required" ->
            IF HeadIs(c, "ctx", step.tag)
            THEN Put(Forward(c), step.field, DecodeContext(step.type, Next1(c))) ELSE Fail(c)
      [] step.how = "numbered" ->
            IF More(c) /\ Next1(c).tag = step.tag
            THEN Put(Forward(c), step.field, DecodeContext(step.type, Next1(c))) ELSE Fail(c)
      [] step.how = "optional" ->
            IF HeadIs(c, "ctx", step.tag)
            THEN Put(Forward(c), step.field, DecodeContext(step.type, Next1(c)))
            ELSE Put(c, step.field, step.absent)
      [] step.how = "maybe" ->
            IF HeadIs(c, "ctx", step.tag)
            THEN Put(Forward(c), step.field, <<DecodeContext(step.type, Next1(c))>>)
            ELSE Put(c, step.field, <<>>)
      [] step.how = "among" -> IF c.got[step.field] \in step.set THEN c ELSE Fail(c)
      [] step.how = "application" ->
            IF More(c) /\ Next1(c).cls = "app" /\ Next1(c).tag = TagOf[step.type]
            THEN Put(Forward(c), step.field, bacapp_decode_application_data(Next1(c)).v)
            ELSE Fail(c)
      [] step.how = "any" ->
            IF More(c) /\ Next1(c).cls = "app"
            THEN Put(Forward(c), step.field, bacapp_decode_application_data(Next1(c)))
            ELSE Fail(c)
      [] step.how = "anyunsigned" ->
            IF More(c) THEN Put(Forward(c), step.field, decode_unsigned(Next1(c).body)) ELSE Fail(c)
      [] step.how \in {"opening", "closing"} ->
            IF HeadIs(c, IF step.how = "opening" THEN "open" ELSE "close", step.tag)
            THEN Forward(c) ELSE Fail(c)
      [] step.how = "skip" -> IF More(c) THEN Forward(c) ELSE Fail(c)
      [] step.how = "within" ->
            LET end == IF HeadIs(c, "open", step.tag) THEN CloseOf(c.rest, step.tag, 1, 0) ELSE 0
            IN  IF end = 0 THEN Fail(c)
                ELSE Put([c EXCEPT !.rest = SubSeq(@, end + 1, Len(@))],
                         step.field, SubSeq(c.rest, 2, end - 1))
      [] step.how = "repeat" ->
            LET r == ReadList(step.steps, c, <<>>) IN Put(r[1], step.field, r[2])
      [] step.how = "repeatsome" ->
            LET r == ReadList(step.steps, c, <<>>)
            IN  IF r[2] = <<>> THEN Fail(c) ELSE Put(r[1], step.field, r[2])
      [] step.how \in {"choice", "choiceor"} ->
            IF More(c) /\ Next1(c).cls # "close" /\ Next1(c).tag \in DOMAIN step.ways
            THEN Read(step.ways[Next1(c).tag],
                      Put(c, step.field, step.names[Next1(c).tag]))
            ELSE IF step.how = "choiceor" THEN Put(c, step.field, step.absent)
            ELSE Fail(c)
      [] step.how = "openedchoice" ->
            IF More(c) /\ Next1(c).cls = "open" /\ Next1(c).tag \in DOMAIN step.ways
            THEN Read(step.ways[Next1(c).tag],
                      Put(c, step.field, step.names[Next1(c).tag]))
            ELSE Fail(c)
      [] step.how = "totheend" ->
            IF HeadIs(c, "open", step.tag) /\ Len(c.rest) > 1
            THEN Put([c EXCEPT !.rest = <<>>], step.field, SubSeq(c.rest, 2, Len(c.rest) - 1))
            ELSE Fail(c)
      [] step.how = "group" ->
            LET inner == Read(step.steps, Cursor(c.rest))
            IN  IF inner.ok THEN Put([c EXCEPT !.rest = inner.rest], step.field, inner.got)
                ELSE Fail(c)
      [] step.how = "ifopening" ->
            IF HeadIs(c, "open", step.tag) THEN Read(step.steps, c)
            ELSE Put(c, step.field, step.absent)

Read(steps, c) ==
    FoldLeft(LAMBDA d, step : IF d.ok THEN ReadStep(step, d) ELSE d, c, steps)

\* A decoder's answer: the fields it found, or that it refuses the request.
Outcome(c) == IF c.ok THEN [ok |-> TRUE, data |-> c.got] ELSE [ok |-> FALSE]
Decode(steps, s) == Outcome(Read(steps, Cursor(s)))
=============================================================================
