----------------------------- MODULE MCMessages -----------------------------
(***************************************************************************)
(* The exchanges of nanopb messages that are explored: descriptions of the *)
(* writer and of the reader, and messages that reach their limits.  The    *)
(* integers have 3, 5 (narrow) or 8 (wide) bits.                           *)
(***************************************************************************)
EXTENDS NanoPB

Field(tag, ltype, htype, slot) ==
  [tag |-> tag, ltype |-> ltype, htype |-> htype, atype |-> "static", size |-> Narrow,
   array_size |-> 2, sub |-> <<>>, init |-> 0, slot |-> slot, decodes |-> TRUE]
Bits(f, n) == [f EXCEPT !.size = 2^n]
Bytes(f, n) ==
  [f EXCEPT !.size = n, !.init = IF f.ltype = "fixedbytes" THEN [i \in 1..n |-> 0] ELSE <<>>]
Holding(f, fields) == [f EXCEPT !.sub = fields]
Callback(f) == [f EXCEPT !.atype = "callback"]

Between(writer, reader, messages, buffers) ==
  [writer |-> writer, reader |-> reader, messages |-> messages, buffers |-> buffers,
   steady |-> TRUE, overshift |-> 0]

Has(v) == [has |-> TRUE, val |-> v]
Lacks(default) == [has |-> FALSE, val |-> default]

\* Integers of every kind and width, to a reader with narrower ones
Numbers ==
  <<Field(1, "varint", "required", 1), Bits(Field(2, "svarint", "optional", 2), 8),
    Bits(Field(3, "uvarint", "singular", 3), 8)>>
NarrowNumbers ==
  <<Bits(Field(1, "varint", "required", 1), 3), Field(2, "svarint", "optional", 2),
    Field(3, "uvarint", "singular", 3)>>
NumberMessages ==
  {<<a, b, c>> : a \in {-5, 0, 15}, b \in {Has(-16), Has(127), Lacks(0)}, c \in {0, 255}}
NumberCases ==
  <<Between(Numbers, Numbers, NumberMessages, {31}),
    Between(Numbers, NarrowNumbers, NumberMessages, {31, 4})>>

\* Arrays, packed and not, to a reader with other limits and without the last
\* field, and from a writer that sends the entries one by one
Arrays ==
  <<Bits(Field(1, "uvarint", "repeated", 1), 8), Bytes(Field(2, "string", "repeated", 2), 3),
    Field(3, "fixed32", "required", 3)>>
OtherArrays ==
  <<[Bits(Field(1, "uvarint", "repeated", 1), 8) EXCEPT !.array_size = 3],
    Bytes(Field(2, "string", "repeated", 2), 2)>>
ArrayMessages ==
  {<<a, b, c>> : a \in {<<>>, <<7, 200>>}, b \in {<<>>, << <<>> >>, << <<5, 6>>, <<1>> >>},
                 c \in {0, 31}}
OneByOne == <<Bits(Field(1, "uvarint", "optional", 1), 8)>>
ArrayCases ==
  <<Between(Arrays, Arrays, ArrayMessages, {31, 7}),
    Between(Arrays, OtherArrays, ArrayMessages, {31}),
    Between(OneByOne, OtherArrays, {<<x>> : x \in {Has(3), Has(100), Lacks(0)}}, {31})>>

\* Submessages, in a oneof too, with callbacks that may change their mind
NoCallback == [encode |-> FALSE]
Writes(sizing, writing) == [encode |-> TRUE, sizing |-> sizing, writing |-> writing]
Inner ==
  <<Field(1, "uvarint", "required", 1), Bytes(Field(2, "bytes", "optional", 2), 2),
    Callback(Field(3, "string", "optional", 3))>>
InnerMessages ==
  {<<9, b, c>> : b \in {Lacks(<<>>), Has(<<7>>)}, c \in {NoCallback, Writes(<<1>>, <<1>>)}}
FickleMessages == {<<9, Lacks(<<>>), Writes(<<1>>, w)>> : w \in {<<>>, <<1, 2>>, <<2>>}}
Outer ==
  <<Holding(Field(1, "submessage", "optional", 1), Inner),
    Holding(Field(2, "submessage", "oneof", 2), Inner), Bytes(Field(3, "bytes", "oneof", 2), 2)>>
NoMember == [which |-> 0, val |-> NoValue]
Members ==
  {NoMember, [which |-> 3, val |-> <<14>>], [which |-> 2, val |-> <<9, Has(<<>>), NoCallback>>]}
OuterMessages ==
  {<<a, b>> : a \in {Lacks(<<0, Lacks(<<>>), NoCallback>>)} \cup {Has(m) : m \in InnerMessages},
              b \in Members}
SubmessageCases ==
  <<Between(Outer, Outer, OuterMessages, {31}),
    [Between(Outer, Outer, {<<Has(m), NoMember>> : m \in FickleMessages}, {31})
       EXCEPT !.steady = FALSE]>>

\* Extensions, to readers that know them as extensions, as fields, as
\* callbacks, not at all, or that would have to allocate them
Extended ==
  <<Field(1, "fixed64", "required", 1),
    Holding(Field(2, "extension", "optional", 2),
             <<Bytes(Field(2, "fixedbytes", "required", 1), 2), Field(3, "svarint", "required", 1)>>)>>
ExtendedLess ==
  <<Field(1, "fixed64", "required", 1),
    Holding(Field(3, "extension", "optional", 2), <<Field(3, "svarint", "required", 1)>>)>>
WithCallbacks ==
  <<Field(1, "fixed64", "required", 1),
    [Callback(Field(2, "bytes", "optional", 2)) EXCEPT !.decodes = FALSE],
    Callback(Field(3, "varint", "optional", 3))>>
WithPointer ==
  <<Field(1, "fixed64", "singular", 1), [Field(3, "svarint", "optional", 2) EXCEPT !.atype = "pointer"]>>
TwoRequired == <<Field(1, "fixed64", "required", 1), Field(3, "svarint", "required", 2)>>
ExtensionMessages ==
  {<<0, <<[val |-> b], [val |-> c]>> >> : b \in {<<0, 0>>, <<3, 4>>}, c \in {0, -3}}
ExtensionCases ==
  <<Between(Extended, Extended, ExtensionMessages, {31, 6}),
    Between(Extended, ExtendedLess, ExtensionMessages, {31}),
    Between(Extended, WithCallbacks, ExtensionMessages, {31}),
    Between(Extended, WithPointer, ExtensionMessages, {31}),
    Between(Extended, TwoRequired, ExtensionMessages, {31}),
    Between(WithPointer, TwoRequired, {<<a, b>> : a \in {0, 1}, b \in {NoValue, -2}}, {31, 3})>>

\* A proto3 submessage.  No array in it starts with a zero: the encoder takes
\* such a submessage for an empty one (pb_encode.c:205-263) and leaves it out.
Proto3 ==
  <<Holding(Field(1, "submessage", "singular", 1),
             <<Field(1, "uvarint", "singular", 1), Bytes(Field(2, "string", "singular", 2), 4),
               Field(3, "uvarint", "repeated", 3)>>),
    Field(2, "uvarint", "singular", 2)>>
Proto3Messages ==
  {<< <<a, b, c>>, d>> : a \in {0, 2}, b \in {<<>>, <<2>>}, c \in {<<>>, <<4, 0>>}, d \in {0, 1}}
Proto3Cases == <<Between(Proto3, Proto3, Proto3Messages, {31})>>

MCPbCases == NumberCases \o ArrayCases \o SubmessageCases \o ExtensionCases \o Proto3Cases
=============================================================================
