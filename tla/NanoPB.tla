------------------------------- MODULE NanoPB -------------------------------
(***************************************************************************)
(* nanopb (pb_encode.c, pb_decode.c, pb_common.c), built without malloc:   *)
(* a message in a C structure is encoded, its bytes may be cut or followed *)
(* by a second message, and a reader with a description of its own decodes *)
(* them.                                                                   *)
(*                                                                         *)
(* A description is a sequence of fields (pb_field_t): tag, ltype (kind of *)
(* value), htype ("singular" is OPTIONAL without a has_ flag), atype, size *)
(* (the modulus of an integer, the capacity of bytes), array_size, sub     *)
(* (fields of a submessage, or the extensions of an extension field), init *)
(* (the default value) and slot, the place in the structure: the members   *)
(* of a oneof share one.  A structure maps slots to values.                *)
(***************************************************************************)
EXTENDS Integers, Sequences, SequencesExt, FiniteSets, FiniteSetsExt

CONSTANTS
  Group,          \* values of a group of a varint (128 in the code)
  Narrow, Wide,   \* values of the narrow and the wide integer (2^32, 2^64)
  Fixed32Size, Fixed64Size,   \* bytes of a fixed integer (4, 8)
  WordBits,       \* bits of a word of fields_seen (32)
  MaxRequired,    \* PB_MAX_REQUIRED_FIELDS (64)
  NoValue,           \* a pointer to nothing, or a place that holds nothing yet
  PbCases         \* bound: the sequence of exchanges explored; a writer's and a reader's
                  \* description, messages, sizes of the writer's buffer, steady
                  \* (no callback changes its mind) and overshift (RequiredSeen)

ASSUME PbAssumption ==
  /\ Group \in Nat \ {0, 1} /\ Narrow \in Nat \ {0} /\ Wide \in Nat \ {0}
  /\ Narrow < Wide /\ Fixed32Size \in Nat /\ Fixed64Size \in Nat
  /\ WordBits \in Nat \ {0} /\ MaxRequired % WordBits = 0

VARIABLES
  exchange,   \* the case explored: its index in PbCases
  delimited,  \* the length goes first: pb_encode_delimited, pb_decode_delimited
  sent,       \* the messages encoded so far
  ostream,    \* the output stream of the last encoding
  wire,       \* the bytes on their way to the reader
  got,        \* the reader's result: its status and its structure
  pbState     \* "writing", "cut", "decoded"

pbVars == <<exchange, delimited, sent, ostream, wire, got, pbState>>
Exchange == PbCases[exchange]

Packable == {"varint", "uvarint", "svarint", "fixed32", "fixed64"}
SlotsOf(fields) == {fields[i].slot : i \in DOMAIN fields}
FieldAt(fields, slot) == SelectSeq(fields, LAMBDA f : f.slot = slot)[1]

-----------------------------------------------------------------------------
(* Output streams.  A sizing stream counts the bytes and stores none.      *)

pb_ostream_from_buffer(bufsize) ==
  [bytes |-> <<>>, written |-> 0, max |-> bufsize, sizing |-> FALSE, ok |-> TRUE]
SizingStream == [pb_ostream_from_buffer(0) EXCEPT !.sizing = TRUE]
OutError(s) == [s EXCEPT !.ok = FALSE]

pb_write(s, bytes) ==
  IF ~s.ok THEN s
  ELSE IF ~s.sizing /\ s.written + Len(bytes) > s.max THEN OutError(s)
  ELSE [s EXCEPT !.written = @ + Len(bytes), !.bytes = IF s.sizing THEN @ ELSE @ \o bytes]

RECURSIVE VarintBytes(_)
VarintBytes(value) ==
  IF value < Group THEN <<value>>
  ELSE <<Group + (value % Group)>> \o VarintBytes(value \div Group)

pb_encode_varint(s, value) == pb_write(s, VarintBytes(value))

ZigZag(value) == IF value < 0 THEN 2 * (-value) - 1 ELSE 2 * value
pb_encode_svarint(s, value) == pb_encode_varint(s, ZigZag(value) % Wide)

FixedBytes(value, n) == [i \in 1..n |-> (value \div ((2 * Group)^(i - 1))) % (2 * Group)]

WireType(ltype) == CASE ltype \in {"varint", "uvarint", "svarint"} -> 0
                     [] ltype = "fixed64" -> 1
                     [] ltype = "fixed32" -> 5
                     [] OTHER -> 2
pb_encode_tag(s, wiretype, tag) == pb_encode_varint(s, 8 * tag + wiretype)
pb_encode_tag_for_field(s, f) == pb_encode_tag(s, WireType(f.ltype), f.tag)
pb_encode_string(s, bytes) == pb_write(pb_encode_varint(s, Len(bytes)), bytes)

\* A C string ends before its first zero byte.
CString(bytes) ==
  LET zeros == {i \in DOMAIN bytes : bytes[i] = 0}
  IN IF zeros = {} THEN bytes ELSE SubSeq(bytes, 1, Min(zeros) - 1)

-----------------------------------------------------------------------------
(* Encoding.                                                               *)

\* Is a field of a proto3 message zero, and left out?  Every field of a
\* submessage is compared at its place in the structure, whatever its rule:
\* of an array that is its first entry, of a oneof the value of the union.
RECURSIVE pb_check_proto3_default_value(_, _)
pb_check_proto3_default_value(f, slot) ==
  LET data == CASE f.atype = "static" /\ f.htype = "repeated" ->
                     IF slot = <<>> THEN NoValue ELSE slot[1]
                [] f.atype = "static" /\ f.htype \in {"optional", "oneof"} -> slot.val
                [] OTHER -> slot
  IN CASE f.atype = "callback" -> ~slot.encode
       [] f.atype = "pointer" -> slot = NoValue
       [] f.atype = "static" ->
            \/ data = NoValue
            \/ CASE f.ltype = "submessage" ->
                       \A i \in DOMAIN f.sub :
                          pb_check_proto3_default_value(f.sub[i], data[f.sub[i].slot])
                 [] f.ltype \in {"bytes", "string", "extension"} -> data = <<>>
                 [] f.ltype = "fixedbytes" -> f.size = 0
                 [] OTHER -> data = 0

RECURSIVE pb_encode(_, _, _)

\* The submessage is encoded twice, first to learn its size; a callback that
\* writes something else the second time is an error.
pb_encode_submessage(s, fields, struct) ==
  LET copied(sized, size, sub) ==
        [sized EXCEPT !.written = @ + sub.written, !.bytes = @ \o sub.bytes,
                      !.ok = sub.ok /\ sub.written = size]
      write(sized, size) ==
        CASE ~sized.ok -> sized
          [] sized.ok /\ sized.sizing -> [sized EXCEPT !.written = @ + size]
          [] sized.ok /\ ~sized.sizing ->
               IF sized.written + size > sized.max THEN OutError(sized)
               ELSE copied(sized, size, pb_encode(pb_ostream_from_buffer(size), fields, struct))
      measured(sizing) ==
        IF sizing.ok THEN write(pb_encode_varint(s, sizing.written), sizing.written) ELSE OutError(s)
  IN IF s.ok THEN measured(pb_encode(SizingStream, fields, struct)) ELSE s

\* The encoders by type: pb_enc_varint, pb_enc_uvarint, ...
EncodeScalar(s, f, value) ==
  CASE f.ltype \in {"varint", "uvarint"} -> pb_encode_varint(s, value % Wide)
    [] f.ltype = "svarint" -> pb_encode_svarint(s, value)
    [] f.ltype = "fixed32" -> pb_write(s, FixedBytes(value, Fixed32Size))
    [] f.ltype = "fixed64" -> pb_write(s, FixedBytes(value, Fixed64Size))
    [] f.ltype = "bytes" ->
         IF f.atype = "static" /\ Len(value) > f.size THEN OutError(s)
         ELSE pb_encode_string(s, value)
    [] f.ltype = "string" -> pb_encode_string(s, CString(value))
    [] f.ltype = "fixedbytes" -> pb_encode_string(s, value)
EncodeValue(s, f, value) ==
  IF f.ltype = "submessage" THEN pb_encode_submessage(s, f.sub, value) ELSE EncodeScalar(s, f, value)

\* The values of an array: packed, or each with its tag
EncodePacked(s, f, values) ==
  FoldLeft(LAMBDA acc, v : IF acc.ok THEN EncodeScalar(acc, f, v) ELSE acc, s, values)
EncodeItems(s, f, values) ==
  FoldLeft(LAMBDA acc, v : IF acc.ok THEN EncodeValue(pb_encode_tag_for_field(acc, f), f, v) ELSE acc,
           s, values)

encode_array(s, f, values) ==
  LET packed(start, size) == IF start.ok /\ start.sizing THEN [start EXCEPT !.written = @ + size]
                             ELSE EncodePacked(start, f, values)
      sized(size) == packed(pb_encode_varint(pb_encode_tag(s, 2, f.tag), size), size)
  IN CASE values = <<>> -> s
       [] values # <<>> /\ f.atype # "pointer" /\ Len(values) > f.array_size -> OutError(s)
       [] values # <<>> /\ (f.atype = "pointer" \/ Len(values) <= f.array_size) ->
            IF f.ltype \in Packable THEN sized(EncodePacked(SizingStream, f, values).written)
            ELSE EncodeItems(s, f, values)

encode_basic_field(s, f, slot) ==
  LET present ==          \* the value of a field that is not repeated, if it has one
        CASE f.htype = "oneof" -> IF slot.which = f.tag THEN <<slot.val>> ELSE <<>>
          [] f.htype # "oneof" /\ (f.htype = "required" \/ f.atype = "pointer") ->
               IF slot = NoValue THEN <<>> ELSE <<slot>>
          [] f.htype = "optional" /\ f.atype # "pointer" -> IF slot.has THEN <<slot.val>> ELSE <<>>
          [] f.htype = "singular" /\ f.atype # "pointer" ->
               IF pb_check_proto3_default_value(f, slot) THEN <<>> ELSE <<slot>>
  IN CASE f.htype = "repeated" -> encode_array(s, f, slot)
       [] f.htype = "required" /\ slot = NoValue -> OutError(s)
       [] OTHER -> EncodeItems(s, f, present)

\* The user's callback writes a tag and a string: slot.sizing to a stream
\* that only counts, slot.writing to a real one.
encode_callback_field(s, f, slot) ==
  IF ~slot.encode THEN s
  ELSE pb_encode_string(pb_encode_tag(s, 2, f.tag),
                        IF s.sizing THEN slot.sizing ELSE slot.writing)

encode_field(s, f, slot) ==
  IF f.atype = "callback" THEN encode_callback_field(s, f, slot)
                          ELSE encode_basic_field(s, f, slot)

\* Every extension of the list is given its turn, in the list's order.
encode_extension_field(s, f, slot) ==
  FoldLeftDomain(LAMBDA acc, i :
                    IF acc.ok THEN encode_field(acc, f.sub[i], slot[i].val) ELSE acc,
                 s, f.sub)

pb_encode(s, fields, struct) ==
  FoldLeft(LAMBDA acc, f :
              IF ~acc.ok THEN acc
              ELSE IF f.ltype = "extension"
                   THEN encode_extension_field(acc, f, struct[f.slot])
                   ELSE encode_field(acc, f, struct[f.slot]),
           s, fields)

pb_get_encoded_size(fields, struct) == pb_encode(SizingStream, fields, struct).written

-----------------------------------------------------------------------------
(* Input streams.  A substream is a stream with fewer bytes left.          *)

pb_istream_from_buffer(bytes) == [buf |-> bytes, left |-> Len(bytes), ok |-> TRUE]
InError(s) == [s EXCEPT !.ok = FALSE]
Failed(s) == [s |-> InError(s), v |-> 0]

pb_read(s, count) ==
  IF ~s.ok \/ s.left < count THEN Failed(s)
  ELSE [s |-> [s EXCEPT !.buf = SubSeq(@, count + 1, Len(@)), !.left = @ - count],
        v |-> SubSeq(s.buf, 1, count)]

\* pb_decode_varint32 and pb_decode_varint: groups until one has no
\* continuation bit; too many groups are an error.
RECURSIVE VarintFrom(_, _, _, _)
VarintFrom(s, modulus, i, sum) ==
  LET byte == pb_read(s, 1)
      total == (sum + (byte.v[1] % Group) * Group^i) % modulus
  IN CASE Group^i >= modulus -> Failed(s)
       [] Group^i < modulus /\ ~byte.s.ok -> Failed(s)
       [] OTHER -> IF byte.v[1] >= Group THEN VarintFrom(byte.s, modulus, i + 1, total)
                                         ELSE [s |-> byte.s, v |-> total]
pb_decode_varint32(s) == VarintFrom(s, Narrow, 0, 0)
pb_decode_varint(s) == VarintFrom(s, Wide, 0, 0)

RECURSIVE pb_skip_varint(_)
pb_skip_varint(s) ==
  LET byte == pb_read(s, 1)
  IN IF byte.s.ok /\ byte.v[1] >= Group THEN pb_skip_varint(byte.s) ELSE byte.s

pb_skip_string(s) ==
  LET length == pb_decode_varint32(s)
  IN IF length.s.ok THEN pb_read(length.s, length.v).s ELSE length.s

pb_skip_field(s, wire_type) ==
  CASE wire_type = 0 -> pb_skip_varint(s)
    [] wire_type = 1 -> pb_read(s, Fixed64Size).s
    [] wire_type = 2 -> pb_skip_string(s)
    [] wire_type = 5 -> pb_read(s, Fixed32Size).s
    [] OTHER -> InError(s)

\* The tag of the next field; the end of the stream in the middle of a tag
\* and a zero tag also end the message.
pb_decode_tag(s) ==
  LET temp == pb_decode_varint32(s)
  IN [s |-> temp.s, tag |-> temp.v \div 8, wire_type |-> temp.v % 8,
      eof |-> IF temp.s.ok THEN temp.v = 0 ELSE temp.s.left = 0]

pb_make_string_substream(s) ==
  LET size == pb_decode_varint32(s)
  IN IF ~size.s.ok \/ size.s.left < size.v
     THEN [s |-> InError(size.s), sub |-> InError(size.s)]
     ELSE [s |-> [size.s EXCEPT !.left = @ - size.v], sub |-> [size.s EXCEPT !.left = size.v]]
\* What the substream left unread is skipped.
pb_close_string_substream(s, sub) ==
  [s EXCEPT !.buf = SubSeq(sub.buf, sub.left + 1, Len(sub.buf))]

\* The bytes of a scalar, for a callback.
RawMax == Len(VarintBytes(Wide - 1))
RECURSIVE RawVarint(_, _)
RawVarint(s, bytes) ==
  LET byte == pb_read(s, 1)
  IN IF Len(bytes) = RawMax \/ ~byte.s.ok THEN Failed(s)
     ELSE IF byte.v[1] >= Group THEN RawVarint(byte.s, bytes \o byte.v)
     ELSE [s |-> byte.s, v |-> bytes \o byte.v]
read_raw_value(s, wire_type) ==
  CASE wire_type = 0 -> RawVarint(s, <<>>)
    [] wire_type = 1 -> pb_read(s, Fixed64Size)
    [] wire_type = 5 -> pb_read(s, Fixed32Size)
    [] OTHER -> Failed(s)

-----------------------------------------------------------------------------
(* Defaults and the required fields.                                       *)

RECURSIVE pb_message_set_to_defaults(_), pb_field_set_to_default(_)
pb_field_set_to_default(f) ==
  LET data == IF f.ltype = "submessage" THEN pb_message_set_to_defaults(f.sub) ELSE f.init
  IN CASE f.ltype = "extension" ->
            [i \in DOMAIN f.sub |->
               [val |-> pb_field_set_to_default(f.sub[i]), found |-> FALSE]]
       [] f.ltype # "extension" /\ f.atype = "callback" -> <<>>
       [] f.ltype # "extension" /\ f.atype = "pointer" ->
            IF f.htype = "repeated" THEN <<>> ELSE NoValue
       [] OTHER -> CASE f.htype = "repeated" -> <<>>
                     [] f.htype = "oneof" -> [which |-> 0, val |-> NoValue]
                     [] f.htype = "optional" -> [has |-> FALSE, val |-> data]
                     [] OTHER -> data
pb_message_set_to_defaults(fields) ==
  [slot \in SlotsOf(fields) |-> pb_field_set_to_default(FieldAt(fields, slot))]

\* pb_field_iter_find, and the index of a required field among them.
pb_field_iter_find(fields, tag) ==
  {i \in DOMAIN fields : fields[i].tag = tag /\ fields[i].ltype # "extension"}
RequiredIndex(fields, i) ==
  Cardinality({j \in 1..(i - 1) : fields[j].htype = "required"})

\* Whole words of fields_seen are compared first, then the bits that remain.
\* With none remaining the code shifts a word by its width, which is
\* undefined: Exchange.overshift is what the build makes of it, 0 or, where
\* the processor takes the count modulo the width, the whole word.
RequiredSeen(fields, seen) ==
  LET count == RequiredIndex(fields, Len(fields) + 1)
      bits == IF count % WordBits # 0 THEN count % WordBits ELSE Exchange.overshift
  IN count = 0 \/ seen = 0..((count \div WordBits) * WordBits + bits - 1)

-----------------------------------------------------------------------------
(* Decoding.                                                               *)

Signed(value, modulus) ==
  LET v == value % modulus IN IF 2 * v >= modulus THEN v - modulus ELSE v
UnZigZag(value) == IF value % 2 = 1 THEN -((value \div 2) + 1) ELSE value \div 2

RECURSIVE FieldsFrom(_, _, _, _)
pb_decode_noinit(s, fields, d) == FieldsFrom(s, fields, d, {})
pb_decode(s, fields) == pb_decode_noinit(s, fields, pb_message_set_to_defaults(fields))

\* Mutant: every occurrence of a submessage starts from the defaults.
SubmessageReset(s, f, old) ==
  LET closed(made, r) ==
        [s |-> [pb_close_string_substream(made.s, r.s) EXCEPT !.ok = r.s.ok], v |-> r.d]
      opened(made) == IF made.s.ok THEN closed(made, pb_decode(made.sub, f.sub)) ELSE Failed(made.s)
  IN opened(pb_make_string_substream(s))

\* Entries of an array start from their defaults; other submessages are
\* merged into what they already hold.
pb_dec_submessage(s, f, old) ==
  LET closed(made, r) ==
        [s |-> [pb_close_string_substream(made.s, r.s) EXCEPT !.ok = r.s.ok], v |-> r.d]
      start == IF f.htype = "repeated" THEN pb_message_set_to_defaults(f.sub) ELSE old
      opened(made) == IF made.s.ok THEN closed(made, pb_decode_noinit(made.sub, f.sub, start))
                                   ELSE Failed(made.s)
  IN opened(pb_make_string_substream(s))

\* A length, then bytes that must fit.
SizedBytes(s, fits(_)) ==
  LET size == pb_decode_varint32(s)
  IN IF size.s.ok /\ fits(size.v) THEN pb_read(size.s, size.v) ELSE Failed(size.s)

FixedInteger(r) ==
  [r EXCEPT !.v = IF r.s.ok THEN FoldLeft(LAMBDA acc, b : acc * 2 * Group + b, 0, Reverse(r.v))
                            ELSE 0]

\* The decoders by type: pb_dec_varint, pb_dec_uvarint, ...
DecodeScalar(s, f) ==
  LET \* an integer that does not fit its place is an error
      fitted(r, value, clamped) ==
        IF r.s.ok /\ clamped = value THEN [s |-> r.s, v |-> value] ELSE Failed(r.s)
      signed(r, value) == fitted(r, value, Signed(value, f.size))
      integer(r) ==
        CASE f.ltype = "varint" -> signed(r, Signed(r.v, IF f.size = Wide THEN Wide ELSE Narrow))
          [] f.ltype = "uvarint" -> fitted(r, r.v, r.v % f.size)
          [] f.ltype = "svarint" -> signed(r, UnZigZag(r.v))
      padded(r) ==
        IF r.s.ok /\ r.v = <<>> THEN [r EXCEPT !.v = [i \in 1..f.size |-> 0]] ELSE r
  IN CASE f.ltype \in {"varint", "uvarint", "svarint"} -> integer(pb_decode_varint(s))
       [] f.ltype = "fixed32" -> FixedInteger(pb_read(s, Fixed32Size))
       [] f.ltype = "fixed64" -> FixedInteger(pb_read(s, Fixed64Size))
       [] f.ltype = "bytes" -> SizedBytes(s, LAMBDA n : n <= f.size)
       [] f.ltype = "string" -> SizedBytes(s, LAMBDA n : n + 1 <= f.size)
       [] f.ltype = "fixedbytes" ->
            padded(SizedBytes(s, LAMBDA n : n \in {0, f.size}))
DecodeValue(s, f, old) ==
  IF f.ltype = "submessage" THEN pb_dec_submessage(s, f, old) ELSE DecodeScalar(s, f)

RECURSIVE DecodePacked(_, _, _)
DecodePacked(s, f, items) ==
  LET next(r) == IF r.s.ok THEN DecodePacked(r.s, f, Append(items, r.v)) ELSE [s |-> r.s, d |-> items]
  IN IF s.left = 0 \/ Len(items) >= f.array_size THEN [s |-> s, d |-> items]
     ELSE next(DecodeScalar(s, f))

decode_static_field(s, f, wire_type, slot) ==
  LET array == wire_type = 2 /\ f.ltype \in Packable
      unpacked(made, r) ==
        IF r.s.ok /\ r.s.left = 0
        THEN [s |-> pb_close_string_substream(made.s, r.s), d |-> r.d]
        ELSE [s |-> InError(made.s), d |-> slot]
      opened(made) == IF made.s.ok THEN unpacked(made, DecodePacked(made.sub, f, slot))
                                   ELSE [s |-> made.s, d |-> slot]
      old == CASE f.htype = "optional" -> slot.val
               [] f.htype = "oneof" ->
                    IF f.ltype = "submessage" THEN pb_message_set_to_defaults(f.sub) ELSE slot.val
               [] f.htype = "repeated" -> 0
               [] OTHER -> slot
      stored(r) == [s |-> r.s, d |-> CASE f.htype = "optional" -> [has |-> TRUE, val |-> r.v]
                                       [] f.htype = "oneof" -> [which |-> f.tag, val |-> r.v]
                                       [] f.htype = "repeated" -> Append(slot, r.v)
                                       [] OTHER -> r.v]
  IN CASE f.htype = "repeated" /\ array -> opened(pb_make_string_substream(s))
       [] f.htype = "repeated" /\ ~array /\ Len(slot) >= f.array_size -> [s |-> InError(s), d |-> slot]
       [] OTHER -> stored(DecodeValue(s, f, old))

\* The user's callback takes all of the stream it is given, which is the
\* string or the bytes of the scalar; it is called once for an empty string.
decode_callback_field(s, f, wire_type, slot) ==
  LET closed(made, r) ==
        [s |-> pb_close_string_substream(made.s, r.s), d |-> Append(slot, r.v)]
      opened(made) == IF made.s.ok THEN closed(made, pb_read(made.sub, made.sub.left))
                                   ELSE [s |-> made.s, d |-> slot]
      given(raw) == [s |-> raw.s, d |-> IF raw.s.ok THEN Append(slot, raw.v) ELSE slot]
  IN CASE ~f.decodes -> [s |-> pb_skip_field(s, wire_type), d |-> slot]
       [] f.decodes /\ wire_type = 2 -> opened(pb_make_string_substream(s))
       [] f.decodes /\ wire_type # 2 -> given(read_raw_value(s, wire_type))

decode_field(s, f, wire_type, slot) ==
  CASE f.atype = "static" -> decode_static_field(s, f, wire_type, slot)
    [] f.atype = "pointer" -> [s |-> InError(s), d |-> slot]    \* no malloc support
    [] f.atype = "callback" -> decode_callback_field(s, f, wire_type, slot)

\* The first extension of the list with this tag takes the field; with none
\* the stream has not moved and the field is skipped.
decode_extension(s, f, tag, wire_type, slot) ==
  LET own == {i \in DOMAIN f.sub : f.sub[i].tag = tag}
      taken(i, r) == [s |-> r.s, d |-> [slot EXCEPT ![i] = [val |-> r.d, found |-> TRUE]]]
      decoded(i) == taken(i, decode_field(s, f.sub[i], wire_type, slot[i].val))
  IN IF own = {} THEN [s |-> pb_skip_field(s, wire_type), d |-> slot] ELSE decoded(Min(own))

\* The field that follows tag t: it is the message's, an extension's, or skipped.
DecodeNext(t, fields, d) ==
  LET found == pb_field_iter_find(fields, t.tag)
      extensible == {j \in DOMAIN fields : fields[j].ltype = "extension" /\ t.tag >= fields[j].tag}
      put(f, r) == [s |-> r.s, d |-> IF r.s.ok THEN [d EXCEPT ![f.slot] = r.d] ELSE d]
      own(f) == put(f, decode_field(t.s, f, t.wire_type, d[f.slot]))
      ext(f) == put(f, decode_extension(t.s, f, t.tag, t.wire_type, d[f.slot]))
  IN CASE found # {} -> own(fields[Min(found)])
       [] found = {} /\ extensible # {} -> ext(fields[Min(extensible)])
       [] OTHER -> [s |-> pb_skip_field(t.s, t.wire_type), d |-> d]

\* The required fields met, when those met before were seen
SeenWith(fields, tag, seen) ==
  seen \cup {RequiredIndex(fields, i) : i \in {j \in pb_field_iter_find(fields, tag) :
               /\ fields[j].htype = "required" /\ RequiredIndex(fields, j) < MaxRequired
               /\ \A k \in pb_field_iter_find(fields, tag) : j <= k}}

\* One field after the other, until the stream ends
FieldsFrom(s, fields, d, seen) ==
  LET next(t, r) == IF r.s.ok THEN FieldsFrom(r.s, fields, r.d, SeenWith(fields, t.tag, seen)) ELSE r
      after(t) ==
        CASE s.left = 0 \/ t.eof ->
               [s |-> IF RequiredSeen(fields, seen) THEN [t.s EXCEPT !.ok = TRUE] ELSE InError(t.s),
                d |-> d]
          [] s.left # 0 /\ ~t.eof /\ ~t.s.ok -> [s |-> t.s, d |-> d]
          [] OTHER -> next(t, DecodeNext(t, fields, d))
  IN after(pb_decode_tag(s))

pb_decode_delimited(s, fields) ==
  LET closed(made, r) ==
        [s |-> [pb_close_string_substream(made.s, r.s) EXCEPT !.ok = r.s.ok], d |-> r.d]
      opened(made) == IF made.s.ok THEN closed(made, pb_decode(made.sub, fields))
                      ELSE [s |-> made.s, d |-> pb_message_set_to_defaults(fields)]
  IN opened(pb_make_string_substream(s))

-----------------------------------------------------------------------------
(* An Exchange.                                                            *)

PbInit ==
  /\ exchange \in DOMAIN PbCases /\ delimited \in BOOLEAN
  /\ sent = <<>> /\ wire = <<>> /\ pbState = "writing"
  /\ ostream = pb_ostream_from_buffer(0) /\ got = [ok |-> FALSE]

\* The writer encodes a message into a buffer; a second one only without
\* delimiters, when it is merged with the first.
EncodeMessage(m, bufsize) ==
  LET start == pb_ostream_from_buffer(bufsize)
  IN /\ pbState = "writing" /\ Len(sent) < (IF delimited THEN 1 ELSE 2)
     /\ sent = <<>> \/ ostream.ok
     /\ sent' = Append(sent, m)
     /\ ostream' = IF delimited THEN pb_encode_submessage(start, Exchange.writer, m)
                                ELSE pb_encode(start, Exchange.writer, m)
     /\ wire' = IF ostream'.ok THEN wire \o ostream'.bytes ELSE wire
     /\ UNCHANGED <<exchange, delimited, got, pbState>>

\* The reader is given only the first bytes.
Truncate(n) ==
  /\ pbState = "writing" /\ sent # <<>> /\ ostream.ok /\ n < Len(wire)
  /\ wire' = SubSeq(wire, 1, n) /\ pbState' = "cut"
  /\ UNCHANGED <<exchange, delimited, sent, ostream, got>>

DecodeMessage ==
  LET s == pb_istream_from_buffer(wire)
      outcome(r) == [ok |-> r.s.ok, d |-> r.d, cut |-> pbState = "cut"]
  IN /\ pbState \in {"writing", "cut"} /\ sent # <<>> /\ ostream.ok
     /\ got' = outcome(IF delimited THEN pb_decode_delimited(s, Exchange.reader)
                                    ELSE pb_decode(s, Exchange.reader))
     /\ pbState' = "decoded"
     /\ UNCHANGED <<exchange, delimited, sent, ostream, wire>>

PbNext ==
  \/ \E m \in Exchange.messages, bufsize \in Exchange.buffers : EncodeMessage(m, bufsize)
  \/ \E n \in 0..Len(wire) : Truncate(n)
  \/ DecodeMessage
PbSpec == PbInit /\ [][PbNext]_pbVars
-----------------------------------------------------------------------------
(* The reference: what the messages say, field by field.                   *)

\* The items a message consists of: a tag and values (several in a packed
\* array); the value of a submessage is its items again.
RECURSIVE Items(_, _), FieldItems(_, _)
FieldItems(f, slot) ==
  LET said(v) == CASE f.ltype = "submessage" -> Items(f.sub, v)
                   [] f.ltype = "string" -> CString(v)
                   [] OTHER -> v
      raw(vals) == IF f.ltype \in Packable
                   THEN EncodePacked(pb_ostream_from_buffer(Narrow), f, vals).bytes ELSE vals[1]
      item(vals) == [tag |-> f.tag, vals |-> [i \in DOMAIN vals |-> said(vals[i])], raw |-> raw(vals)]
  IN CASE f.ltype = "extension" ->
            FlattenSeq([i \in DOMAIN f.sub |-> FieldItems(f.sub[i], slot[i].val)])
       [] f.atype = "callback" ->
            IF slot.encode THEN <<[tag |-> f.tag, vals |-> <<slot.writing>>, raw |-> slot.writing]>>
                           ELSE <<>>
       [] f.ltype # "extension" /\ f.atype # "callback" ->
            CASE f.htype = "repeated" ->
                   IF f.ltype \in Packable /\ slot # <<>> THEN <<item(slot)>>
                   ELSE [i \in DOMAIN slot |-> item(<<slot[i]>>)]
              [] f.htype = "oneof" -> IF slot.which = f.tag THEN <<item(<<slot.val>>)>> ELSE <<>>
              [] f.atype = "pointer" -> IF slot = NoValue THEN <<>> ELSE <<item(<<slot>>)>>
              [] f.htype = "optional" -> IF slot.has THEN <<item(<<slot.val>>)>> ELSE <<>>
              [] f.htype = "required" -> <<item(<<slot>>)>>
              [] f.htype = "singular" ->
                   IF (IF f.ltype \in Packable THEN slot = 0 ELSE said(slot) = <<>>)
                   THEN <<>> ELSE <<item(<<slot>>)>>
Items(fields, struct) ==
  FlattenSeq([i \in DOMAIN fields |-> FieldItems(fields[i], struct[fields[i].slot])])

\* What a reader makes of items: a later value replaces an earlier one, the
\* entries of arrays and the fields of submessages add up.
RECURSIVE Reading(_, _), Acceptable(_, _), SlotReading(_, _, _)
Converted(f, v) ==
  LET inRange(x) == IF f.ltype = "uvarint" THEN x \in 0..(f.size - 1)
                    ELSE 2 * x >= -f.size /\ 2 * x < f.size
      cast == IF f.ltype = "varint" /\ f.size # Wide THEN Signed(v, Narrow) ELSE v
  IN [ok |-> inRange(cast), v |-> cast]
Understood(f, v) ==
  CASE f.ltype \in {"varint", "uvarint", "svarint"} -> Converted(f, v).v
    [] f.ltype = "submessage" -> Reading(f.sub, v)
    [] f.ltype = "fixedbytes" /\ v = <<>> -> [i \in 1..f.size |-> 0]
    [] OTHER -> v
Fitting(f, v) ==
  CASE f.ltype \in {"varint", "uvarint", "svarint"} -> Converted(f, v).ok
    [] f.ltype = "submessage" -> Acceptable(f.sub, v)
    [] f.ltype = "bytes" -> Len(v) <= f.size
    [] f.ltype = "string" -> Len(v) < f.size
    [] f.ltype = "fixedbytes" -> Len(v) \in {0, f.size}
    [] OTHER -> TRUE
Occurrences(items, tags) ==
  LET mine == SelectSeq(items, LAMBDA i : i.tag \in tags)
  IN [vals |-> FlattenSeq([i \in DOMAIN mine |-> mine[i].vals]),
      raws |-> [i \in DOMAIN mine |-> mine[i].raw],
      tag |-> IF mine = <<>> THEN 0 ELSE mine[Len(mine)].tag]
SlotReading(f, members, items) ==
  LET said == Occurrences(items, {m.tag : m \in members})
      val == IF said.vals = <<>> THEN pb_field_set_to_default(f)
             ELSE IF f.ltype = "submessage" THEN Reading(f.sub, FlattenSeq(said.vals))
             ELSE Understood(f, said.vals[Len(said.vals)])
  IN CASE f.ltype = "extension" ->
            [i \in DOMAIN f.sub |->
               [val |-> SlotReading(f.sub[i], {f.sub[i]}, items),
                found |-> Occurrences(items, {f.sub[i].tag}).tag # 0]]
       [] f.atype = "callback" -> IF f.decodes THEN said.raws ELSE <<>>
       [] f.ltype # "extension" /\ f.atype # "callback" ->
            CASE f.htype = "repeated" -> [i \in DOMAIN said.vals |-> Understood(f, said.vals[i])]
              [] f.htype = "oneof" ->
                   IF said.tag = 0 THEN pb_field_set_to_default(f)
                   ELSE LET m == CHOOSE m \in members : m.tag = said.tag
                        IN [which |-> m.tag, val |-> Understood(m, said.vals[Len(said.vals)])]
              [] f.htype = "optional" ->
                   IF said.tag = 0 THEN pb_field_set_to_default(f) ELSE [has |-> TRUE, val |-> val]
              [] OTHER -> val
Reading(fields, items) ==
  [slot \in SlotsOf(fields) |->
     SlotReading(FieldAt(fields, slot), {f \in ToSet(fields) : f.slot = slot}, items)]
Acceptable(fields, items) ==
  \A f \in ToSet(fields) \cup UNION {ToSet(e.sub) : e \in {x \in ToSet(fields) : x.ltype = "extension"}} :
     LET said == Occurrences(items, {f.tag})
     IN \/ f.ltype = "extension"
        \/ f.atype = "callback"
        \/ /\ f.atype = "pointer" => said.tag = 0
           /\ f.htype = "required" /\ f \in ToSet(fields) => said.tag # 0
           /\ f.htype = "repeated" => Len(said.vals) <= f.array_size
           /\ \A i \in DOMAIN said.vals : Fitting(f, said.vals[i])
           /\ f.ltype = "submessage" /\ f.htype \notin {"repeated", "oneof"} /\ said.tag # 0 =>
                Acceptable(f.sub, FlattenSeq(said.vals))

-----------------------------------------------------------------------------
(* Properties.                                                             *)

\* The size that pb_get_encoded_size reports is the size that pb_encode
\* writes, and it decides whether the buffer suffices.
SizeIsExact ==
  sent # <<>> /\ Exchange.steady =>
    LET size == pb_get_encoded_size(Exchange.writer, sent[Len(sent)])
        total == IF delimited THEN size + Len(VarintBytes(size)) ELSE size
    IN /\ ostream.ok <=> total <= ostream.max
       /\ ostream.ok => ostream.written = total /\ Len(ostream.bytes) = total

\* pb_decode succeeds exactly when the reader's description has room for what
\* the messages say, and then its structure holds that and nothing else.  Of
\* bytes that were cut, a delimited message is refused, and another one is
\* understood as some of the first fields only.
ReaderGetsTheMessage ==
  pbState = "decoded" =>
    LET items == FlattenSeq([i \in DOMAIN sent |-> Items(Exchange.writer, sent[i])])
        is(read) == got.ok /\ Acceptable(Exchange.reader, read) /\ got.d = Reading(Exchange.reader, read)
    IN IF ~got.cut THEN is(items) \/ (~got.ok /\ ~Acceptable(Exchange.reader, items))
       ELSE ~got.ok \/ (~delimited /\ \E k \in 0..Len(items) : is(SubSeq(items, 1, k)))

\* What a nanopb writer encodes, a nanopb reader decodes, for the descriptions,
\* buffers and callbacks of PbCases.  It does not hold of every description: an
\* array that starts with a zero in a proto3 submessage is lost, and so may a
\* complete message be where overshift is not 0.
CodecSound == SizeIsExact /\ ReaderGetsTheMessage
=============================================================================
