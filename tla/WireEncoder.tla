---------------------------- MODULE WireEncoder ----------------------------
(***************************************************************************)
(* The encoder of Mojom values (value.rs): a struct value of a given type  *)
(* behind a message header, as bytes.  Objects that are pointed to are     *)
(* appended to the buffer as the encoder meets them.                       *)
(*                                                                         *)
(* A value is a record whose fields depend on what it is: int, bool, bytes *)
(* (a string), items, keys and values, version and fields, tag and value,  *)
(* index (of a handle), id (of an associated endpoint), present and value, *)
(* or null.  Numbers are natural numbers below Huge; MaxWord stands for    *)
(* the word of 32 ones, and -n for 2^w - n in a word of w bits.            *)
(***************************************************************************)
EXTENDS PackedStruct

CONSTANT MaxEncodeDepth      \* MAX_ENCODE_DEPTH, 64 in the code

Huge == 2^24

MaxWord == Huge + 1

ENCODED_INVALID_HANDLE_VALUE == MaxWord

Null == [null |-> TRUE]

Pods == {"Bool", "U8", "U16", "U32", "U64", "Enum", "Handle"}

AlignUp(n) == n + pad(n, 8)

(* to_le_bytes for a width of 1, 2, 4 or 8 bytes.                          *)
LeBytes(v, width) ==
  LET rest == CASE v = MaxWord -> Huge - 1 [] v < 0 -> Huge + v [] OTHER -> v
  IN  [i \in 1 .. width |-> IF i <= 3 THEN (rest \div 256^(i - 1)) % 256
                            ELSE IF v = MaxWord \/ v < 0 THEN 255 ELSE 0]

-----------------------------------------------------------------------------
(* The encoder: the buffer, the handles met, the depth, and whether it has *)
(* not failed.                                                             *)

Resized(buf, len) == buf \o [i \in 1 .. (IF len > Len(buf) THEN len - Len(buf) ELSE 0) |-> 0]

Resize(e, len) == [e EXCEPT !.buf = Resized(@, len)]

(* write_le: the buffer grows as needed.                                   *)
WriteLe(e, offset, v, width) ==
  LET bytes == LeBytes(v, width)
      buf   == Resized(e.buf, offset + width)
  IN  [e EXCEPT !.buf = [i \in DOMAIN buf |->
                           IF i \in offset + 1 .. offset + width THEN bytes[i - offset]
                           ELSE buf[i]]]

WriteBit(e, offset, bit, on) ==
  LET byte == e.buf[offset + 1]
      rest == byte - ((byte \div 2^bit) % 2) * 2^bit
  IN  [e EXCEPT !.buf[offset + 1] = IF on THEN rest + 2^bit ELSE rest]

Failed(e) == [e EXCEPT !.ok = FALSE]

(* append_object_start: the end of the buffer, aligned.                    *)
ObjectStart(e) == AlignUp(Len(e.buf))

append_object_start(e) == Resize(e, ObjectStart(e))

(* Pointer::encode at a slot; targets lie behind their slots here.         *)
WritePointer(e, slot, target) == IF e.ok THEN WriteLe(e, slot, target - slot, 8) ELSE e

(* A header of two words: a size, and a version, count or tag.             *)
WriteHeader(e, offset, size, second) ==
  WriteLe(WriteLe(Resize(e, offset + size), offset, size, 4), offset + 4, second, 4)

(* The parts of the encoder call each other through this operator: form    *)
(* says which of them writes the value.                                    *)
RECURSIVE EncodeAs(_, _, _, _, _, _)

(* An object behind a pointer: appended, then pointed to.                  *)
WriteObject(e, slot, form, ty, value) ==
  WritePointer(EncodeAs(form, append_object_start(e), ObjectStart(e), 0, ty, value),
               slot, ObjectStart(e))

Has(value, name) == name \in DOMAIN value

-----------------------------------------------------------------------------
(* Structs: the header has the size of the type's last version and the     *)
(* version of the value.                                                   *)

(* One packed field; of a nullable scalar, its flag or its value.  The     *)
(* value of a nullable Bool is itself packed as a Bool, and treated as a   *)
(* flag.                                                                   *)
EncodePackedField(e, at, pf, ty, val) ==
  LET present == pf.nullable_value /\ Has(val, "present") /\ val.present
  IN  IF ~e.ok THEN e
      ELSE IF pf.nullable_value /\ pf.kind = "Bool" THEN WriteBit(e, at, pf.bit, present)
      ELSE IF pf.nullable_value /\ ~present THEN e
      ELSE EncodeAs("field", e, at, pf.bit, IF present THEN ty.of ELSE ty,
                    IF present THEN val.value ELSE val)

EncodeFields(e, offset, fields, values, packed) ==
  LET Field(acc, pf) ==
        EncodePackedField(acc, offset + STRUCT_HEADER_SIZE + pf.offset, pf,
                          fields[pf.index].ty,
                          IF pf.index \in DOMAIN values THEN values[pf.index] ELSE Null)
  IN  FoldLeft(Field, e, packed)

encode_struct_at(e, offset, ty, value) ==
  IF ~Has(value, "fields") \/ ~VersionsOk(ty.fields) THEN Failed(e)
  ELSE EncodeFields(WriteHeader(e, offset, PackedSize(packed_fields(ty.fields)), value.version),
                    offset, ty.fields, value.fields, packed_fields(ty.fields))

(* encode_union_inline: 16 bytes, of which the last 8 are the member or a  *)
(* pointer to it; a struct that is not nullable is written in place.       *)
EncodeUnionPayload(e, offset, ty, value) ==
  IF ty.k = "Array" /\ Has(value, "items") THEN WriteObject(e, offset, "array", ty, value)
  ELSE EncodeAs("field", e, offset, 0, ty, value)

encode_union_inline(e, offset, ty, value) ==
  IF value.tag >= Len(ty.members) THEN Failed(e)
  ELSE EncodeUnionPayload(WriteHeader(e, offset, 16, value.tag), offset + 8,
                          ty.members[value.tag + 1], value.value)

WriteBytes(e, offset, data) ==
  [e EXCEPT !.buf = [i \in DOMAIN @ |-> IF i \in offset + 1 .. offset + Len(data)
                                        THEN data[i - offset] ELSE @[i]]]

encode_string_object_at(e, target, data) ==
  WriteBytes(WriteHeader(e, target, AlignUp(8 + Len(data) + 1), Len(data)), target + 8, data)

-----------------------------------------------------------------------------
(* Arrays and maps.  Only an array in a field and a map count as a level.  *)

Deeper(e) == IF e.depth + 1 > MaxEncodeDepth THEN Failed(e) ELSE [e EXCEPT !.depth = @ + 1]

Leave(e) == [e EXCEPT !.depth = @ - 1]

ElementSize(ty) == IF ty.k \in Pods THEN KindSize[ty.k] ELSE 8

(* encode_array_element_at: what is not of these types is refused.         *)
ElementForm(ty, item) ==
  CASE ty.k = "Struct" -> "struct"
    [] ty.k = "String" -> "string"
    [] ty.k = "Array" -> "array"
    [] ty.k = "Map" /\ Has(item, "keys") -> "map"
    [] OTHER -> "refused"

EncodeArrayItem(e, at, element, item) ==
  IF ~e.ok THEN e
  ELSE IF element.k \in Pods THEN EncodeAs("field", e, at, 0, element, item)
  ELSE IF item = Null THEN WriteLe(e, at, 0, 8)
  ELSE WriteObject(e, at, ElementForm(element, item), element, item)

encode_array_body(e, target, element, items) ==
  LET size         == ElementSize(element)
      Item(acc, i) == EncodeArrayItem(acc, target + 8 + (i - 1) * size, element, items[i])
  IN  FoldLeft(Item, WriteHeader(e, target, AlignUp(8 + size * Len(items)), Len(items)),
               [i \in DOMAIN items |-> i])

(* encode_array: a level deeper.                                           *)
encode_array(e, target, ty, value) ==
  IF Deeper(e).ok THEN Leave(EncodeAs("array", Deeper(e), target, 0, ty, value)) ELSE Failed(e)

(* encode_map_at: a struct of two pointers, to the keys and to the values. *)
EncodeMapArray(e, slot, element, items) ==
  IF e.ok THEN WriteObject(e, slot, "array", [element |-> element], [items |-> items]) ELSE e

encode_map_at(e, target, ty, value) ==
  IF Len(value.keys) # Len(value.values) THEN Failed(e)
  ELSE Leave(EncodeMapArray(EncodeMapArray(Deeper(WriteHeader(e, target, 24, 0)),
                                           target + 8, ty.key, value.keys),
                            target + 16, ty.value, value.values))

-----------------------------------------------------------------------------
(* encode_field_at: by the type and the shape of the value.                *)

(* A handle counts as attached unless it is the invalid one.               *)
WriteHandle(e, offset, index) ==
  WriteLe([e EXCEPT !.handles = IF index = ENCODED_INVALID_HANDLE_VALUE THEN @ ELSE @ + 1],
          offset, index, 4)

EncodeScalar(e, offset, bit, ty, value) ==
  CASE ty.k = "Bool" /\ Has(value, "bool") -> WriteBit(e, offset, bit, value.bool)
    [] ty.k \in {"U8", "U16", "U32", "U64", "Enum"} /\ Has(value, "int") ->
         WriteLe(e, offset, value.int, KindSize[ty.k])
    [] ty.k = "Handle" /\ Has(value, "index") -> WriteHandle(e, offset, value.index)
    [] ty.k = "AssociatedEndpoint" /\ Has(value, "id") -> WriteLe(e, offset, value.id, 4)
    [] OTHER -> Failed(e)

(* Interfaces: an endpoint, and the greater of the two versions.           *)
EncodeInterface(e, offset, ty, value) ==
  IF Has(value, IF ty.k = "Interface" THEN "index" ELSE "id")
  THEN WriteLe(IF ty.k = "Interface" THEN WriteHandle(e, offset, value.index)
               ELSE WriteLe(e, offset, value.id, 4),
               offset + 4, Max({value.version, ty.version}), 4)
  ELSE Failed(e)

(* The form in which a reference is written, and whether behind a pointer. *)
ReferenceForm(ty, value) ==
  CASE ty.k = "String" /\ Has(value, "bytes") -> "string"
    [] ty.k = "Array" /\ Has(value, "items") -> "array field"
    [] ty.k = "Map" /\ Has(value, "keys") -> "map"
    [] ty.k = "Struct" /\ Has(value, "fields") -> "struct"
    [] ty.k = "Union" /\ Has(value, "tag") -> "union"
    [] OTHER -> "refused"

InPlace(ty) == (ty.k = "Struct" /\ ~ty.nullable) \/ (ty.k = "Union" /\ ty.inlined)

EncodeReference(e, offset, ty, value) ==
  IF value = Null /\ is_nullable(ty) THEN WriteLe(e, offset, 0, 8)
  ELSE IF InPlace(ty) THEN EncodeAs(ReferenceForm(ty, value), e, offset, 0, ty, value)
  ELSE WriteObject(e, offset, ReferenceForm(ty, value), ty, value)

encode_field_at(e, offset, bit, ty, value) ==
  CASE ty.k \in {"String", "Array", "Map", "Struct", "Union"} ->
         EncodeReference(e, offset, ty, value)
    [] ty.k \in {"Interface", "AssociatedInterface"} -> EncodeInterface(e, offset, ty, value)
    [] ty.k = "Nullable" ->
         IF value # Null /\ value.present
         THEN EncodeAs("field", e, offset, bit, ty.of, value.value) ELSE e
    [] OTHER -> EncodeScalar(e, offset, bit, ty, value)

EncodeAs(form, e, offset, bit, ty, value) ==
  CASE form = "field" -> encode_field_at(e, offset, bit, ty, value)
    [] form = "struct" -> encode_struct_at(e, offset, ty, value)
    [] form = "union" -> encode_union_inline(e, offset, ty, value)
    [] form = "string" ->
         encode_string_object_at(e, offset, IF Has(value, "bytes") THEN value.bytes ELSE <<>>)
    [] form = "array" ->
         encode_array_body(e, offset, ty.element, IF Has(value, "items") THEN value.items ELSE <<>>)
    [] form = "array field" -> encode_array(e, offset, ty, value)
    [] form = "map" -> encode_map_at(e, offset, ty, value)
    [] form = "refused" -> Failed(e)

-----------------------------------------------------------------------------
(* The message header (message.rs).                                        *)
HeaderSize == <<24, 32, 48, 56>>

SizeOfVersion(version) == HeaderSize[Min({version, 3}) + 1]

HEADER_PAYLOAD_OFFSET == 32

(* MessageHeader::serialize, the pointers left null.                       *)
serialize(h) ==
  LET words == LeBytes(SizeOfVersion(h.version), 4) \o LeBytes(h.version, 4)
                 \o LeBytes(h.interface_id, 4) \o LeBytes(h.name, 4)
                 \o LeBytes(h.flags, 4) \o LeBytes(h.trace_nonce, 4)
                 \o (IF h.version >= 1 THEN LeBytes(h.request_id, 8) ELSE <<>>)
                 \o (IF h.version >= 2 THEN LeBytes(0, 8) \o LeBytes(0, 8) ELSE <<>>)
  IN  words \o (IF h.version >= 3 THEN LeBytes(h.creation_timeticks_us, 8) ELSE <<>>)

(* encode_message: the payload behind the header, and from version 2 on a  *)
(* pointer to it in the header.                                            *)
encode_message(header, ty, value) ==
  LET start   == AlignUp(Len(header))
      encoded == EncodeAs("struct", [ok |-> TRUE, handles |-> 0, depth |-> 0,
                                     buf |-> Resized(header, start)], start, 0, ty, value)
  IN  IF Len(header) >= SizeOfVersion(2) THEN WritePointer(encoded, HEADER_PAYLOAD_OFFSET, start)
      ELSE encoded
=============================================================================
