---------------------------- MODULE WireDecoder ----------------------------
(***************************************************************************)
(* The decoder and validator of Mojom messages (value.rs, message.rs,      *)
(* validate.rs).  It takes any bytes.  Every object behind a pointer       *)
(* claims its memory, behind everything claimed before it: the frontier.   *)
(*                                                                         *)
(* A result is ok with a value and the claims so far, or not ok, by an     *)
(* error or a panic; the errors are not told apart.  Addresses are u64: a  *)
(* pointer may lead to the end of the address space, which -n stands for,  *)
(* and an addition that is not checked panics there in a build with        *)
(* overflow checks.                                                        *)
(***************************************************************************)
EXTENDS WireEncoder

CONSTANT MaxDecodeDepth      \* max_recursion_depth, 32 by default

Refused == [ok |-> FALSE, panic |-> FALSE]

Panicked == [ok |-> FALSE, panic |-> TRUE]

Accepted(v, claims) == [ok |-> TRUE, panic |-> FALSE, v |-> v, claims |-> claims]

(* What a part has failed with.                                            *)
Rejected(r) == IF r.panic THEN Panicked ELSE Refused

(* Little-endian reads; a number beyond the model's range is Huge.         *)
ReadU8(x, off) == x.bytes[off + 1]

ReadU16(x, off) == ReadU8(x, off) + 256 * ReadU8(x, off + 1)

ReadU32(x, off) ==
  IF \A i \in 0 .. 3 : ReadU8(x, off + i) = 255 THEN MaxWord
  ELSE IF ReadU8(x, off + 3) # 0 THEN Huge
  ELSE ReadU16(x, off) + 65536 * ReadU8(x, off + 2)

ReadU64(x, off) ==
  IF \A i \in 3 .. 7 : ReadU8(x, off + i) = 255
  THEN ReadU16(x, off) + 65536 * ReadU8(x, off + 2) - Huge
  ELSE IF \E i \in 4 .. 7 : ReadU8(x, off + i) # 0 THEN Huge ELSE ReadU32(x, off)

Readable(x, off, width) == off >= 0 /\ off + width <= Len(x.bytes)

(* target + width, compared with the length of the message: beyond it, or  *)
(* beyond 2^64, where without the checks the sum wraps, and what is read   *)
(* next is refused.                                                        *)
Overflows(x, target, width) == x.overflow_checks /\ target < 0 /\ target + width >= 0

OutOfRange(x, target, width) == IF Overflows(x, target, width) THEN Panicked ELSE Refused

(* Mutant: a claim need not lie behind the earlier ones.                   *)
ClaimInBounds(x, claims, start, len) == start + len <= Len(x.bytes) /\ len > 0

(* claim.                                                                  *)
Frontier(claims) == IF claims = <<>> THEN 0 ELSE claims[Len(claims)].end

ClaimOk(x, claims, start, len) ==
  /\ start + len <= Len(x.bytes)
  /\ len > 0
  /\ start >= Frontier(claims)

Claimed(claims, start, len) == Append(claims, [start |-> start, end |-> start + len])

(* The parts of the decoder call each other through this operator: form    *)
(* says which of them reads at the offset.                                 *)
RECURSIVE DecodeAs(_, _, _, _, _, _, _)

(* Pointer::decode: the addition wraps, so that a target may lie before    *)
(* its pointer or at the end of the address space.                         *)
Target(x, slot) == slot + ReadU64(x, slot)

(* What all pointer fields have in common: null is a value of a nullable   *)
(* type only; else the object is decoded at the target.                    *)
decode_pointer(form, x, claims, depth, off, nullable, ty) ==
  IF ~Readable(x, off, 8) THEN Refused
  ELSE IF ReadU64(x, off) = 0 THEN (IF nullable THEN Accepted(Null, claims) ELSE Refused)
  ELSE DecodeAs(form, x, claims, depth, Target(x, off), 0, ty)

-----------------------------------------------------------------------------
(* default_value: what a field has that the sender's version does not know.*)
default_value(ty) ==
  CASE ty.k = "Bool" -> [bool |-> FALSE]
    [] ty.k \in {"U8", "U16", "U32", "U64", "Enum"} -> [int |-> 0]
    [] ty.k = "Handle" -> [index |-> ENCODED_INVALID_HANDLE_VALUE]
    [] ty.k = "Interface" ->
         [index |-> ENCODED_INVALID_HANDLE_VALUE, version |-> ty.version]
    [] ty.k = "AssociatedEndpoint" -> [id |-> ENCODED_INVALID_HANDLE_VALUE]
    [] ty.k = "AssociatedInterface" ->
         [id |-> ENCODED_INVALID_HANDLE_VALUE, version |-> ty.version]
    [] ty.k = "Nullable" -> [present |-> FALSE, value |-> Null]
    [] OTHER -> Null

(* The exact size for a known version, at least the known one for a later. *)
SizeOk(fields, packed, version, num_bytes) ==
  IF version <= MaxVersion(fields)
  THEN num_bytes = num_bytes_for_version(fields, packed, version)
  ELSE num_bytes >= PackedSize(packed)

InVersion(fields, pf, version, num_bytes) ==
  /\ MinVersion(fields, pf.index) <= version
  /\ STRUCT_HEADER_SIZE + pf.offset + pf.size <= num_bytes

BitAt(x, off, bit) == (ReadU8(x, off) \div 2^bit) % 2 = 1

(* One packed field: the state has the values, the flags of the nullable   *)
(* scalars, and the claims.                                                *)
DecodePackedField(x, s, depth, at, pf, ty) ==
  IF pf.nullable_value /\ pf.kind = "Bool"
  THEN [s EXCEPT !.present[pf.index] = BitAt(x, at, pf.bit)]
  ELSE LET r == DecodeAs("field", x, s.claims, depth, at, pf.bit,
                         IF pf.nullable_value THEN ty.of ELSE ty)
       IN  IF r.ok THEN [s EXCEPT !.v[pf.index] = r.v, !.claims = r.claims]
           ELSE [s EXCEPT !.ok = FALSE, !.panic = r.panic]

StructBody(x, claims, depth, off, fields, num_bytes, version) ==
  LET start == [ok |-> TRUE, panic |-> FALSE, claims |-> claims,
                v |-> [i \in DOMAIN fields |-> default_value(fields[i].ty)],
                present |-> [i \in DOMAIN fields |-> FALSE]]
      Field(s, pf) ==
        IF s.ok /\ InVersion(fields, pf, version, num_bytes)
        THEN DecodePackedField(x, s, depth, off + STRUCT_HEADER_SIZE + pf.offset, pf,
                               fields[pf.index].ty)
        ELSE s
      s == FoldLeft(Field, start, packed_fields(fields))
      Value(i) == IF fields[i].ty.k # "Nullable" THEN s.v[i]
                  ELSE [present |-> s.present[i],
                        value |-> IF s.present[i] THEN s.v[i] ELSE Null]
  IN  IF s.ok THEN Accepted([version |-> version, fields |-> [i \in DOMAIN fields |-> Value(i)]],
                            s.claims)
      ELSE Rejected(s)

(* decode_struct, and decode_struct_inline with claim_self false: the      *)
(* memory of a struct in place is not claimed.                             *)
StructOk(x, claims, depth, off, fields, claim_self) ==
  /\ depth < MaxDecodeDepth
  /\ Readable(x, off, STRUCT_HEADER_SIZE)
  /\ ReadU32(x, off) >= STRUCT_HEADER_SIZE
  /\ Readable(x, off, ReadU32(x, off))
  /\ claim_self => ClaimOk(x, claims, off, ReadU32(x, off))
  /\ VersionsOk(fields)
  /\ SizeOk(fields, packed_fields(fields), ReadU32(x, off + 4), ReadU32(x, off))

decode_struct(x, claims, depth, off, ty, claim_self) ==
  IF StructOk(x, claims, depth, off, ty.fields, claim_self)
  THEN StructBody(x, IF claim_self THEN Claimed(claims, off, ReadU32(x, off)) ELSE claims,
                  depth + 1, off, ty.fields, ReadU32(x, off), ReadU32(x, off + 4))
  ELSE IF depth < MaxDecodeDepth THEN OutOfRange(x, off, STRUCT_HEADER_SIZE)
  ELSE Refused

-----------------------------------------------------------------------------
(* decode_union_at: a union behind a pointer claims its 16 bytes.          *)
DecodeUnionPayload(x, claims, depth, off, ty) ==
  IF ty.k = "Struct" THEN decode_pointer("struct", x, claims, depth, off, ty.nullable, ty)
  ELSE DecodeAs("field", x, claims, depth, off, 0, ty)

UnionOk(x, claims, off, ty, claim_self) ==
  /\ Readable(x, off, 8)
  /\ ReadU32(x, off + 4) < Len(ty.members)
  /\ claim_self => ReadU32(x, off) = 16 /\ ClaimOk(x, claims, off, 16)

decode_union_at(x, claims, depth, off, ty, claim_self) ==
  IF ~UnionOk(x, claims, off, ty, claim_self) THEN OutOfRange(x, off, 8)
  ELSE LET tag == ReadU32(x, off + 4)
           r   == DecodeUnionPayload(x, IF claim_self THEN Claimed(claims, off, 16) ELSE claims,
                                     depth, off + 8, ty.members[tag + 1])
       IN  IF r.ok THEN Accepted([tag |-> tag, value |-> r.v], r.claims) ELSE Rejected(r)

(* decode_string_at: the NUL behind the characters is looked for before    *)
(* the string is claimed, and may lie behind what it claims.  Characters   *)
(* are ASCII here.                                                         *)
StringOk(x, claims, target, num_bytes, num_elements) ==
  /\ num_bytes >= 8 /\ Readable(x, target, num_bytes)
  /\ num_elements <= num_bytes - 8
  /\ \A i \in 1 .. num_elements : ReadU8(x, target + 7 + i) \in 1 .. 127
  /\ Readable(x, target + 8 + num_elements, 1)
  /\ ReadU8(x, target + 8 + num_elements) = 0
  /\ ClaimOk(x, claims, target, num_bytes)

decode_string_at(x, claims, target) ==
  IF Readable(x, target, 8)
       /\ StringOk(x, claims, target, ReadU32(x, target), ReadU32(x, target + 4))
  THEN Accepted([bytes |-> SubSeq(x.bytes, target + 9, target + 8 + ReadU32(x, target + 4))],
                Claimed(claims, target, ReadU32(x, target)))
  ELSE OutOfRange(x, target, 8)

-----------------------------------------------------------------------------
(* decode_array_element: the forms of the elements behind pointers.        *)
ElementReadAs(ty) ==
  CASE ty.k = "Struct" -> "struct"
    [] ty.k = "String" -> "string"
    [] ty.k = "Map" -> "map"
    [] ty.k = "Array" -> "array"
    [] OTHER -> "refused"

DecodeArrayItem(x, s, depth, at, element) ==
  LET r == IF element.k \in Pods THEN DecodeAs("field", x, s.claims, depth, at, 0, element)
           ELSE decode_pointer(ElementReadAs(element), x, s.claims, depth, at,
                               is_nullable(element), element)
  IN  IF ~s.ok THEN s
      ELSE IF r.ok THEN [s EXCEPT !.v = Append(@, r.v), !.claims = r.claims]
      ELSE [s EXCEPT !.ok = FALSE, !.panic = r.panic]

ArrayItems(x, claims, depth, data, element, num_elements) ==
  LET Item(s, i) == DecodeArrayItem(x, s, depth, data + (i - 1) * ElementSize(element), element)
      s == FoldLeft(Item, [ok |-> TRUE, panic |-> FALSE, v |-> <<>>, claims |-> claims],
                    [i \in 1 .. num_elements |-> i])
  IN  IF s.ok THEN Accepted([items |-> s.v], s.claims) ELSE Rejected(s)

ArrayOk(x, claims, target, element) ==
  /\ Readable(x, target, 8)
  /\ ReadU32(x, target) >= 8 + ElementSize(element) * ReadU32(x, target + 4)
  /\ Readable(x, target, ReadU32(x, target))
  /\ ClaimOk(x, claims, target, ReadU32(x, target))

decode_array_body(x, claims, depth, target, element) ==
  IF ArrayOk(x, claims, target, element)
  THEN ArrayItems(x, Claimed(claims, target, ReadU32(x, target)), depth, target + 8, element,
                  ReadU32(x, target + 4))
  ELSE OutOfRange(x, target, 8)

(* decode_array: a level deeper.                                           *)
decode_array(x, claims, depth, target, ty) ==
  IF depth < MaxDecodeDepth THEN DecodeAs("array", x, claims, depth + 1, target, 0, ty)
  ELSE Refused

(* decode_map_at: the keys, then the values, as many.                      *)
MapOk(x, claims, target) ==
  /\ Readable(x, target, 24)
  /\ ReadU32(x, target) >= 24
  /\ ClaimOk(x, claims, target, ReadU32(x, target))
  /\ ReadU64(x, target + 8) # 0 /\ ReadU64(x, target + 16) # 0

MapArray(x, claims, depth, slot, element) ==
  DecodeAs("array", x, claims, depth, Target(x, slot), 0, [element |-> element])

decode_map_at(x, claims, depth, target, ty) ==
  IF depth >= MaxDecodeDepth THEN Refused
  ELSE IF ~MapOk(x, claims, target) THEN OutOfRange(x, target, 24)
  ELSE LET keys   == MapArray(x, Claimed(claims, target, ReadU32(x, target)), depth + 1,
                              target + 8, ty.key)
           values == MapArray(x, keys.claims, depth + 1, target + 16, ty.value)
       IN  IF ~keys.ok THEN Rejected(keys)
           ELSE IF ~values.ok THEN Rejected(values)
           ELSE IF Len(keys.v.items) = Len(values.v.items)
           THEN Accepted([keys |-> keys.v.items, values |-> values.v.items], values.claims)
           ELSE Refused

-----------------------------------------------------------------------------
(* decode_field.                                                           *)
HandleOk(x, index) == index = ENCODED_INVALID_HANDLE_VALUE \/ index < x.handles

InterfaceVersion(x, off, ty) == Max({ReadU32(x, off + 4), ty.version})

ScalarValue(x, off, bit, ty) ==
  CASE ty.k = "Bool" -> [bool |-> BitAt(x, off, bit)]
    [] ty.k = "U8" -> [int |-> ReadU8(x, off)]
    [] ty.k = "U16" -> [int |-> ReadU16(x, off)]
    [] ty.k \in {"U32", "Enum"} -> [int |-> ReadU32(x, off)]
    [] ty.k = "U64" -> [int |-> ReadU64(x, off)]
    [] ty.k = "Handle" -> [index |-> ReadU32(x, off)]
    [] ty.k = "Interface" ->
         [index |-> ReadU32(x, off), version |-> InterfaceVersion(x, off, ty)]
    [] ty.k = "AssociatedEndpoint" -> [id |-> ReadU32(x, off)]
    [] ty.k = "AssociatedInterface" ->
         [id |-> ReadU32(x, off), version |-> InterfaceVersion(x, off, ty)]

DecodeScalar(x, claims, off, bit, ty) ==
  IF /\ Readable(x, off, KindSize[ty.k])
     /\ ty.k \in {"Handle", "Interface"} => HandleOk(x, ReadU32(x, off))
  THEN Accepted(ScalarValue(x, off, bit, ty), claims) ELSE Refused

(* The forms of the references, in place or behind pointers.               *)
ReadAs ==
  [String |-> "string", Array |-> "array field", Map |-> "map", Struct |-> "struct",
   Union |-> "union"]

decode_field(x, claims, depth, off, bit, ty) ==
  CASE ty.k \notin DOMAIN ReadAs \cup {"Nullable"} -> DecodeScalar(x, claims, off, bit, ty)
    [] ty.k = "Nullable" -> DecodeAs("field", x, claims, depth, off, bit, ty.of)
    [] ty.k = "Struct" /\ InPlace(ty) -> DecodeAs("struct in place", x, claims, depth, off, 0, ty)
    [] ty.k = "Union" /\ InPlace(ty) -> DecodeAs("union in place", x, claims, depth, off, 0, ty)
    [] OTHER -> decode_pointer(ReadAs[ty.k], x, claims, depth, off, ty.nullable, ty)

DecodeAs(form, x, claims, depth, off, bit, ty) ==
  CASE form = "field" -> decode_field(x, claims, depth, off, bit, ty)
    [] form \in {"struct", "struct in place"} ->
         decode_struct(x, claims, depth, off, ty, form = "struct")
    [] form \in {"union", "union in place"} ->
         decode_union_at(x, claims, depth, off, ty, form = "union")
    [] form = "string" -> decode_string_at(x, claims, off)
    [] form = "array" -> decode_array_body(x, claims, depth, off, ty.element)
    [] form = "array field" -> decode_array(x, claims, depth, off, ty)
    [] form = "map" -> decode_map_at(x, claims, depth, off, ty)
    [] form = "refused" -> Refused

-----------------------------------------------------------------------------
(* MessageHeader::parse: flag 1 expects a response, flag 2 is one; both    *)
(* need a request id, and exclude each other.                              *)
HeaderFields(x, version) ==
  [version |-> version, interface_id |-> ReadU32(x, 8), name |-> ReadU32(x, 12),
   flags |-> ReadU32(x, 16), trace_nonce |-> ReadU32(x, 20),
   request_id |-> IF version >= 1 THEN ReadU64(x, 24) ELSE 0,
   creation_timeticks_us |-> IF version >= 3 THEN ReadU64(x, 48) ELSE 0]

HeaderOk(x) ==
  LET num_bytes == ReadU32(x, 0)
      version   == ReadU32(x, 4)
      request   == ReadU8(x, 16) % 4
  IN  /\ IF version <= 3 THEN num_bytes = SizeOfVersion(version)
         ELSE num_bytes >= SizeOfVersion(version)
      /\ version = 0 => request = 0
      /\ request # 3

(* From version 2 on the header points to the payload.                     *)
NullPayload(x) ==
  /\ ReadU32(x, 4) >= 2
  /\ Readable(x, HEADER_PAYLOAD_OFFSET, 8) /\ ReadU64(x, HEADER_PAYLOAD_OFFSET) = 0

(* The reads beyond the first 24 bytes index the buffer without a check.   *)
HeaderPanics(x) == Len(x.bytes) < SizeOfVersion(ReadU32(x, 4))

(* validate_message.                                                       *)
validate_message(bytes, handles, overflow_checks, ty) ==
  LET x      == [bytes |-> bytes, handles |-> handles, overflow_checks |-> overflow_checks]
      offset == AlignUp(SizeOfVersion(ReadU32(x, 4)))
  IN  IF Len(bytes) < SizeOfVersion(0) THEN Refused
      ELSE IF ~HeaderOk(x) \/ NullPayload(x) THEN Refused
      ELSE IF HeaderPanics(x) THEN Panicked
      ELSE IF offset >= Len(bytes) THEN Refused
      ELSE LET r == DecodeAs("struct", x, <<>>, 0, offset, 0, ty)
           IN  IF r.ok THEN [header |-> HeaderFields(x, ReadU32(x, 4))] @@ r ELSE Rejected(r)
=============================================================================
