---------------------------- MODULE PackedStruct ----------------------------
(***************************************************************************)
(* The layout of a Mojom struct (pack.rs): where each field lies behind    *)
(* the struct header, and how large the struct is in each version.         *)
(*                                                                         *)
(* Types of the same width and treatment are one: U8 stands for I8 too,    *)
(* U32 for I32 and F32, U64 for I64 and F64.  A type is a record: k is its *)
(* constructor; nullable, element, key, value, fields, members, inlined,   *)
(* version and `of` are what that constructor has.  A field is a type and  *)
(* a min_version, NoVersion when it has none.                              *)
(***************************************************************************)
EXTENDS Integers, Sequences, FiniteSetsExt, SequencesExt

NoVersion == -1

STRUCT_HEADER_SIZE == 8

(* Type::pack_kind: a union that is not inlined packs as a map does, a     *)
(* nullable scalar as what it may hold.                                    *)
pack_kind(ty) ==
  CASE ty.k = "Union" -> IF ty.inlined THEN "Union" ELSE "Map"
    [] ty.k = "Nullable" -> ty.of.k
    [] OTHER -> ty.k

KindSize ==
  [Bool |-> 1, U8 |-> 1, U16 |-> 2, U32 |-> 4, Enum |-> 4, Handle |-> 4,
   AssociatedEndpoint |-> 4, U64 |-> 8, String |-> 8, Array |-> 8, Map |-> 8,
   Struct |-> 8, Interface |-> 8, AssociatedInterface |-> 8, Union |-> 16]

KindAlignment ==
  [KindSize EXCEPT !.Interface = 4, !.AssociatedInterface = 4, !.Union = 8]

is_reference(kind) == kind \in {"String", "Array", "Map", "Struct", "Interface"}

is_nullable(ty) ==
  \/ ty.k = "Nullable"
  \/ ty.k \in {"String", "Array", "Map", "Struct", "Union"} /\ ty.nullable

pad(offset, alignment) == (alignment - (offset % alignment)) % alignment

-----------------------------------------------------------------------------
(* The fields to place, in ordinal order: a nullable scalar is a flag and  *)
(* then a value, and the flag is a Bool.                                   *)
Source(index, kind, nullable_value) ==
  [index |-> index, kind |-> kind, nullable_value |-> nullable_value,
   size |-> KindSize[kind], offset |-> 0, bit |-> 0]

Expanded(fields, i) ==
  LET ty == fields[i].ty
  IN  IF ty.k = "Nullable"
      THEN <<Source(i, "Bool", TRUE), Source(i, pack_kind(ty), TRUE)>>
      ELSE <<Source(i, pack_kind(ty), FALSE)>>

SourceFields(fields) == FlattenSeq([i \in DOMAIN fields |-> Expanded(fields, i)])

(* min_version never decreases, and once a field has one they all have;    *)
(* a reference that cannot be null belongs to version 0.                   *)
MinVersion(fields, i) == IF fields[i].min_version = NoVersion THEN 0 ELSE fields[i].min_version

VersionsOk(fields) ==
  \A i \in DOMAIN fields :
    /\ i > 1 => /\ MinVersion(fields, i) >= MinVersion(fields, i - 1)
                /\ MinVersion(fields, i - 1) # 0 => fields[i].min_version # NoVersion
    /\ MinVersion(fields, i) # 0 =>
         ~is_reference(pack_kind(fields[i].ty)) \/ is_nullable(fields[i].ty)

(* Mutant: a Bool takes the next bit without regard to the byte's end.     *)
FieldOffsetNinthBit(kind, last) ==
  IF kind = "Bool" /\ last.kind = "Bool" THEN <<last.offset, (last.bit + 1) % 8>>
  ELSE LET offset == last.offset + last.size
       IN  <<offset + pad(offset, KindAlignment[kind]), 0>>

(* field_offset: the place behind `last`; Bools share a byte.              *)
FieldOffset(kind, last) ==
  IF kind = "Bool" /\ last.kind = "Bool" /\ last.bit < 7
  THEN <<last.offset, last.bit + 1>>
  ELSE LET offset == last.offset + last.size
       IN  <<offset + pad(offset, KindAlignment[kind]), 0>>

(* First fit: the first gap between two placed fields that holds src, or   *)
(* behind them all.                                                        *)
Place(dst, src) ==
  LET At(i) == FieldOffset(src.kind, dst[i])
      Gaps  == {i \in 1 .. Len(dst) - 1 : At(i)[1] + src.size <= dst[i + 1].offset}
      after == IF Gaps = {} THEN Len(dst) ELSE Min(Gaps)
  IN  IF dst = <<>> THEN <<src>>
      ELSE InsertAt(dst, after + 1,
                    [src EXCEPT !.offset = At(after)[1], !.bit = At(after)[2]])

(* PackedStruct::pack, for fields in order of version.                     *)
packed_fields(fields) == FoldLeft(Place, <<>>, SourceFields(fields))

payload_size_up_to_field(pf) == pf.offset + pf.size + pad(pf.offset + pf.size, 8)

PackedSize(packed) ==
  STRUCT_HEADER_SIZE
    + (IF packed = <<>> THEN 0 ELSE payload_size_up_to_field(packed[Len(packed)]))

(* version_info and num_bytes_for_version: the fields of the version and   *)
(* of the ones before it.                                                  *)
num_bytes_for_version(fields, packed, version) ==
  STRUCT_HEADER_SIZE
    + Max({0} \cup {payload_size_up_to_field(packed[j]) :
                     j \in {j \in DOMAIN packed :
                              MinVersion(fields, packed[j].index) <= version}})

MaxVersion(fields) == Max({0} \cup {MinVersion(fields, i) : i \in DOMAIN fields})
=============================================================================
