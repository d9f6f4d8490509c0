---------------------------- MODULE WireValues ----------------------------
(***************************************************************************)
(* A Mojom message from a sender to a receiver: the sender encodes a value *)
(* of its type, the bytes may be damaged or cut short on the way, and the  *)
(* receiver validates them against its type, which may be an older or a    *)
(* newer version of the sender's.                                          *)
(***************************************************************************)
EXTENDS WireDecoder

CONSTANTS
  Cases,           \* what is sent: header, sender's type, value, receiver's type
  DamagedCases,    \* the ones that are also damaged
  DamagedBytes,    \* the values that a damaged byte may have
  DamagedTargets   \* where a damaged pointer leads; 2^64 - n is -n

VARIABLES
  case,            \* what is sent
  bytes,           \* the message
  handles,         \* the handles attached to it
  stage,           \* "new", "encoded", "unencodable", "damaged", "validated"
  fault,           \* what happened to the bytes: "none", "byte", "pointer" or "cut"
  build,           \* of the receiver: "dev", with overflow checks, or "release"
  result           \* what the receiver made of it

vars == <<case, bytes, handles, stage, fault, build, result>>

Init ==
  /\ case \in Cases \cup DamagedCases
  /\ bytes = <<>> /\ handles = 0 /\ stage = "new" /\ fault = "none"
  /\ build = "none" /\ result = Refused

Encode ==
  /\ stage = "new"
  /\ LET e == encode_message(serialize(case.header), case.ty, case.value)
     IN  /\ stage' = IF e.ok THEN "encoded" ELSE "unencodable"
         /\ bytes' = IF e.ok THEN e.buf ELSE <<>>
         /\ handles' = IF e.ok THEN e.handles ELSE 0
  /\ UNCHANGED <<case, fault, build, result>>

DamageByte ==
  /\ stage = "encoded" /\ case \in DamagedCases
  /\ \E i \in DOMAIN bytes : \E b \in DamagedBytes \ {bytes[i]} :
       bytes' = [bytes EXCEPT ![i] = b]
  /\ stage' = "damaged" /\ fault' = "byte"
  /\ UNCHANGED <<case, handles, build, result>>

DamagePointer ==
  /\ stage = "encoded" /\ case \in DamagedCases
  /\ \E slot \in {i \in 0 .. Len(bytes) - 8 : i % 8 = 0}, target \in DamagedTargets :
       bytes' = WriteLe([buf |-> bytes], slot, target - slot, 8).buf
  /\ stage' = "damaged" /\ fault' = "pointer"
  /\ UNCHANGED <<case, handles, build, result>>

CutShort ==
  /\ stage = "encoded" /\ case \in DamagedCases
  /\ \E n \in 0 .. Len(bytes) - 1 : bytes' = SubSeq(bytes, 1, n)
  /\ stage' = "damaged" /\ fault' = "cut"
  /\ UNCHANGED <<case, handles, build, result>>

Validate ==
  /\ stage \in {"encoded", "damaged"}
  /\ build' \in {"dev", "release"}
  /\ result' = validate_message(bytes, handles, build' = "dev", case.reader)
  /\ stage' = "validated"
  /\ UNCHANGED <<case, bytes, handles, fault>>

Done == stage \in {"validated", "unencodable"} /\ UNCHANGED vars

Next == Encode \/ DamageByte \/ DamagePointer \/ CutShort \/ Validate \/ Done

Spec == Init /\ [][Next]_vars

-----------------------------------------------------------------------------
(* The values that the format, as it is implemented, carries.              *)

(* A struct in place of its field takes more than the 8 bytes that the     *)
(* layout gives it, unless it is empty: it must be the last field, and     *)
(* nothing may have been appended to the message since its struct began.   *)
InPlaceFits(fields, packed, j) ==
  LET ty == fields[packed[j].index].ty
  IN  ty.k = "Struct" /\ ~ty.nullable =>
        \/ ty.fields = <<>>
        \/ /\ j = Len(packed)
           /\ \A i \in 1 .. j - 1 : fields[packed[i].index].ty.k \in Pods

RECURSIVE Carried(_, _)
Carried(ty, v) ==
  IF v = Null THEN is_nullable(ty) /\ (ty.k = "Union" => ~ty.inlined)
  ELSE CASE ty.k = "Struct" ->
              /\ v.version >= MaxVersion(ty.fields)
              /\ \A i \in DOMAIN ty.fields : Carried(ty.fields[i].ty, v.fields[i])
              /\ \A j \in DOMAIN packed_fields(ty.fields) :
                   InPlaceFits(ty.fields, packed_fields(ty.fields), j)
         [] ty.k = "Array" -> \A i \in DOMAIN v.items : Carried(ty.element, v.items[i])
         [] ty.k = "Map" -> \A i \in DOMAIN v.keys : /\ Carried(ty.key, v.keys[i])
                                                     /\ Carried(ty.value, v.values[i])
         [] ty.k = "Union" ->
              LET member == ty.members[v.tag + 1]
              IN  (member.k = "Struct" => member.nullable) /\ Carried(member, v.value)
         [] ty.k = "Nullable" -> v.present => ty.of.k # "Bool"
         [] ty.k = "Enum" -> v.int >= 0
         [] ty.k = "String" -> \A i \in DOMAIN v.bytes : v.bytes[i] # 0
         [] OTHER -> TRUE

(* The levels that the decoder counts: structs, maps, and arrays that are  *)
(* not elements of arrays.                                                 *)
RECURSIVE Levels(_, _)
Levels(v, inArray) ==
  CASE "fields" \in DOMAIN v ->
         1 + Max({0} \cup {Levels(v.fields[i], FALSE) : i \in DOMAIN v.fields})
    [] "items" \in DOMAIN v ->
         (IF inArray THEN 0 ELSE 1)
           + Max({0} \cup {Levels(v.items[i], TRUE) : i \in DOMAIN v.items})
    [] "keys" \in DOMAIN v ->
         1 + Max({0} \cup {Levels(v.values[i], TRUE) : i \in DOMAIN v.values})
    [] "tag" \in DOMAIN v -> Levels(v.value, FALSE)
    [] OTHER -> 0

(* What the receiver should see: the fields that both know, and defaults   *)
(* for those that the sender's version did not have.                       *)
Seen(value, reader) ==
  [version |-> value.version,
   fields |-> [i \in DOMAIN reader.fields |->
                 IF i \in DOMAIN value.fields THEN value.fields[i]
                 ELSE default_value(reader.fields[i].ty)]]

Delivered ==
  result.ok /\ result.v = Seen(case.value, case.reader) /\ result.header = case.header

(* An undamaged message arrives as it was sent exactly when the format     *)
(* carries its value: encoder, decoder and the layout they each compute    *)
(* agree on every type, except on the ones that Carried leaves out.  They  *)
(* agree across versions too: a receiver that does not know the newest     *)
(* fields reads the ones it knows, and one that knows more fields than the *)
(* sender gets defaults for the rest.                                      *)
ValuesRoundTrip ==
  stage = "validated" /\ fault = "none" =>
    (Delivered <=> (Carried(case.ty, case.value) /\ Levels(case.value, FALSE) <= MaxDecodeDepth))

(* Malformed messages make the validator panic in two cases at most, both  *)
(* against the promise of lib.rs ("no panics on malformed input"): they    *)
(* end within the header they announce, or, with overflow checks, a        *)
(* pointer leads to the last bytes of the address space.                   *)
ShortHeader == Len(bytes) < SizeOfVersion(ReadU32([bytes |-> bytes], 4))

PointsToTheEnd ==
  build = "dev" /\ \E slot \in 0 .. Len(bytes) - 8 : Target([bytes |-> bytes], slot) \in -24 .. -1

(* Damage: the validator panics in those two cases only, a message cut     *)
(* short is never accepted, and in an accepted one no byte belongs to two  *)
(* objects, however a pointer leads back or around.                        *)
ValueDamageContained ==
  stage = "validated" =>
    /\ result.panic => ShortHeader \/ PointsToTheEnd
    /\ fault = "cut" => ~result.ok
    /\ result.ok =>
         \A i, j \in DOMAIN result.claims :
           i < j => result.claims[i].end <= result.claims[j].start
=============================================================================
