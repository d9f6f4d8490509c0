--------------------------- MODULE MCWireValues ---------------------------
(***************************************************************************)
(* WireValues with every type constructor, all structs of up to three      *)
(* fields of eight sizes, and pairs of schemas that differ by one version. *)
(***************************************************************************)
EXTENDS WireValues

T(k) == [k |-> k]
Str(nullable) == [k |-> "String", nullable |-> nullable]
Arr(element, nullable) == [k |-> "Array", element |-> element, nullable |-> nullable]
MapOf(key, value, nullable) ==
  [k |-> "Map", key |-> key, value |-> value, nullable |-> nullable]
Optional(ty) == [k |-> "Nullable", of |-> ty]
Union(members, nullable, inlined) ==
  [k |-> "Union", members |-> members, nullable |-> nullable, inlined |-> inlined]
Iface == [k |-> "Interface", version |-> 1]
AssocIface == [k |-> "AssociatedInterface", version |-> 1]

Fields(types, min_version) ==
  [i \in DOMAIN types |-> [ty |-> types[i], min_version |-> min_version]]
StructOf(fields, nullable) == [k |-> "Struct", fields |-> fields, nullable |-> nullable]
Plain(types) == StructOf(Fields(types, NoVersion), FALSE)
Boxed(types) == StructOf(Fields(types, NoVersion), TRUE)

I(n) == [int |-> n]
B(b) == [bool |-> b]
S(bytes_) == [bytes |-> bytes_]
Items(seq) == [items |-> seq]
Present(v) == [present |-> TRUE, value |-> v]
Absent == [present |-> FALSE, value |-> Null]
St(values) == [version |-> 0, fields |-> values]
U(tag, v) == [tag |-> tag, value |-> v]

Header(version) ==
  [version |-> version, interface_id |-> 5, name |-> 6,
   flags |-> IF version = 0 THEN 0 ELSE 1, trace_nonce |-> 7,
   request_id |-> IF version = 0 THEN 0 ELSE 9,
   creation_timeticks_us |-> IF version = 3 THEN 11 ELSE 0]

Case(types, values) ==
  [header |-> Header(0), ty |-> Plain(types), value |-> St(values), reader |-> Plain(types)]

Inner == <<T("U8"), Str(FALSE)>>
InnerValue == St(<<I(3), S(<<65>>)>>)
Pair == <<T("U32"), T("U64")>>
PairValue == St(<<I(33), I(44)>>)

UnionMembers ==
  <<T("U16"), Str(TRUE), Arr(T("U8"), FALSE), Boxed(Inner), MapOf(T("U8"), T("Bool"), FALSE)>>
UnionValues ==
  {U(0, I(513)), U(1, S(<<66, 67>>)), U(1, Null), U(2, Items(<<I(7)>>)), U(3, InnerValue),
   U(3, Null), U(4, [keys |-> <<I(1)>>, values |-> <<B(TRUE)>>])}

(* Messages that are also damaged.                                         *)
MCDamagedCases ==
  {Case(<<T("U8"), Str(FALSE), Str(TRUE), T("Bool")>>,
        <<I(1), S(<<65, 66, 67>>), S(<<>>), B(TRUE)>>),
   Case(<<Arr(Str(TRUE), FALSE), T("Handle")>>,
        <<Items(<<S(<<65>>), Null>>), [index |-> 0]>>),
   Case(<<MapOf(T("U8"), Boxed(Inner), TRUE)>>,
        <<[keys |-> <<I(1), I(2)>>, values |-> <<InnerValue, Null>>]>>),
   Case(<<Boxed(Inner), Boxed(Inner)>>, <<InnerValue, InnerValue>>),
   Case(<<Union(UnionMembers, FALSE, FALSE), Union(UnionMembers, FALSE, TRUE)>>,
        <<U(3, InnerValue), U(2, Items(<<I(7)>>))>>)}
    \cup {[Case(<<T("U32")>>, <<I(70000)>>) EXCEPT !.header = Header(v)] : v \in 1 .. 3}

CarriedCases ==
  {Case(<<T("Bool"), T("U8"), T("Bool"), T("Bool"), T("Bool"), T("Bool"), T("Bool"),
          T("Bool"), T("Bool"), T("Bool"), T("Bool"), T("U16")>>,
        <<B(TRUE), I(255), B(FALSE), B(TRUE), B(TRUE), B(FALSE), B(TRUE),
          B(FALSE), B(TRUE), B(FALSE), B(TRUE), I(770)>>),
   Case(<<>>, <<>>),
   Case(<<T("Enum"), T("Handle"), Iface, T("Handle"), T("AssociatedEndpoint"), AssocIface>>,
        <<I(2), [index |-> 0], [index |-> 1, version |-> 2],
          [index |-> ENCODED_INVALID_HANDLE_VALUE], [id |-> 4], [id |-> 5, version |-> 1]>>),
   Case(<<Arr(Arr(T("U16"), FALSE), FALSE), Arr(T("Bool"), TRUE), Arr(Boxed(Inner), TRUE)>>,
        <<Items(<<Items(<<I(1), I(2), I(3)>>), Items(<<>>)>>), Null,
          Items(<<InnerValue, Null>>)>>),
   Case(<<Arr(Plain(Inner), FALSE), Arr(MapOf(T("U8"), Str(FALSE), FALSE), FALSE)>>,
        <<Items(<<InnerValue, InnerValue>>),
          Items(<<[keys |-> <<I(9)>>, values |-> <<S(<<70>>)>>]>>)>>),
   Case(<<Optional(T("U32")), Optional(T("U8")), Optional(T("Bool"))>>,
        <<Present(I(5)), Absent, Absent>>),
   Case(<<T("U8"), Plain(Inner)>>, <<I(1), InnerValue>>),
   Case(<<T("U8"), Plain(<<>>), Str(TRUE)>>, <<I(1), St(<<>>), S(<<71>>)>>)}
    \cup {Case(<<Union(UnionMembers, FALSE, inlined), T("U8")>>, <<u, I(8)>>) :
            u \in UnionValues, inlined \in BOOLEAN}

(* What the format does not carry.                                         *)
LostCases ==
  {Case(<<Optional(T("Bool"))>>, <<Present(B(TRUE))>>),
   Case(<<T("Enum")>>, <<I(-1)>>),
   Case(<<Str(FALSE)>>, <<S(<<65, 0, 66>>)>>),
   Case(<<Plain(Pair), T("U64")>>, <<PairValue, I(55)>>),
   Case(<<Str(FALSE), Plain(Pair)>>, <<S(<<65>>), PairValue>>),
   Case(<<Union(<<Plain(Pair)>>, FALSE, FALSE)>>, <<U(0, PairValue)>>),
   Case(<<Union(UnionMembers, TRUE, TRUE)>>, <<Null>>),
   Case(<<Arr(Str(FALSE), FALSE)>>, <<Items(<<Null>>)>>),
   Case(<<Boxed(<<Boxed(<<Boxed(<<T("U8")>>)>>)>>)>>, <<St(<<St(<<St(<<I(1)>>)>>)>>)>>)}

-----------------------------------------------------------------------------
(* Every struct of up to three fields of these types.                      *)
Palette ==
  {<<T("Bool"), B(TRUE)>>, <<T("U8"), I(200)>>, <<T("U16"), I(51300)>>,
   <<T("U32"), I(100000)>>, <<T("U64"), I(100001)>>, <<Optional(T("U16")), Present(I(300))>>,
   <<AssocIface, [id |-> 8, version |-> 3]>>, <<Union(<<T("U8")>>, FALSE, TRUE), U(0, I(6))>>}

Column(rows, c) == [i \in DOMAIN rows |-> rows[i][c]]

PackedCases ==
  {Case(Column(rows, 1), Column(rows, 2)) :
     rows \in [1 .. 2 -> Palette] \cup [1 .. 3 -> Palette]}

(* Two fields of version 0 and two of version 1: sent in the new version   *)
(* to the old one, in the old to the new, and in the old by the new.       *)
Older == {<<T("Bool"), B(TRUE)>>, <<T("U8"), I(200)>>, <<T("U32"), I(100000)>>,
          <<Str(FALSE), S(<<72>>)>>}
Newer == {<<T("Bool"), B(TRUE)>>, <<T("U16"), I(51300)>>, <<T("U64"), I(100001)>>,
          <<Str(TRUE), S(<<73>>)>>, <<Optional(T("U8")), Present(I(17))>>}

OldSchema(old) == Plain(Column(old, 1))

NewSchema(old, new) ==
  StructOf(Fields(Column(old, 1), NoVersion) \o Fields(Column(new, 1), 1), FALSE)

NewValue(old, new) == [version |-> 1, fields |-> Column(old, 2) \o Column(new, 2)]

EvolutionCases ==
  UNION {{[header |-> Header(0), ty |-> NewSchema(old, new), value |-> NewValue(old, new),
           reader |-> OldSchema(old)],
          [header |-> Header(0), ty |-> OldSchema(old), value |-> St(Column(old, 2)),
           reader |-> NewSchema(old, new)],
          [header |-> Header(0), ty |-> NewSchema(old, new), value |-> NewValue(old, new),
           reader |-> NewSchema(old, new)]} :
           old \in [1 .. 2 -> Older], new \in [1 .. 2 -> Newer]}

MCCases == CarriedCases \cup LostCases \cup PackedCases \cup EvolutionCases

MCDamagedBytes == {0, 1, 8, 255}

(* The end of the address space, with room for no header or for one, the   *)
(* message header, and within the message.                                 *)
MCDamagedTargets == {-25, -24, -9, -8, -1, 0, 24, 32, 40, 64}
=============================================================================
