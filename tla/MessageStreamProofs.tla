------------------------ MODULE MessageStreamProofs ------------------------
(***************************************************************************)
(* What is proved of node messages over a channel: whatever frames are     *)
(* sent and however they are cut up, the reader gets each message with its *)
(* own descriptors (DescriptorsStay), and it tells the end of the stream   *)
(* from a truncation (CleanClose); and no frame, damaged or not, makes the *)
(* decoder read outside the payload or share a descriptor twice            *)
(* (DamageContained).                                                      *)
(*                                                                         *)
(* The first two rest on an invariant that places every word and every     *)
(* descriptor in the stream of all frames: `start` says at which word of   *)
(* it each frame begins, and socket, recv_buf, rights and fd_marks are     *)
(* what lies between the words sent and the words received.                *)
(***************************************************************************)
EXTENDS MessageStream, SequenceTheorems, WellFoundedInduction, TLAPS

(* Every non-empty set of numbers has a least one.                         *)
LEMMA LeastNumber ==
  ASSUME NEW T \in SUBSET Nat, T # {}
  PROVE  \E m \in T : \A k \in T : m <= k
<1> DEFINE R == OpToRel(<, Nat)
<1>1. IsWellFoundedOn(R, Nat)
  BY NatLessThanWellFounded
<1>2. \A x, y \in Nat : <<x, y>> \in R <=> x < y
  BY DEF OpToRel
<1> HIDE DEF R
<1>3. PICK m \in T : \A y \in T : <<y, m>> \notin R
  BY <1>1, WFMin
<1>4. ASSUME NEW k \in T PROVE m <= k
  <2>1. k \in Nat /\ m \in Nat
    OBVIOUS
  <2>2. <<k, m>> \notin R
    BY <1>3
  <2>3. ~(k < m)
    BY <1>2, <2>1, <2>2
  <2> QED BY <2>1, <2>3
<1> QED BY <1>4

(* f joins the sequences of g one after the other, up to the n-th.         *)
Joins(f, n, g) == f = [i \in 0..n |-> IF i = 0 THEN <<>> ELSE f[i - 1] \o g[i]]

LEMMA JoinsExists ==
  ASSUME NEW n \in Nat, NEW g
  PROVE  \E f : Joins(f, n, g)
<1> DEFINE T == {k \in Nat : ~ \E f : Joins(f, k, g)}
<1> SUFFICES ASSUME T # {} PROVE FALSE
  OBVIOUS
<1>1. PICK m \in T : \A k \in T : m <= k
  BY LeastNumber
<1>2. CASE m = 0
  <2> DEFINE f == [i \in 0..0 |-> <<>>]
  <2>1. Joins(f, 0, g)
    BY DEF Joins
  <2> QED BY <1>2, <2>1
<1>3. CASE m # 0
  <2>1. m - 1 \in Nat /\ m - 1 \notin T
    BY <1>1, <1>3
  <2>2. PICK f : Joins(f, m - 1, g)
    BY <2>1
  <2> DEFINE h == [i \in 0..m |-> IF i = m THEN f[m - 1] \o g[m] ELSE f[i]]
  <2>3. ASSUME NEW i \in 0..m
        PROVE  h[i] = IF i = 0 THEN <<>> ELSE h[i - 1] \o g[i]
    <3>1. CASE i = m
      BY <3>1, <1>3
    <3>2. CASE i # m
      <4>1. i \in 0..(m - 1) /\ (i # 0 => i - 1 \in 0..(m - 1))
        BY <3>2
      <4>2. f[i] = IF i = 0 THEN <<>> ELSE f[i - 1] \o g[i]
        BY <4>1, <2>2 DEF Joins
      <4>3. h[i] = f[i] /\ (i # 0 => h[i - 1] = f[i - 1])
        BY <3>2, <4>1
      <4> HIDE DEF h
      <4> QED BY <4>2, <4>3
    <3> QED BY <3>1, <3>2
  <2>4. h = [i \in 0..m |-> h[i]]
    OBVIOUS
  <2> HIDE DEF h
  <2>5. Joins(h, m, g)
    BY <2>3, <2>4 DEF Joins
  <2> QED BY <2>5
<1> QED BY <1>2, <1>3

LEMMA JoinsType ==
  ASSUME NEW S, NEW n \in Nat, NEW g, \A i \in 1..n : g[i] \in Seq(S),
         NEW f, Joins(f, n, g)
  PROVE  \A i \in 0..n : f[i] \in Seq(S)
<1> DEFINE T == {k \in 0..n : f[k] \notin Seq(S)}
<1> SUFFICES ASSUME T # {} PROVE FALSE
  OBVIOUS
<1>0. T \in SUBSET Nat /\ \A k : k \in T <=> k \in 0..n /\ f[k] \notin Seq(S)
  OBVIOUS
<1> HIDE DEF T
<1>1. PICK m \in T : \A k \in T : m <= k
  BY <1>0, LeastNumber
<1>2. f[m] = IF m = 0 THEN <<>> ELSE f[m - 1] \o g[m]
  BY <1>0 DEF Joins
<1>3. CASE m = 0
  <2>1. f[m] \notin Seq(S) /\ f[m] = <<>>
    BY <1>0, <1>2, <1>3
  <2> QED BY <2>1, EmptySeq
<1>4. CASE m # 0
  <2>1. m - 1 \in 0..n /\ m \in 1..n /\ ~(m <= m - 1)
    BY <1>0, <1>4
  <2>2. m - 1 \notin T
    BY <1>1, <2>1
  <2>3. f[m - 1] \in Seq(S) /\ g[m] \in Seq(S)
    BY <1>0, <2>1, <2>2
  <2>4. f[m - 1] \o g[m] \in Seq(S)
    BY <2>3, ConcatProperties
  <2>5. f[m] \notin Seq(S)
    BY <1>0
  <2> QED BY <1>2, <1>4, <2>4, <2>5
<1> QED BY <1>3, <1>4

-----------------------------------------------------------------------------
(* What the encoders write.                                                *)

LEMMA ZerosType == \A n \in Int : Zeros(n) \in Seq(Int)
<1> SUFFICES ASSUME NEW n \in Int PROVE Zeros(n) \in Seq(Int)
  OBVIOUS
<1>1. CASE n >= 0
  BY <1>1 DEF Zeros
<1>2. CASE n < 0
  <2>1. Zeros(n) = <<>>
    BY <1>2 DEF Zeros
  <2> QED BY <2>1
<1> QED BY <1>1, <1>2

LEMMA AlignType == \A n \in Int : align8(n) \in Int
BY DEF align8

LEMMA ParamsType ==
  ASSUME NEW fields \in Seq(Int)
  PROVE  append_params(fields) \in Seq(Int)
<1> DEFINE padded == align8(8 + 4 * Len(fields))
           zeros == Zeros((padded - 8) \div 4 - Len(fields))
<1>1. padded \in Int
  BY AlignType
<1> HIDE DEF padded
<1>2. zeros \in Seq(Int)
  BY <1>1, ZerosType
<1>3. <<padded, 0>> \in Seq(Int)
  BY <1>1
<1> HIDE DEF zeros
<1>4. append_params(fields) = <<padded, 0>> \o fields \o zeros
  BY DEF append_params, padded, zeros
<1>5. <<padded, 0>> \o fields \in Seq(Int)
  BY <1>3
<1> QED BY <1>2, <1>4, <1>5

LEMMA ArrayType ==
  ASSUME NEW words \in Seq(Int), NEW elements \in Int
  PROVE  append_array(words, elements) \in Seq(Int)
<1> DEFINE padded == align8(8 + 4 * Len(words))
           zeros == Zeros((padded - 8) \div 4 - Len(words))
<1>1. padded \in Int
  BY AlignType
<1> HIDE DEF padded
<1>2. zeros \in Seq(Int)
  BY <1>1, ZerosType
<1>3. <<padded, elements>> \in Seq(Int)
  BY <1>1
<1> HIDE DEF zeros
<1>4. append_array(words, elements) = IF words = <<>> THEN <<>>
                                      ELSE <<padded, elements>> \o words \o zeros
  BY DEF append_array, padded, zeros
<1>5. <<padded, elements>> \o words \in Seq(Int)
  BY <1>3
<1> QED BY <1>2, <1>4, <1>5

(* The offsets of the data of objects: h is how far each one reaches.      *)
Offsets(f, n, c, h) == f = [i \in 1..n |-> IF i = 1 THEN c ELSE f[i - 1] + h[i - 1]]

LEMMA OffsetsExist ==
  ASSUME NEW n \in Nat, NEW c, NEW h
  PROVE  \E f : Offsets(f, n, c, h)
<1> DEFINE T == {k \in Nat : ~ \E f : Offsets(f, k, c, h)}
<1> SUFFICES ASSUME T # {} PROVE FALSE
  OBVIOUS
<1>1. PICK m \in T : \A k \in T : m <= k
  BY LeastNumber
<1>2. CASE m \in {0, 1}
  <2> DEFINE f == [i \in 1..m |-> c]
  <2>1. f = [i \in 1..m |-> IF i = 1 THEN c ELSE f[i - 1] + h[i - 1]]
    BY <1>2
  <2>2. Offsets(f, m, c, h)
    BY <2>1 DEF Offsets
  <2> QED BY <2>2
<1>3. CASE m \notin {0, 1}
  <2>1. m - 1 \in Nat /\ m - 1 \notin T
    BY <1>1, <1>3
  <2>2. PICK f : Offsets(f, m - 1, c, h)
    BY <2>1
  <2> DEFINE e == [i \in 1..m |-> IF i = m THEN f[m - 1] + h[m - 1] ELSE f[i]]
  <2>3. ASSUME NEW i \in 1..m
        PROVE  e[i] = IF i = 1 THEN c ELSE e[i - 1] + h[i - 1]
    <3>1. CASE i = m
      <4>1. e[i] = f[m - 1] + h[m - 1] /\ e[i - 1] = f[i - 1] /\ i # 1
        BY <3>1, <1>3
      <4> QED BY <4>1, <3>1
    <3>2. CASE i # m
      <4>1. i \in 1..(m - 1) /\ (i # 1 => i - 1 \in 1..(m - 1))
        BY <3>2
      <4>2. f[i] = IF i = 1 THEN c ELSE f[i - 1] + h[i - 1]
        BY <4>1, <2>2 DEF Offsets
      <4>3. e[i] = f[i] /\ (i # 1 => e[i - 1] = f[i - 1])
        BY <3>2, <4>1
      <4> HIDE DEF e
      <4> QED BY <4>2, <4>3
    <3> QED BY <3>1, <3>2
  <2>4. e = [i \in 1..m |-> e[i]]
    OBVIOUS
  <2> HIDE DEF e
  <2>5. Offsets(e, m, c, h)
    BY <2>3, <2>4 DEF Offsets
  <2> QED BY <2>5
<1> QED BY <1>2, <1>3

LEMMA OffsetsType ==
  ASSUME NEW n \in Nat, NEW c \in Int, NEW h, \A i \in 1..n : h[i] \in Int,
         NEW f, Offsets(f, n, c, h)
  PROVE  \A i \in 1..n : f[i] \in Int
<1> DEFINE T == {k \in 1..n : f[k] \notin Int}
<1> SUFFICES ASSUME T # {} PROVE FALSE
  OBVIOUS
<1>0. T \in SUBSET Nat /\ \A k : k \in T <=> k \in 1..n /\ f[k] \notin Int
  OBVIOUS
<1> HIDE DEF T
<1>1. PICK m \in T : \A k \in T : m <= k
  BY <1>0, LeastNumber
<1>2. f[m] = IF m = 1 THEN c ELSE f[m - 1] + h[m - 1]
  BY <1>0 DEF Offsets
<1>3. CASE m = 1
  BY <1>0, <1>2, <1>3
<1>4. CASE m # 1
  <2>1. m - 1 \in 1..n /\ ~(m <= m - 1)
    BY <1>0, <1>4
  <2>2. m - 1 \notin T
    BY <1>1, <2>1
  <2>3. f[m - 1] \in Int /\ h[m - 1] \in Int
    BY <1>0, <2>1, <2>2
  <2> QED BY <1>0, <1>2, <1>4, <2>3
<1> QED BY <1>3, <1>4

LEMMA EntriesType ==
  ASSUME NEW base \in Int, NEW objects \in Seq(Seq(Int))
  PROVE  ObjectEntries(base, objects) \in Seq(Int)
<1> DEFINE n == Len(objects)
           c == base + align8(8 + 8 * n)
           h == [i \in 1..n |-> align8(8 + 4 * Len(objects[i]))]
           IsD(f) == f = [i \in 1..n |-> IF i = 1 THEN c
                            ELSE f[i - 1] + align8(8 + 4 * Len(objects[i - 1]))]
           D == CHOOSE f : IsD(f)
           P(i) == <<IF objects[i] = <<>> THEN 0 ELSE D[i], (i - 1) + 65536>>
           g == [i \in 1..n |-> P(i)]
           IsE(f) == f = [i \in 0..n |-> IF i = 0 THEN <<>> ELSE f[i - 1] \o P(i)]
           E == CHOOSE f : IsE(f)
<1>0. n \in Nat /\ \A i \in 1..n : Len(objects[i]) \in Nat /\ 8 + 4 * Len(objects[i]) \in Int
  OBVIOUS
<1>1. c \in Int /\ \A i \in 1..n : h[i] \in Int
  <2>1. align8(8 + 8 * n) \in Int
    BY <1>0, AlignType
  <2>2. \A i \in 1..n : align8(8 + 4 * Len(objects[i])) \in Int
    BY <1>0, AlignType
  <2> QED BY <2>1, <2>2
<1>2. ObjectEntries(base, objects) = E[n]
  BY DEF ObjectEntries
<1>3. Offsets(D, n, c, h)
  <2>1. ASSUME NEW f PROVE Offsets(f, n, c, h) <=> IsD(f)
    <3>1. \A i \in 1..n : i # 1 => h[i - 1] = align8(8 + 4 * Len(objects[i - 1]))
      BY <1>0
    <3> HIDE DEF h, c, n
    <3>2. [i \in 1..n |-> IF i = 1 THEN c ELSE f[i - 1] + h[i - 1]]
            = [i \in 1..n |-> IF i = 1 THEN c
                              ELSE f[i - 1] + align8(8 + 4 * Len(objects[i - 1]))]
      BY <3>1
    <3> QED BY <3>2 DEF Offsets
  <2> HIDE DEF IsD, c, h, n
  <2>2. \E f : IsD(f)
    BY <1>0, <2>1, OffsetsExist
  <2>3. IsD(D)
    BY <2>2
  <2> QED BY <2>1, <2>3
<1> HIDE DEF c, D, IsD, h
<1>4. \A i \in 1..n : D[i] \in Int
  BY <1>0, <1>1, <1>3, OffsetsType
<1>5. \A i \in 1..n : g[i] \in Seq(Int)
  BY <1>0, <1>4
<1>6. Joins(E, n, g)
  <2>1. ASSUME NEW f PROVE Joins(f, n, g) <=> IsE(f)
    <3> HIDE DEF P
    <3>1. \A i \in 0..n : i # 0 => g[i] = P(i)
      BY <1>0
    <3> HIDE DEF g, n
    <3>2. [i \in 0..n |-> IF i = 0 THEN <<>> ELSE f[i - 1] \o g[i]]
            = [i \in 0..n |-> IF i = 0 THEN <<>> ELSE f[i - 1] \o P(i)]
      BY <3>1
    <3> QED BY <3>2 DEF Joins
  <2> HIDE DEF IsE, g, n
  <2>2. \E f : IsE(f)
    BY <1>0, <2>1, JoinsExists
  <2>3. IsE(E)
    BY <2>2
  <2> QED BY <2>1, <2>3
<1> HIDE DEF E, IsE, g, n, P
<1>7. n \in 0..n
  BY <1>0
<1> QED BY <1>0, <1>2, <1>5, <1>6, <1>7, JoinsType

LEMMA ObjectsType ==
  ASSUME NEW base \in Int, NEW objects \in Seq(Seq(Int))
  PROVE  append_driver_objects(base, objects) \in Seq(Int)
<1> DEFINE n == Len(objects)
           g == [i \in 1..n |-> append_array(objects[i], 4 * Len(objects[i]))]
           IsD(f) == f = [i \in 0..n |-> IF i = 0 THEN <<>>
                       ELSE f[i - 1] \o append_array(objects[i], 4 * Len(objects[i]))]
           D == CHOOSE f : IsD(f)
           head == append_array(ObjectEntries(base, objects), Len(objects))
<1>0. /\ n \in Nat
      /\ \A i \in 1..n : objects[i] \in Seq(Int) /\ 4 * Len(objects[i]) \in Int
  OBVIOUS
<1>1. append_driver_objects(base, objects) = head \o D[n]
  BY DEF append_driver_objects
<1>2. head \in Seq(Int)
  BY <1>0, EntriesType, ArrayType
<1>3. \A i \in 1..n : g[i] \in Seq(Int)
  <2>1. \A i \in 1..n : append_array(objects[i], 4 * Len(objects[i])) \in Seq(Int)
    BY <1>0, ArrayType
  <2> QED BY <2>1
<1>4. Joins(D, n, g)
  <2>1. ASSUME NEW f PROVE Joins(f, n, g) <=> IsD(f)
    <3>1. \A i \in 0..n : i # 0 => g[i] = append_array(objects[i], 4 * Len(objects[i]))
      BY <1>0
    <3> HIDE DEF g, n
    <3>2. [i \in 0..n |-> IF i = 0 THEN <<>> ELSE f[i - 1] \o g[i]]
            = [i \in 0..n |-> IF i = 0 THEN <<>>
                 ELSE f[i - 1] \o append_array(objects[i], 4 * Len(objects[i]))]
      BY <3>1
    <3> QED BY <3>2 DEF Joins
  <2> HIDE DEF IsD, g, n
  <2>2. \E f : IsD(f)
    BY <1>0, <2>1, JoinsExists
  <2>3. IsD(D)
    BY <2>2
  <2> QED BY <2>1, <2>3
<1> HIDE DEF D, IsD, g, n, head
<1>5. n \in 0..n
  BY <1>0
<1>6. D[n] \in Seq(Int)
  BY <1>0, <1>3, <1>4, <1>5, JoinsType
<1> QED BY <1>1, <1>2, <1>6

(* A message, once its parameters and arrays are sequences of words, is    *)
(* one; and it has a header.                                               *)
LEMMA BuiltType ==
  ASSUME NEW kind \in Kinds, NEW body \in Seq(Int), NEW objects \in Seq(Seq(Int))
  PROVE  Built(kind, body, objects) \in Seq(Int) /\ Len(Built(kind, body, objects)) >= 6
<1> DEFINE base == MESSAGE_HEADER_SIZE + 4 * Len(body)
           doa == IF objects = <<>> THEN 0 ELSE base
           header == <<MESSAGE_HEADER_SIZE + 65536 * message_id[kind], 0, 0, 0, doa, 0>>
           rest == body \o append_driver_objects(base, objects)
<1>1. base \in Int /\ doa \in Int
  BY DEF MESSAGE_HEADER_SIZE
<1> HIDE DEF base, doa
<1>2. rest \in Seq(Int)
  BY <1>1, ObjectsType
<1>3. message_id[kind] \in Int
  <2>1. \A k \in DOMAIN message_id : message_id[k] \in Int
    BY SMTT(60) DEF message_id
  <2>2. kind \in DOMAIN message_id
    <3>1. CASE kind \in DOMAIN ConnectStructs
      BY <3>1 DEF message_id, ConnectStructs
    <3>2. CASE kind \in DOMAIN IntroductionStructs
      BY <3>2 DEF message_id, IntroductionStructs
    <3>3. CASE kind \in DOMAIN ParcelStructs
      BY <3>3 DEF message_id, ParcelStructs
    <3>4. CASE kind \in DOMAIN RouteStructs
      BY <3>4 DEF message_id, RouteStructs
    <3>5. CASE kind \in DOMAIN MemoryStructs
      BY <3>5 DEF message_id, MemoryStructs
    <3> QED BY <3>1, <3>2, <3>3, <3>4, <3>5 DEF Kinds
  <2> QED BY <2>1, <2>2
<1>4. header \in Seq(Int) /\ Len(header) = 6
  BY <1>1, <1>3 DEF MESSAGE_HEADER_SIZE
<1> HIDE DEF header, rest
<1>5. Built(kind, body, objects) = header \o rest
  BY DEF Built, build, header, rest, base, doa
<1>6. /\ header \o rest \in Seq(Int) /\ Len(rest) \in Nat
      /\ Len(header \o rest) = Len(header) + Len(rest)
  BY <1>2, <1>4, ConcatProperties, LenProperties
<1> QED BY <1>4, <1>5, <1>6

LEMMA GroupsApart ==
  /\ DOMAIN ConnectStructs \cap DOMAIN IntroductionStructs = {}
  /\ DOMAIN ConnectStructs \cap DOMAIN ParcelStructs = {}
  /\ DOMAIN ConnectStructs \cap DOMAIN RouteStructs = {}
  /\ DOMAIN ConnectStructs \cap DOMAIN MemoryStructs = {}
  /\ DOMAIN IntroductionStructs \cap DOMAIN ParcelStructs = {}
  /\ DOMAIN IntroductionStructs \cap DOMAIN RouteStructs = {}
  /\ DOMAIN IntroductionStructs \cap DOMAIN MemoryStructs = {}
  /\ DOMAIN ParcelStructs \cap DOMAIN RouteStructs = {}
  /\ DOMAIN ParcelStructs \cap DOMAIN MemoryStructs = {}
  /\ DOMAIN RouteStructs \cap DOMAIN MemoryStructs = {}
<1>1. /\ DOMAIN ConnectStructs \cap DOMAIN IntroductionStructs = {}
      /\ DOMAIN ConnectStructs \cap DOMAIN ParcelStructs = {}
      /\ DOMAIN ConnectStructs \cap DOMAIN RouteStructs = {}
      /\ DOMAIN ConnectStructs \cap DOMAIN MemoryStructs = {}
  BY DEF ConnectStructs, IntroductionStructs, ParcelStructs, RouteStructs, MemoryStructs
<1>2. /\ DOMAIN IntroductionStructs \cap DOMAIN ParcelStructs = {}
      /\ DOMAIN IntroductionStructs \cap DOMAIN RouteStructs = {}
      /\ DOMAIN IntroductionStructs \cap DOMAIN MemoryStructs = {}
  BY DEF IntroductionStructs, ParcelStructs, RouteStructs, MemoryStructs
<1>3. /\ DOMAIN ParcelStructs \cap DOMAIN RouteStructs = {}
      /\ DOMAIN ParcelStructs \cap DOMAIN MemoryStructs = {}
      /\ DOMAIN RouteStructs \cap DOMAIN MemoryStructs = {}
  BY DEF ParcelStructs, RouteStructs, MemoryStructs
<1> QED BY <1>1, <1>2, <1>3

(* The struct of a kind.                                                   *)
LEMMA StructOf ==
  ASSUME NEW k \in Kinds
  PROVE  /\ k \in DOMAIN ConnectStructs => Structs[k] = ConnectStructs[k]
         /\ k \in DOMAIN IntroductionStructs => Structs[k] = IntroductionStructs[k]
         /\ k \in DOMAIN ParcelStructs => Structs[k] = ParcelStructs[k]
         /\ k \in DOMAIN RouteStructs => Structs[k] = RouteStructs[k]
         /\ k \in DOMAIN MemoryStructs => Structs[k] = MemoryStructs[k]
BY GroupsApart DEF Structs

(* A field is a sequence of words.                                         *)
LEMMA WordsType ==
  ASSUME NEW n \in Nat, NEW x \in Words(n)
  PROVE  x \in Seq(Int) /\ Len(x) = n
BY DEF Words

LEMMA FieldType ==
  ASSUME NEW m, IsMessage(m)
  PROVE  \A n \in Structs[m.kind] : m.f[n] \in Seq(Int)
<1> SUFFICES ASSUME NEW n \in Structs[m.kind] PROVE m.f[n] \in Seq(Int)
  OBVIOUS
<1>1. Width(n) \in Nat
  BY DEF Width
<1>2. m.f[n] \in Words(Width(n))
  BY DEF IsMessage
<1> QED BY <1>1, <1>2, WordsType

(* Several fields in a row.                                                *)
LEMMA Row2 ==
  ASSUME NEW a \in Seq(Int), NEW b \in Seq(Int)
  PROVE  a \o b \in Seq(Int)
OBVIOUS

LEMMA Row3 ==
  ASSUME NEW a \in Seq(Int), NEW b \in Seq(Int), NEW c \in Seq(Int)
  PROVE  a \o b \o c \in Seq(Int)
BY Row2, Row2

LEMMA Row4 ==
  ASSUME NEW a \in Seq(Int), NEW b \in Seq(Int), NEW c \in Seq(Int), NEW d
         \in Seq(Int)
  PROVE  a \o b \o c \o d \in Seq(Int)
BY Row3, Row2

LEMMA Row5 ==
  ASSUME NEW a \in Seq(Int), NEW b \in Seq(Int), NEW c \in Seq(Int), NEW d
         \in Seq(Int), NEW e \in Seq(Int)
  PROVE  a \o b \o c \o d \o e \in Seq(Int)
BY Row4, Row2

LEMMA Row6 ==
  ASSUME NEW a \in Seq(Int), NEW b \in Seq(Int), NEW c \in Seq(Int), NEW d
         \in Seq(Int), NEW e \in Seq(Int), NEW f \in Seq(Int)
  PROVE  a \o b \o c \o d \o e \o f \in Seq(Int)
BY Row5, Row2

LEMMA Row7 ==
  ASSUME NEW a \in Seq(Int), NEW b \in Seq(Int), NEW c \in Seq(Int), NEW d
         \in Seq(Int), NEW e \in Seq(Int), NEW f \in Seq(Int), NEW
         g \in Seq(Int)
  PROVE  a \o b \o c \o d \o e \o f \o g \in Seq(Int)
BY Row6, Row2

LEMMA Row8 ==
  ASSUME NEW a \in Seq(Int), NEW b \in Seq(Int), NEW c \in Seq(Int), NEW d
         \in Seq(Int), NEW e \in Seq(Int), NEW f \in Seq(Int), NEW
         g \in Seq(Int), NEW h \in Seq(Int)
  PROVE  a \o b \o c \o d \o e \o f \o g \o h \in Seq(Int)
BY Row7, Row2

LEMMA Row9 ==
  ASSUME NEW a \in Seq(Int), NEW b \in Seq(Int), NEW c \in Seq(Int), NEW d
         \in Seq(Int), NEW e \in Seq(Int), NEW f \in Seq(Int), NEW
         g \in Seq(Int), NEW h \in Seq(Int), NEW i \in Seq(Int)
  PROVE  a \o b \o c \o d \o e \o f \o g \o h \o i \in Seq(Int)
BY Row8, Row2

LEMMA Row10 ==
  ASSUME NEW a \in Seq(Int), NEW b \in Seq(Int), NEW c \in Seq(Int), NEW d
         \in Seq(Int), NEW e \in Seq(Int), NEW f \in Seq(Int), NEW
         g \in Seq(Int), NEW h \in Seq(Int), NEW i \in Seq(Int),
         NEW j \in Seq(Int)
  PROVE  a \o b \o c \o d \o e \o f \o g \o h \o i \o j \in Seq(Int)
BY Row9, Row2

(* The fields of a message, whichever the struct of its kind has.          *)
LEMMA PeerFieldsType ==
  ASSUME NEW m, IsMessage(m), m.kind \in PeerKinds
  PROVE  PeerFields(m) \in Seq(Int)
<1>1. \A n \in ConnectStructs[m.kind] : m.f[n] \in Seq(Int)
  <2>1. m.kind \in DOMAIN ConnectStructs /\ m.kind \in Kinds
    BY DEF ConnectStructs, PeerKinds, IsMessage
  <2> QED BY <2>1, FieldType, StructOf
<1>2. <<0>> \in Seq(Int)
  OBVIOUS
<1>3. CASE m.kind = "ConnectFromBrokerToNonBroker"
  <2>1. /\ m.f.broker_name \in Seq(Int) /\ m.f.receiver_name \in Seq(Int)
         /\ m.f.protocol_version \in Seq(Int)
         /\ m.f.num_initial_portals \in Seq(Int)
         /\ m.f.buffer_index \in Seq(Int)
    BY <1>1, <1>3 DEF ConnectStructs
  <2>2. PeerFields(m) = m.f.broker_name \o m.f.receiver_name
                         \o m.f.protocol_version \o m.f.num_initial_portals
                         \o m.f.buffer_index \o <<0>>
    BY <1>3 DEF PeerFields
  <2> QED BY <1>2, <2>1, <2>2, Row6
<1>4. CASE m.kind = "ConnectToReferredNonBroker"
  <2>1. /\ m.f.name \in Seq(Int) /\ m.f.broker_name \in Seq(Int)
         /\ m.f.referrer_name \in Seq(Int)
         /\ m.f.broker_protocol_version \in Seq(Int)
         /\ m.f.referrer_protocol_version \in Seq(Int)
         /\ m.f.num_initial_portals \in Seq(Int)
         /\ m.f.broker_link_buffer_index \in Seq(Int)
         /\ m.f.referrer_link_transport_index \in Seq(Int)
         /\ m.f.referrer_link_buffer_index \in Seq(Int)
    BY <1>1, <1>4, SMTT(30) DEF ConnectStructs
  <2>2. PeerFields(m) = m.f.name \o m.f.broker_name \o m.f.referrer_name
                         \o m.f.broker_protocol_version
                         \o m.f.referrer_protocol_version
                         \o m.f.num_initial_portals
                         \o m.f.broker_link_buffer_index
                         \o m.f.referrer_link_transport_index
                         \o m.f.referrer_link_buffer_index
    BY <1>4 DEF PeerFields
  <2>3. m.f.name \o m.f.broker_name \o m.f.referrer_name
          \o m.f.broker_protocol_version \o m.f.referrer_protocol_version
          \o m.f.num_initial_portals \o m.f.broker_link_buffer_index
          \o m.f.referrer_link_transport_index \o m.f.referrer_link_buffer_index \in Seq(Int)
    BY <2>1, Row9
  <2> QED BY <2>2, <2>3
<1>5. CASE m.kind = "NonBrokerReferralAccepted"
  <2>1. /\ m.f.referral_id \in Seq(Int) /\ m.f.protocol_version \in Seq(Int)
         /\ m.f.num_initial_portals \in Seq(Int) /\ m.f.name \in Seq(Int)
         /\ m.f.transport_index \in Seq(Int) /\ m.f.buffer_index \in Seq(Int)
    BY <1>1, <1>5, SMTT(30) DEF ConnectStructs
  <2>2. PeerFields(m) = m.f.referral_id \o m.f.protocol_version
                         \o m.f.num_initial_portals \o m.f.name
                         \o m.f.transport_index \o m.f.buffer_index
    BY <1>5 DEF PeerFields
  <2> QED BY <1>2, <2>1, <2>2, Row6
<1>6. CASE m.kind = "NonBrokerReferralRejected"
  <2>1. /\ m.f.referral_id \in Seq(Int)
    BY <1>1, <1>6 DEF ConnectStructs
  <2>2. PeerFields(m) = m.f.referral_id
    BY <1>6 DEF PeerFields
  <2> QED BY <1>2, <2>1, <2>2
<1>7. CASE m.kind = "ConnectFromBrokerToBroker"
  <2>1. /\ m.f.name \in Seq(Int) /\ m.f.protocol_version \in Seq(Int)
         /\ m.f.num_initial_portals \in Seq(Int)
         /\ m.f.buffer_index \in Seq(Int)
    BY <1>1, <1>7 DEF ConnectStructs
  <2>2. PeerFields(m) = m.f.name \o m.f.protocol_version
                         \o m.f.num_initial_portals \o m.f.buffer_index
                         \o <<0>>
    BY <1>7 DEF PeerFields
  <2> QED BY <1>2, <2>1, <2>2, Row5
<1> QED BY <1>3, <1>4, <1>5, <1>6, <1>7 DEF PeerKinds

LEMMA RouteFieldsType ==
  ASSUME NEW m, IsMessage(m), m.kind \in DOMAIN RouteStructs
  PROVE  RouteFields(m) \in Seq(Int)
<1>1. \A n \in RouteStructs[m.kind] : m.f[n] \in Seq(Int)
  <2>1. m.kind \in Kinds
    BY DEF IsMessage
  <2> QED BY <2>1, FieldType, StructOf
<1>2. Zeros(2) \in Seq(Int)
  BY ZerosType
<1>3. CASE m.kind = "RouteDisconnected"
  <2>1. /\ m.f.sublink \in Seq(Int)
    BY <1>1, <1>3 DEF RouteStructs
  <2>2. RouteFields(m) = m.f.sublink
    BY <1>3 DEF RouteFields
  <2> QED BY <1>2, <2>1, <2>2
<1>4. CASE m.kind = "FlushRouter"
  <2>1. /\ m.f.sublink \in Seq(Int)
    BY <1>1, <1>4 DEF RouteStructs
  <2>2. RouteFields(m) = m.f.sublink
    BY <1>4 DEF RouteFields
  <2> QED BY <1>2, <2>1, <2>2
<1>5. CASE m.kind = "RouteClosed"
  <2>1. /\ m.f.sublink \in Seq(Int) /\ m.f.sequence_length \in Seq(Int)
    BY <1>1, <1>5 DEF RouteStructs
  <2>2. RouteFields(m) = m.f.sublink \o m.f.sequence_length
    BY <1>5 DEF RouteFields
  <2> QED BY <1>2, <2>1, <2>2, Row2
<1>6. CASE m.kind = "StopProxyingToLocalPeer"
  <2>1. /\ m.f.sublink \in Seq(Int)
         /\ m.f.outbound_sequence_length \in Seq(Int)
    BY <1>1, <1>6 DEF RouteStructs
  <2>2. RouteFields(m) = m.f.sublink \o m.f.outbound_sequence_length
    BY <1>6 DEF RouteFields
  <2> QED BY <1>2, <2>1, <2>2, Row2
<1>7. CASE m.kind = "BypassPeerWithLink"
  <2>1. /\ m.f.sublink \in Seq(Int) /\ m.f.new_sublink \in Seq(Int)
         /\ m.f.new_link_state_fragment \in Seq(Int)
         /\ m.f.inbound_sequence_length \in Seq(Int)
    BY <1>1, <1>7 DEF RouteStructs
  <2>2. RouteFields(m) = m.f.sublink \o m.f.new_sublink
                          \o m.f.new_link_state_fragment
                          \o m.f.inbound_sequence_length
    BY <1>7 DEF RouteFields
  <2> QED BY <1>2, <2>1, <2>2, Row4
<1>8. CASE m.kind = "BypassPeer"
  <2>1. /\ m.f.sublink \in Seq(Int) /\ m.f.bypass_target_node \in Seq(Int)
         /\ m.f.bypass_target_sublink \in Seq(Int)
    BY <1>1, <1>8 DEF RouteStructs
  <2>2. RouteFields(m) = m.f.sublink \o Zeros(2) \o m.f.bypass_target_node
                          \o m.f.bypass_target_sublink
    BY <1>8 DEF RouteFields
  <2> QED BY <1>2, <2>1, <2>2, Row4
<1>9. CASE m.kind = "AcceptBypassLink"
  <2>1. /\ m.f.current_peer_node \in Seq(Int)
         /\ m.f.current_peer_sublink \in Seq(Int)
         /\ m.f.inbound_sequence_length_from_bypassed_link \in Seq(Int)
         /\ m.f.new_sublink \in Seq(Int)
         /\ m.f.new_link_state_fragment \in Seq(Int)
    BY <1>1, <1>9 DEF RouteStructs
  <2>2. RouteFields(m) = m.f.current_peer_node \o m.f.current_peer_sublink
                          \o m.f.inbound_sequence_length_from_bypassed_link
                          \o m.f.new_sublink \o m.f.new_link_state_fragment
    BY <1>9 DEF RouteFields
  <2> QED BY <1>2, <2>1, <2>2, Row5
<1>10. CASE m.kind = "StopProxying"
  <2>1. /\ m.f.sublink \in Seq(Int)
         /\ m.f.inbound_sequence_length \in Seq(Int)
         /\ m.f.outbound_sequence_length \in Seq(Int)
    BY <1>1, <1>10 DEF RouteStructs
  <2>2. RouteFields(m) = m.f.sublink \o m.f.inbound_sequence_length
                          \o m.f.outbound_sequence_length
    BY <1>10 DEF RouteFields
  <2> QED BY <1>2, <2>1, <2>2, Row3
<1>11. CASE m.kind = "ProxyWillStop"
  <2>1. /\ m.f.sublink \in Seq(Int)
         /\ m.f.inbound_sequence_length \in Seq(Int)
    BY <1>1, <1>11 DEF RouteStructs
  <2>2. RouteFields(m) = m.f.sublink \o m.f.inbound_sequence_length
    BY <1>11 DEF RouteFields
  <2> QED BY <1>2, <2>1, <2>2, Row2
<1> QED BY <1>3, <1>4, <1>5, <1>6, <1>7, <1>8, <1>9, <1>10, <1>11 DEF RouteStructs

(* The feature bits behind the parameters, and the router descriptors.     *)
LEMMA FeaturesType ==
  ASSUME NEW fields \in Seq(Int), NEW features \in Seq(Int)
  PROVE  WithFeatures(fields, features) \in Seq(Int)
<1>1. FeaturesOffset(fields) \in Int
  BY AlignType DEF FeaturesOffset, MESSAGE_HEADER_SIZE
<1>2. Append(fields, FeaturesOffset(fields)) \in Seq(Int)
  BY <1>1
<1>3. append_params(Append(fields, FeaturesOffset(fields))) \in Seq(Int)
  BY <1>2, ParamsType
<1>4. append_array(features, 1) \in Seq(Int)
  BY ArrayType
<1> QED BY <1>3, <1>4, Row2 DEF WithFeatures

LEMMA RouterType ==
  ASSUME NEW d \in RouterDescriptors
  PROVE  RouterDescriptorEncode(d) \in Seq(Int)
<1>1. /\ d.closed_peer_sequence_length \in Seq(Int) /\ d.new_sublink \in Seq(Int)
      /\ d.new_link_state_fragment \in Seq(Int) /\ d.new_decaying_sublink \in Seq(Int)
      /\ d.next_outgoing_sequence_number \in Seq(Int)
      /\ d.next_incoming_sequence_number \in Seq(Int)
      /\ d.decaying_incoming_sequence_length \in Seq(Int)
      /\ d.proxy_peer_node_name \in Seq(Int) /\ d.proxy_peer_sublink \in Seq(Int)
  <2>1. \A n \in Nat : \A x \in Words(n) : x \in Seq(Int)
    BY WordsType
  <2>2. Words(2) \subseteq Seq(Int) /\ Words(4) \subseteq Seq(Int)
    BY <2>1
  <2> QED BY <2>2 DEF RouterDescriptors
<1> DEFINE flags == (IF d.peer_closed THEN 1 ELSE 0)
                      + (IF d.proxy_already_bypassed THEN 2 ELSE 0)
<1>2. <<flags, 0>> \in Seq(Int)
  OBVIOUS
<1> HIDE DEF flags
<1>3. RouterDescriptorEncode(d)
        = d.closed_peer_sequence_length \o d.new_sublink \o d.new_link_state_fragment
            \o d.new_decaying_sublink \o d.next_outgoing_sequence_number
            \o d.next_incoming_sequence_number \o d.decaying_incoming_sequence_length
            \o <<flags, 0>> \o d.proxy_peer_node_name \o d.proxy_peer_sublink
  BY DEF RouterDescriptorEncode, flags
<1> QED BY <1>1, <1>2, <1>3, Row10

LEMMA DescriptorsType ==
  ASSUME NEW routers \in Seq(RouterDescriptors)
  PROVE  Descriptors(routers) \in Seq(Int)
<1> DEFINE n == Len(routers)
           g == [i \in 1..n |-> RouterDescriptorEncode(routers[i])]
           IsD(f) == f = [i \in 0..n |-> IF i = 0 THEN <<>>
                            ELSE f[i - 1] \o RouterDescriptorEncode(routers[i])]
           D == CHOOSE f : IsD(f)
<1>0. n \in Nat /\ \A i \in 1..n : routers[i] \in RouterDescriptors
  OBVIOUS
<1>1. Descriptors(routers) = D[n]
  BY DEF Descriptors
<1>2. \A i \in 1..n : g[i] \in Seq(Int)
  <2>1. \A i \in 1..n : RouterDescriptorEncode(routers[i]) \in Seq(Int)
    BY <1>0, RouterType
  <2> QED BY <2>1
<1>3. Joins(D, n, g)
  <2>1. ASSUME NEW f PROVE Joins(f, n, g) <=> IsD(f)
    <3>1. \A i \in 0..n : i # 0 => g[i] = RouterDescriptorEncode(routers[i])
      BY <1>0
    <3> HIDE DEF g, n
    <3>2. [i \in 0..n |-> IF i = 0 THEN <<>> ELSE f[i - 1] \o g[i]]
            = [i \in 0..n |-> IF i = 0 THEN <<>>
                 ELSE f[i - 1] \o RouterDescriptorEncode(routers[i])]
      BY <3>1
    <3> QED BY <3>2 DEF Joins
  <2> HIDE DEF IsD, g, n
  <2>2. \E f : IsD(f)
    BY <1>0, <2>1, JoinsExists
  <2>3. IsD(D)
    BY <2>2
  <2> QED BY <2>1, <2>3
<1> HIDE DEF D, IsD, g, n
<1>4. n \in 0..n
  BY <1>0
<1> QED BY <1>0, <1>1, <1>2, <1>3, <1>4, JoinsType

(* A message of parameters and objects.                                    *)
LEMMA ParamsBuilt ==
  ASSUME NEW kind \in Kinds, NEW fields \in Seq(Int), NEW objects \in Seq(Seq(Int))
  PROVE  /\ Built(kind, append_params(fields), objects) \in Seq(Int)
         /\ Len(Built(kind, append_params(fields), objects)) >= 6
BY ParamsType, BuiltType

LEMMA ParcelType ==
  ASSUME NEW m, IsMessage(m), m.kind = "AcceptParcel"
  PROVE  /\ encode_accept_parcel_arrays(m) \in Seq(Int)
         /\ Len(encode_accept_parcel_arrays(m)) >= 6
<1> DEFINE data == IF is_null(m.f.parcel_fragment) THEN m.data ELSE <<>>
           routers == Descriptors(m.new_routers)
           first == align8(MESSAGE_HEADER_SIZE + 72)
           second == first + ArraySize(data)
           third == second + ArraySize(m.handle_types)
           last == <<ArrayOffset(data, first), ArrayOffset(m.handle_types, second),
                     ArrayOffset(routers, third), 0, 0, Len(m.objects)>>
           fields == m.f.sublink \o m.f.sequence_number \o m.f.subparcel_index
                       \o m.f.num_subparcels \o m.f.parcel_fragment \o last
           body == append_params(fields)
                     \o append_array(data, 4 * Len(data))
                     \o append_array(m.handle_types, Len(m.handle_types))
                     \o append_array(routers, Len(m.new_routers))
<1>1. /\ m.kind \in Kinds /\ m.objects \in Seq(Seq(Int)) /\ m.data \in Seq(Int)
      /\ m.handle_types \in Seq(Int) /\ m.new_routers \in Seq(RouterDescriptors)
  BY DEF IsMessage
<1>2. \A n \in ParcelStructs[m.kind] : m.f[n] \in Seq(Int)
  <2>1. m.kind \in DOMAIN ParcelStructs
    BY DEF ParcelStructs
  <2> QED BY <1>1, <2>1, FieldType, StructOf
<1>3. /\ m.f.sublink \in Seq(Int) /\ m.f.sequence_number \in Seq(Int)
      /\ m.f.subparcel_index \in Seq(Int) /\ m.f.num_subparcels \in Seq(Int)
      /\ m.f.parcel_fragment \in Seq(Int)
  BY <1>2 DEF ParcelStructs
<1>4. data \in Seq(Int) /\ routers \in Seq(Int)
  <2>1. <<>> \in Seq(Int)
    BY EmptySeq
  <2> QED BY <1>1, <2>1, DescriptorsType
<1> HIDE DEF data, routers
<1>5. /\ 4 * Len(data) \in Int /\ Len(m.handle_types) \in Int /\ Len(m.new_routers) \in Int
      /\ Len(m.objects) \in Int
  BY <1>1, <1>4
<1>6. first \in Int /\ second \in Int /\ third \in Int
  <2>1. \A w \in Seq(Int) : ArraySize(w) \in Int
    BY AlignType DEF ArraySize
  <2>2. first \in Int
    BY AlignType DEF MESSAGE_HEADER_SIZE
  <2> QED BY <1>1, <1>4, <2>1, <2>2, SMTT(30)
<1> HIDE DEF first, second, third
<1>7. last \in Seq(Int)
  <2>1. /\ ArrayOffset(data, first) \in Int /\ ArrayOffset(m.handle_types, second) \in Int
        /\ ArrayOffset(routers, third) \in Int
    BY <1>6 DEF ArrayOffset
  <2> QED BY <1>5, <2>1
<1> HIDE DEF last
<1>8. fields \in Seq(Int)
  BY <1>3, <1>7, Row6
<1> HIDE DEF fields
<1>9. body \in Seq(Int)
  <2>1. append_params(fields) \in Seq(Int)
    BY <1>8, ParamsType
  <2>2. append_array(data, 4 * Len(data)) \in Seq(Int)
    BY <1>4, <1>5, ArrayType
  <2>3. append_array(m.handle_types, Len(m.handle_types)) \in Seq(Int)
    BY <1>1, <1>5, ArrayType
  <2>4. append_array(routers, Len(m.new_routers)) \in Seq(Int)
    BY <1>4, <1>5, ArrayType
  <2> QED BY <2>1, <2>2, <2>3, <2>4, Row4
<1>10. encode_accept_parcel_arrays(m) = Built(m.kind, body, m.objects)
  BY DEF encode_accept_parcel_arrays, data, routers, first, second, third, last, fields
<1> HIDE DEF body
<1> QED BY <1>1, <1>9, <1>10, BuiltType

LEMMA KindSets ==
  /\ DOMAIN IntroductionStructs =
       {"RequestIntroduction", "AcceptIntroduction", "RejectIntroduction",
        "RequestIndirectIntroduction"}
  /\ DOMAIN RouteStructs =
       {"RouteClosed", "RouteDisconnected", "BypassPeerWithLink", "BypassPeer",
        "AcceptBypassLink", "StopProxying", "ProxyWillStop",
        "StopProxyingToLocalPeer", "FlushRouter"}
BY DEF IntroductionStructs, RouteStructs

(* The encoder of each kind.                                               *)
LEMMA EncoderOf ==
  ASSUME NEW m
  PROVE  /\ m.kind \in PeerKinds => Encode(m) = EncodePeer(m)
         /\ m.kind \in {"ConnectFromNonBrokerToBroker", "ConnectToReferredBroker"} =>
              Encode(m) = encode_connect(m)
         /\ m.kind = "ReferNonBroker" => Encode(m) = encode_refer_non_broker(m)
         /\ m.kind = "AcceptIntroduction" => Encode(m) = encode_accept_introduction(m)
         /\ m.kind \in DOMAIN IntroductionStructs \ {"AcceptIntroduction"} =>
              Encode(m) = encode_introduction(m)
         /\ m.kind = "AcceptParcel" => Encode(m) = encode_accept_parcel_arrays(m)
         /\ m.kind = "AcceptParcelDriverObjects" =>
              Encode(m) = encode_accept_parcel_driver_objects(m)
         /\ m.kind \in DOMAIN RouteStructs => Encode(m) = encode_route_message(m)
         /\ m.kind = "AddBlockBuffer" => Encode(m) = encode_add_block_buffer(m)
         /\ m.kind \in {"RequestMemory", "ProvideMemory"} =>
              Encode(m) = encode_memory_message(m)
<1>1. ASSUME m.kind \in PeerKinds
      PROVE  Encode(m) = EncodePeer(m)
  BY <1>1, KindSets DEF Encode, PeerKinds
<1>2. ASSUME m.kind \in {"ConnectFromNonBrokerToBroker", "ConnectToReferredBroker"}
      PROVE  Encode(m) = encode_connect(m)
  BY <1>2, KindSets DEF Encode, PeerKinds
<1>3. ASSUME m.kind = "ReferNonBroker"
      PROVE  Encode(m) = encode_refer_non_broker(m)
  BY <1>3, KindSets DEF Encode, PeerKinds
<1>4. ASSUME m.kind = "AcceptIntroduction"
      PROVE  Encode(m) = encode_accept_introduction(m)
  BY <1>4, KindSets DEF Encode, PeerKinds
<1>5. ASSUME m.kind \in DOMAIN IntroductionStructs \ {"AcceptIntroduction"}
      PROVE  Encode(m) = encode_introduction(m)
  BY <1>5, KindSets DEF Encode, PeerKinds
<1>6. ASSUME m.kind = "AcceptParcel"
      PROVE  Encode(m) = encode_accept_parcel_arrays(m)
  BY <1>6, KindSets DEF Encode, PeerKinds
<1>7. ASSUME m.kind = "AcceptParcelDriverObjects"
      PROVE  Encode(m) = encode_accept_parcel_driver_objects(m)
  BY <1>7, KindSets DEF Encode, PeerKinds
<1>8. ASSUME m.kind \in DOMAIN RouteStructs
      PROVE  Encode(m) = encode_route_message(m)
  BY <1>8, KindSets DEF Encode, PeerKinds
<1>9. ASSUME m.kind = "AddBlockBuffer"
      PROVE  Encode(m) = encode_add_block_buffer(m)
  BY <1>9, KindSets DEF Encode, PeerKinds
<1>10. ASSUME m.kind \in {"RequestMemory", "ProvideMemory"}
      PROVE  Encode(m) = encode_memory_message(m)
  BY <1>10, KindSets DEF Encode, PeerKinds
<1> QED BY <1>1, <1>2, <1>3, <1>4, <1>5, <1>6, <1>7, <1>8, <1>9, <1>10

(* Every message is encoded in at least the words of its header.           *)
LEMMA EncodeType ==
  ASSUME NEW m, IsMessage(m)
  PROVE  Encode(m) \in Seq(Int) /\ Len(Encode(m)) >= 6
<1>1. m.kind \in Kinds /\ m.objects \in Seq(Seq(Int))
  BY DEF IsMessage
<1>2. <<>> \in Seq(Seq(Int)) /\ Zeros(2) \in Seq(Int) /\ <<0>> \in Seq(Int)
  <2>1. <<>> \in Seq(Seq(Int))
    BY EmptySeq
  <2>2. <<0>> \in Seq(Int)
    OBVIOUS
  <2> QED BY <2>1, <2>2, ZerosType
<1>3. \A n \in Structs[m.kind] : m.f[n] \in Seq(Int)
  BY FieldType
<1>4. CASE m.kind \in PeerKinds
  <2>1. Encode(m) = Built(m.kind, append_params(PeerFields(m)), m.objects)
    BY <1>4, EncoderOf DEF EncodePeer
  <2> QED BY <1>1, <1>4, <2>1, PeerFieldsType, ParamsBuilt
<1>5. CASE m.kind \in {"ConnectFromNonBrokerToBroker", "ConnectToReferredBroker"}
  <2> DEFINE fields == m.f.protocol_version \o m.f.num_initial_portals
  <2>1. m.f.protocol_version \in Seq(Int) /\ m.f.num_initial_portals \in Seq(Int)
    <3>1. m.kind \in DOMAIN ConnectStructs
      BY <1>5 DEF ConnectStructs
    <3>2. Structs[m.kind] = ConnectStructs[m.kind]
      BY <1>1, <3>1, StructOf
    <3>3. {"protocol_version", "num_initial_portals"} \subseteq ConnectStructs[m.kind]
      BY <1>5 DEF ConnectStructs
    <3> QED BY <1>3, <3>2, <3>3
  <2>2. fields \in Seq(Int)
    BY <2>1, Row2
  <2>3. Encode(m) = Built(m.kind, WithFeatures(fields, Zeros(2)), <<>>)
    BY <1>5, EncoderOf DEF encode_connect
  <2> HIDE DEF fields
  <2>4. WithFeatures(fields, Zeros(2)) \in Seq(Int)
    BY <1>2, <2>2, FeaturesType
  <2> QED BY <1>1, <1>2, <2>3, <2>4, BuiltType
<1>6. CASE m.kind = "ReferNonBroker"
  <2> DEFINE fields == m.f.referral_id \o m.f.num_initial_portals \o m.f.transport_index
  <2>1. /\ m.f.referral_id \in Seq(Int) /\ m.f.num_initial_portals \in Seq(Int)
        /\ m.f.transport_index \in Seq(Int)
    BY <1>1, <1>3, <1>6, StructOf DEF ConnectStructs
  <2>2. fields \in Seq(Int)
    BY <2>1, Row3
  <2>3. Encode(m) = Built(m.kind, append_params(fields), m.objects)
    BY <1>6, EncoderOf DEF encode_refer_non_broker
  <2> HIDE DEF fields
  <2> QED BY <1>1, <2>2, <2>3, ParamsBuilt
<1>7. CASE m.kind = "AcceptIntroduction"
  <2> DEFINE side == <<m.f.link_side[1] + 256 * m.f.remote_node_type[1]>>
             fields == m.f.name \o side \o m.f.remote_protocol_version
                         \o m.f.transport_index \o m.f.memory_index
  <2>1. Structs[m.kind] = IntroductionStructs["AcceptIntroduction"]
    BY <1>1, <1>7, StructOf DEF IntroductionStructs
  <2>2. /\ m.f.name \in Seq(Int) /\ m.f.remote_protocol_version \in Seq(Int)
        /\ m.f.transport_index \in Seq(Int) /\ m.f.memory_index \in Seq(Int)
    BY <1>3, <2>1 DEF IntroductionStructs
  <2>3. m.f.link_side[1] \in Int /\ m.f.remote_node_type[1] \in Int
    <3>1. m.f.link_side \in Words(1) /\ m.f.remote_node_type \in Words(1)
      <4>1. /\ m.f.link_side \in Words(Width("link_side"))
            /\ m.f.remote_node_type \in Words(Width("remote_node_type"))
        BY <2>1 DEF IsMessage, IntroductionStructs
      <4>2. Width("link_side") = 1 /\ Width("remote_node_type") = 1
        BY DEF Width, WideFields, NarrowFields
      <4> QED BY <4>1, <4>2
    <3> QED BY <3>1 DEF Words
  <2>4. side \in Seq(Int)
    BY <2>3
  <2>5. Encode(m) = Built(m.kind, WithFeatures(fields, Zeros(2)), m.objects)
    BY <1>7, EncoderOf DEF encode_accept_introduction
  <2> HIDE DEF side
  <2>6. fields \in Seq(Int)
    BY <2>2, <2>4, Row5
  <2> HIDE DEF fields
  <2>7. WithFeatures(fields, Zeros(2)) \in Seq(Int)
    BY <1>2, <2>6, FeaturesType
  <2> QED BY <1>1, <2>5, <2>7, BuiltType
<1>8. CASE m.kind \in DOMAIN IntroductionStructs \ {"AcceptIntroduction"}
  <2> DEFINE fields == IF m.kind = "RequestIndirectIntroduction"
                       THEN m.f.source_node \o m.f.target_node ELSE m.f.name
  <2>1. Structs[m.kind] = IntroductionStructs[m.kind]
    BY <1>1, <1>8, StructOf
  <2>2. fields \in Seq(Int)
    <3>1. CASE m.kind = "RequestIndirectIntroduction"
      <4>1. m.f.source_node \in Seq(Int) /\ m.f.target_node \in Seq(Int)
        BY <1>3, <2>1, <3>1 DEF IntroductionStructs
      <4> QED BY <3>1, <4>1, Row2
    <3>2. CASE m.kind # "RequestIndirectIntroduction"
      <4>1. m.f.name \in Seq(Int)
        BY <1>3, <1>8, <2>1, <3>2 DEF IntroductionStructs
      <4> QED BY <3>2, <4>1
    <3> QED BY <3>1, <3>2
  <2>3. Encode(m) = Built(m.kind, append_params(fields), <<>>)
    BY <1>8, EncoderOf DEF encode_introduction
  <2> HIDE DEF fields
  <2> QED BY <1>1, <1>2, <2>2, <2>3, ParamsBuilt
<1>9. CASE m.kind = "AcceptParcel"
  <2>1. Encode(m) = encode_accept_parcel_arrays(m)
    BY <1>9, EncoderOf
  <2> QED BY <1>9, <2>1, ParcelType
<1>10. CASE m.kind = "AcceptParcelDriverObjects"
  <2> DEFINE last == <<0, Len(m.objects)>>
             fields == m.f.sublink \o m.f.sequence_number \o last
  <2>1. m.f.sublink \in Seq(Int) /\ m.f.sequence_number \in Seq(Int)
    BY <1>1, <1>3, <1>10, StructOf DEF ParcelStructs
  <2>2. last \in Seq(Int)
    BY <1>1
  <2>3. Encode(m) = Built(m.kind, append_params(fields), m.objects)
    BY <1>10, EncoderOf DEF encode_accept_parcel_driver_objects
  <2> HIDE DEF last
  <2>4. fields \in Seq(Int)
    BY <2>1, <2>2, Row3
  <2> HIDE DEF fields
  <2> QED BY <1>1, <2>3, <2>4, ParamsBuilt
<1>11. CASE m.kind \in DOMAIN RouteStructs
  <2>1. Encode(m) = Built(m.kind, append_params(RouteFields(m)), <<>>)
    BY <1>11, EncoderOf DEF encode_route_message
  <2> QED BY <1>1, <1>2, <1>11, <2>1, RouteFieldsType, ParamsBuilt
<1>12. CASE m.kind = "AddBlockBuffer"
  <2> DEFINE fields == m.f.buffer_id \o m.f.block_size \o m.f.buffer_index
  <2>1. /\ m.f.buffer_id \in Seq(Int) /\ m.f.block_size \in Seq(Int)
        /\ m.f.buffer_index \in Seq(Int)
    BY <1>1, <1>3, <1>12, StructOf DEF MemoryStructs
  <2>2. fields \in Seq(Int)
    BY <2>1, Row3
  <2>3. Encode(m) = Built(m.kind, append_params(fields), m.objects)
    BY <1>12, EncoderOf DEF encode_add_block_buffer
  <2> HIDE DEF fields
  <2> QED BY <1>1, <2>2, <2>3, ParamsBuilt
<1>13. CASE m.kind \in {"RequestMemory", "ProvideMemory"}
  <2> DEFINE fields == m.f.size \o <<0>>
  <2>1. m.f.size \in Seq(Int)
    BY <1>1, <1>3, <1>13, StructOf DEF MemoryStructs
  <2>2. fields \in Seq(Int)
    BY <1>2, <2>1, Row2
  <2>3. Encode(m) = Built(m.kind, append_params(fields), m.objects)
    BY <1>13, EncoderOf DEF encode_memory_message
  <2> HIDE DEF fields
  <2> QED BY <1>1, <2>2, <2>3, ParamsBuilt
<1>14. \/ m.kind \in PeerKinds
       \/ m.kind \in {"ConnectFromNonBrokerToBroker", "ConnectToReferredBroker",
                      "ReferNonBroker", "AcceptIntroduction", "AcceptParcel",
                      "AcceptParcelDriverObjects", "AddBlockBuffer", "RequestMemory",
                      "ProvideMemory"}
       \/ m.kind \in DOMAIN IntroductionStructs \ {"AcceptIntroduction"}
       \/ m.kind \in DOMAIN RouteStructs
  <2>1. CASE m.kind \in DOMAIN ConnectStructs
    BY <2>1 DEF ConnectStructs, PeerKinds
  <2>2. CASE m.kind \in DOMAIN ParcelStructs
    BY <2>2 DEF ParcelStructs
  <2>3. CASE m.kind \in DOMAIN MemoryStructs
    BY <2>3 DEF MemoryStructs
  <2> QED BY <1>1, <2>1, <2>2, <2>3 DEF Kinds
<1> QED BY <1>4, <1>5, <1>6, <1>7, <1>8, <1>9, <1>10, <1>11, <1>12, <1>13, <1>14

-----------------------------------------------------------------------------
(* What decode_message makes of any payload.                               *)

LEMMA LayoutSets ==
  /\ DOMAIN ConnectLayouts = DOMAIN ConnectStructs
  /\ DOMAIN IntroductionLayouts = DOMAIN IntroductionStructs
  /\ DOMAIN ParcelLayouts = DOMAIN ParcelStructs
  /\ DOMAIN RouteLayouts = DOMAIN RouteStructs
  /\ DOMAIN MemoryLayouts = DOMAIN MemoryStructs
<1>1. DOMAIN ConnectLayouts = DOMAIN ConnectStructs
  BY DEF ConnectLayouts, ConnectStructs
<1>2. DOMAIN IntroductionLayouts = DOMAIN IntroductionStructs
  BY DEF IntroductionLayouts, IntroductionStructs
<1>3. DOMAIN ParcelLayouts = DOMAIN ParcelStructs
  BY DEF ParcelLayouts, ParcelStructs
<1>4. DOMAIN RouteLayouts = DOMAIN RouteStructs
  BY DEF RouteLayouts, RouteStructs
<1>5. DOMAIN MemoryLayouts = DOMAIN MemoryStructs
  BY DEF MemoryLayouts, MemoryStructs
<1> QED BY <1>1, <1>2, <1>3, <1>4, <1>5

(* The layout of a kind.                                                   *)
LEMMA LayoutOf ==
  ASSUME NEW k \in Kinds
  PROVE  /\ k \in DOMAIN ConnectLayouts => Layouts[k] = ConnectLayouts[k]
         /\ k \in DOMAIN IntroductionLayouts => Layouts[k] = IntroductionLayouts[k]
         /\ k \in DOMAIN ParcelLayouts => Layouts[k] = ParcelLayouts[k]
         /\ k \in DOMAIN RouteLayouts => Layouts[k] = RouteLayouts[k]
         /\ k \in DOMAIN MemoryLayouts => Layouts[k] = MemoryLayouts[k]
<1>1. /\ DOMAIN ConnectLayouts \cap DOMAIN IntroductionLayouts = {}
      /\ DOMAIN ConnectLayouts \cap DOMAIN ParcelLayouts = {}
      /\ DOMAIN ConnectLayouts \cap DOMAIN RouteLayouts = {}
      /\ DOMAIN ConnectLayouts \cap DOMAIN MemoryLayouts = {}
      /\ DOMAIN IntroductionLayouts \cap DOMAIN ParcelLayouts = {}
      /\ DOMAIN IntroductionLayouts \cap DOMAIN RouteLayouts = {}
      /\ DOMAIN IntroductionLayouts \cap DOMAIN MemoryLayouts = {}
      /\ DOMAIN ParcelLayouts \cap DOMAIN RouteLayouts = {}
      /\ DOMAIN ParcelLayouts \cap DOMAIN MemoryLayouts = {}
      /\ DOMAIN RouteLayouts \cap DOMAIN MemoryLayouts = {}
  BY LayoutSets, GroupsApart
<1> QED BY <1>1 DEF Layouts

LEMMA LayoutType ==
  ASSUME NEW k \in Kinds
  PROVE  \A n \in DOMAIN Layouts[k].at : Layouts[k].at[n] \in Int
<1>1. CASE k \in DOMAIN ConnectLayouts
  <2>1. \A j \in DOMAIN ConnectLayouts :
          \A n \in DOMAIN ConnectLayouts[j].at : ConnectLayouts[j].at[n] \in Int
    BY SMTT(60) DEF ConnectLayouts
  <2> QED BY <1>1, <2>1, LayoutOf
<1>2. CASE k \in DOMAIN IntroductionLayouts
  <2>1. \A j \in DOMAIN IntroductionLayouts :
          \A n \in DOMAIN IntroductionLayouts[j].at : IntroductionLayouts[j].at[n] \in Int
    BY SMTT(60) DEF IntroductionLayouts
  <2> QED BY <1>2, <2>1, LayoutOf
<1>3. CASE k \in DOMAIN ParcelLayouts
  <2>1. \A j \in DOMAIN ParcelLayouts :
          \A n \in DOMAIN ParcelLayouts[j].at : ParcelLayouts[j].at[n] \in Int
    BY SMTT(60) DEF ParcelLayouts
  <2> QED BY <1>3, <2>1, LayoutOf
<1>4. CASE k \in DOMAIN RouteLayouts
  <2>1. \A j \in DOMAIN RouteLayouts :
          \A n \in DOMAIN RouteLayouts[j].at : RouteLayouts[j].at[n] \in Int
    BY SMTT(60) DEF RouteLayouts
  <2> QED BY <1>4, <2>1, LayoutOf
<1>5. CASE k \in DOMAIN MemoryLayouts
  <2>1. \A j \in DOMAIN MemoryLayouts :
          \A n \in DOMAIN MemoryLayouts[j].at : MemoryLayouts[j].at[n] \in Int
    BY SMTT(60) DEF MemoryLayouts
  <2> QED BY <1>5, <2>1, LayoutOf
<1> QED BY <1>1, <1>2, <1>3, <1>4, <1>5, LayoutSets DEF Kinds

(* Parameters that pass the checks lie within the payload.                 *)
LEMMA FieldsWithin ==
  ASSUME NEW p \in Seq(Int), NEW k \in Kinds, ParamsOk(p), FieldsFit(p, Layouts[k])
  PROVE  ~FieldsPanic(p, Layouts[k])
<1> DEFINE size == WordAt(p, MESSAGE_HEADER_SIZE)
<1>1. Len(p) \in Nat /\ 4 * Len(p) - 24 >= 8 /\ size <= 4 * Len(p) - 24
  BY DEF ParamsOk, MESSAGE_HEADER_SIZE
<1>2. size \in Int
  <2>1. WordAt(p, MESSAGE_HEADER_SIZE) = p[7]
    BY DEF WordAt, MESSAGE_HEADER_SIZE
  <2> QED BY <1>1, <2>1
<1>3. FieldsEnd(p) = 24 + size
  BY <1>2 DEF FieldsEnd, FieldsStart, MESSAGE_HEADER_SIZE
<1> HIDE DEF size
<1>4. ASSUME NEW n \in DOMAIN Layouts[k].at
      PROVE  ~(FieldEnd(n, Layouts[k].at[n]) > 4 * Len(p))
  <2> DEFINE end == FieldEnd(n, Layouts[k].at[n])
  <2>1. end \in Int
    <3>1. Layouts[k].at[n] \in Int
      BY LayoutType
    <3>2. Width(n) \in Int
      BY DEF Width
    <3> QED BY <3>1, <3>2 DEF FieldEnd, FieldsStart, MESSAGE_HEADER_SIZE
  <2>2. end <= FieldsEnd(p)
    BY DEF FieldsFit
  <2> HIDE DEF end
  <2>3. ~(end > 4 * Len(p))
    BY <1>1, <1>2, <1>3, <2>1, <2>2
  <2> QED BY <2>3 DEF end
<1> QED BY <1>4 DEF FieldsPanic

(* So does an array, from its header to its end.                           *)
LEMMA ArrayWithin ==
  ASSUME NEW p \in Seq(Int), NEW off \in Int, NEW size \in Nat, ArrayOk(p, off, size)
  PROVE  /\ ~ArrayPanics(p, off, size)
         /\ off # 0 => /\ off > 0 /\ ArrayEnd(p, off, size) \in Int
                       /\ ArrayEnd(p, off, size) <= 4 * Len(p)
<1> SUFFICES ASSUME off # 0
             PROVE  /\ off > 0 /\ ArrayEnd(p, off, size) \in Int
                    /\ ArrayEnd(p, off, size) <= 4 * Len(p)
  <2>1. Len(p) \in Nat
    OBVIOUS
  <2> QED BY <2>1 DEF ArrayPanics
<1> DEFINE num_bytes == WordAt(p, off)
           elements == WordAt(p, off + 4)
<1>1. /\ Len(p) \in Nat /\ off > 0 /\ 4 * Len(p) - off >= 8
      /\ num_bytes <= 4 * Len(p) - off /\ elements * size <= num_bytes - 8
  BY DEF ArrayOk
<1>2. num_bytes \in Int /\ elements \in Int
  <2>1. off \div 4 + 1 \in 1 .. Len(p) /\ (off + 4) \div 4 + 1 \in 1 .. Len(p)
    BY <1>1
  <2> QED BY <2>1 DEF WordAt
<1>3. ArrayEnd(p, off, size) = off + 8 + elements * size
  BY DEF ArrayEnd
<1> HIDE DEF num_bytes, elements
<1>4. PICK x \in Int : x = elements * size
  BY <1>2
<1> QED BY <1>1, <1>2, <1>3, <1>4

LEMMA ArrayWordsType ==
  ASSUME NEW p \in Seq(Int), NEW off \in Int, NEW size \in Nat, ArrayOk(p, off, size)
  PROVE  ArrayWords(p, off, size) \in Seq(Int)
<1>1. CASE off = 0
  <2>1. <<>> \in Seq(Int)
    BY EmptySeq
  <2> QED BY <1>1, <2>1 DEF ArrayWords
<1>2. CASE off # 0
  <2> DEFINE m == (off + 8) \div 4 + 1
             n == ArrayEnd(p, off, size) \div 4
  <2>1. off > 0 /\ ArrayEnd(p, off, size) \in Int /\ ArrayEnd(p, off, size) <= 4 * Len(p)
    BY <1>2, ArrayWithin
  <2>2. Len(p) \in Nat
    OBVIOUS
  <2>3. m \in Int /\ m >= 1 /\ n \in Int /\ n <= Len(p)
    BY <2>1, <2>2
  <2>4. ArrayWords(p, off, size) = SubSeq(p, m, n)
    BY <1>2 DEF ArrayWords, Slice
  <2> HIDE DEF m, n
  <2>5. \A i \in m .. n : p[i] \in Int
    BY <2>2, <2>3
  <2>6. SubSeq(p, m, n) \in Seq(Int)
    BY <2>3, <2>5, SubSeqProperties
  <2> QED BY <2>4, <2>6
<1> QED BY <1>1, <1>2

(* The entries of the objects: numbers, whatever the payload.              *)
LEMMA ObjectEntriesType ==
  ASSUME NEW p \in Seq(Int), DriverObjectArray(p) \in Int, ArrayOk(p, DriverObjectArray(p), 8)
  PROVE  \E len \in Nat :
           /\ DOMAIN Entries(p) = 1 .. len /\ Len(Entries(p)) = len
           /\ \A i \in 1 .. len : /\ Entries(p)[i].array \in Int
                                  /\ Entries(p)[i].first_fd \in Nat
                                  /\ Entries(p)[i].num_fds \in Nat
<1> DEFINE words == ArrayWords(p, DriverObjectArray(p), 8)
           len == Len(words) \div 2
           chunks == Chunks(words, 2)
           entries == [i \in DOMAIN chunks |-> [array |-> chunks[i][1],
                                                first_fd |-> chunks[i][2] % 65536,
                                                num_fds |-> (chunks[i][2] \div 65536) % 65536]]
<1>1. words \in Seq(Int)
  <2>1. 8 \in Nat
    OBVIOUS
  <2> QED BY <2>1, ArrayWordsType
<1>2. Entries(p) = entries
  BY DEF Entries
<1> HIDE DEF words
<1>3. Len(words) \in Nat /\ len \in Nat /\ 2 * len <= Len(words)
  BY <1>1
<1>4. DOMAIN chunks = 1 .. len
  BY DEF Chunks
<1>5. ASSUME NEW i \in 1 .. len
      PROVE  chunks[i][1] \in Int /\ chunks[i][2] \in Int
  <2>1. chunks[i] = SubSeq(words, 2 * (i - 1) + 1, 2 * i)
    BY DEF Chunks
  <2> DEFINE m == 2 * (i - 1) + 1
             n == 2 * i
  <2>2. m \in Int /\ n \in Int /\ m >= 1 /\ n <= Len(words) /\ n = m + 1
    BY <1>3
  <2> HIDE DEF m, n
  <2>3. \A j \in m .. n : words[j] \in Int
    BY <1>1, <1>3, <2>2, SMTT(30)
  <2>4. SubSeq(words, m, n) \in Seq(Int)
    BY <2>2, <2>3, SubSeqProperties
  <2>5. Len(SubSeq(words, m, n)) = 2
    BY <2>2, <2>3, SubSeqProperties
  <2>6. SubSeq(words, m, n)[1] \in Int /\ SubSeq(words, m, n)[2] \in Int
    <3>1. PICK s \in Seq(Int) : s = SubSeq(words, m, n)
      BY <2>4
    <3>2. 1 \in 1 .. Len(s) /\ 2 \in 1 .. Len(s)
      BY <2>5, <3>1
    <3> QED BY <3>1, <3>2, ElementOfSeq
  <2> QED BY <2>1, <2>6 DEF m, n
<1> HIDE DEF chunks, len
<1>6. DOMAIN entries = 1 .. len /\ entries = [i \in 1 .. len |-> entries[i]]
  BY <1>4
<1>7. Len(entries) = len
  BY <1>3, <1>6
<1>8. ASSUME NEW i \in 1 .. len
      PROVE  /\ entries[i].array \in Int /\ entries[i].first_fd \in Nat
             /\ entries[i].num_fds \in Nat
  <2>1. chunks[i][1] \in Int /\ chunks[i][2] \in Int
    BY <1>5
  <2>2. /\ entries[i].array = chunks[i][1] /\ entries[i].first_fd = chunks[i][2] % 65536
        /\ entries[i].num_fds = (chunks[i][2] \div 65536) % 65536
    BY <1>4
  <2> HIDE DEF entries
  <2>3. \A x \in Int : x % 65536 \in Nat /\ (x \div 65536) % 65536 \in Nat
    OBVIOUS
  <2> QED BY <2>1, <2>2, <2>3, SMTT(30)
<1> HIDE DEF entries
<1> QED BY <1>2, <1>3, <1>6, <1>7, <1>8

(* Entries that pass the check share out num_fds descriptors: each one is  *)
(* some entry's, and no two entries'.                                      *)
Share(entries, j) ==
  entries[j].first_fd .. entries[j].first_fd + entries[j].num_fds - 1

LEMMA SharedOut ==
  ASSUME NEW entries, NEW len \in Nat, NEW num_fds \in Nat,
         DOMAIN entries = 1 .. len, Len(entries) = len,
         \A i \in 1 .. len : entries[i].first_fd \in Nat /\ entries[i].num_fds \in Nat,
         EntriesOk(entries, num_fds)
  PROVE  /\ UNION {Share(entries, j) : j \in 1 .. len} = 0 .. num_fds - 1
         /\ \A j, k \in 1 .. len : j # k => Share(entries, j) \cap Share(entries, k) = {}
<1> DEFINE End == [i \in 0 .. len |-> IF i = 0 THEN 0
                                      ELSE entries[i].first_fd + entries[i].num_fds]
           First(i) == entries[i].first_fd
           Num(i) == entries[i].num_fds
<1>1. /\ \A i \in 1 .. len : First(i) = End[i - 1] /\ End[i] <= num_fds
      /\ End[len] = num_fds
  BY DEF EntriesOk
<1>2. /\ End[0] = 0
      /\ \A i \in 1 .. len : /\ End[i] = First(i) + Num(i)
                             /\ First(i) \in Nat /\ Num(i) \in Nat
  OBVIOUS
<1>3. \A i \in 0 .. len : End[i] \in Nat
  BY <1>2
<1>4. \A j \in 1 .. len : Share(entries, j) = First(j) .. First(j) + Num(j) - 1
  BY DEF Share
<1> HIDE DEF End, First, Num
<1>5. \A j \in 1 .. len : \A x :
        x \in Share(entries, j) <=> x \in Int /\ End[j - 1] <= x /\ x < End[j]
  <2> SUFFICES ASSUME NEW j \in 1 .. len, NEW x
               PROVE  x \in Share(entries, j) <=> x \in Int /\ End[j - 1] <= x /\ x < End[j]
    OBVIOUS
  <2>1. First(j) \in Nat /\ Num(j) \in Nat /\ End[j] = First(j) + Num(j) /\ First(j) = End[j - 1]
    BY <1>1, <1>2
  <2>2. Share(entries, j) = First(j) .. First(j) + Num(j) - 1
    BY <1>4
  <2> QED BY <2>1, <2>2
(* The ends never go back.                                                 *)
<1>6. ASSUME NEW j \in 0 .. len, NEW k \in 0 .. len, j <= k
      PROVE  End[j] <= End[k]
  <2> DEFINE T == {i \in j .. len : ~(End[j] <= End[i])}
  <2>1. T \in SUBSET Nat /\ \A i : i \in T <=> i \in j .. len /\ ~(End[j] <= End[i])
    OBVIOUS
  <2> HIDE DEF T
  <2> SUFFICES ASSUME T # {} PROVE FALSE
    BY <1>6, <2>1
  <2>2. PICK i \in T : \A h \in T : i <= h
    BY <2>1, LeastNumber
  <2>3. i \in j .. len /\ ~(End[j] <= End[i])
    BY <2>1, <2>2
  <2>4. End[j] \in Nat
    BY <1>3
  <2>5. i # j
    BY <2>3, <2>4
  <2>6. i - 1 \in j .. len /\ i \in 1 .. len /\ i - 1 \in 0 .. len /\ ~(i <= i - 1)
    BY <2>3, <2>5
  <2>7. End[j] <= End[i - 1]
    BY <2>1, <2>2, <2>6
  <2>8. End[i] = End[i - 1] + Num(i) /\ Num(i) \in Nat /\ End[i - 1] \in Nat
    BY <1>1, <1>2, <1>3, <2>6
  <2> QED BY <2>3, <2>4, <2>7, <2>8
<1>7. ASSUME NEW j \in 1 .. len PROVE Share(entries, j) \subseteq 0 .. num_fds - 1
  <2> SUFFICES ASSUME NEW x \in Share(entries, j) PROVE x \in 0 .. num_fds - 1
    OBVIOUS
  <2>1. x \in Int /\ End[j - 1] <= x /\ x < End[j]
    BY <1>5
  <2>2. End[j - 1] \in Nat /\ End[j] \in Nat /\ End[j] <= num_fds
    BY <1>1, <1>3
  <2> QED BY <2>1, <2>2
<1>8. ASSUME NEW x \in 0 .. num_fds - 1
      PROVE  \E j \in 1 .. len : x \in Share(entries, j)
  <2> DEFINE T == {i \in 0 .. len : x < End[i]}
  <2>1. T \in SUBSET Nat /\ \A i : i \in T <=> i \in 0 .. len /\ x < End[i]
    OBVIOUS
  <2>2. len \in T
    <3>1. x < End[len] /\ len \in 0 .. len
      BY <1>1
    <3> QED BY <2>1, <3>1
  <2> HIDE DEF T
  <2>3. PICK i \in T : \A h \in T : i <= h
    BY <2>1, <2>2, LeastNumber
  <2>4. i \in 0 .. len /\ x < End[i]
    BY <2>1, <2>3
  <2>5. i # 0
    BY <1>2, <2>4
  <2>6. i \in 1 .. len /\ i - 1 \in 0 .. len /\ ~(i <= i - 1)
    BY <2>4, <2>5
  <2>7. ~(x < End[i - 1])
    BY <2>1, <2>3, <2>6
  <2>8. End[i - 1] \in Nat
    BY <1>3, <2>6
  <2>9. x \in Share(entries, i)
    BY <1>5, <2>4, <2>6, <2>7, <2>8
  <2> QED BY <2>6, <2>9
<1>9. ASSUME NEW j \in 1 .. len, NEW k \in 1 .. len, j < k
      PROVE  Share(entries, j) \cap Share(entries, k) = {}
  <2> SUFFICES ASSUME NEW x, x \in Share(entries, j), x \in Share(entries, k) PROVE FALSE
    OBVIOUS
  <2>1. x \in Int /\ x < End[j] /\ End[k - 1] <= x
    BY <1>5
  <2>2. j \in 0 .. len /\ k - 1 \in 0 .. len /\ j <= k - 1
    BY <1>9
  <2>3. End[j] <= End[k - 1]
    BY <1>6, <2>2
  <2>4. End[j] \in Nat /\ End[k - 1] \in Nat
    BY <1>3, <2>2
  <2> QED BY <2>1, <2>3, <2>4
<1>10. ASSUME NEW j \in 1 .. len, NEW k \in 1 .. len, j # k
       PROVE  Share(entries, j) \cap Share(entries, k) = {}
  <2>1. CASE j < k
    BY <1>9, <2>1
  <2>2. CASE k < j
    BY <1>9, <2>2
  <2> QED BY <1>10, <2>1, <2>2
<1>11. UNION {Share(entries, j) : j \in 1 .. len} = 0 .. num_fds - 1
  BY <1>7, <1>8
<1> QED BY <1>10, <1>11

LEMMA ObjectsWithin ==
  ASSUME NEW p \in Seq(Int), NEW num_fds \in Nat, DriverObjectArray(p) \in Int,
         ObjectsOk(p, num_fds)
  PROVE  ~ObjectsPanic(p)
<1>1. /\ ArrayOk(p, DriverObjectArray(p), 8)
      /\ DriverObjectArray(p) # 0 =>
           \A i \in DOMAIN Entries(p) : ArrayOk(p, Entries(p)[i].array, 1)
  BY DEF ObjectsOk, ArrayOk
<1>2. 8 \in Nat /\ 1 \in Nat
  OBVIOUS
<1>3. ~ArrayPanics(p, DriverObjectArray(p), 8)
  BY <1>1, <1>2, ArrayWithin
<1>4. CASE DriverObjectArray(p) = 0
  <2>1. ArrayWords(p, DriverObjectArray(p), 8) = <<>>
    BY <1>4 DEF ArrayWords
  <2>2. DOMAIN Chunks(<<>>, 2) = {}
    BY DEF Chunks
  <2>3. DOMAIN Entries(p) = {}
    BY <2>1, <2>2 DEF Entries
  <2> QED BY <1>3, <2>3 DEF ObjectsPanic
<1>5. CASE DriverObjectArray(p) # 0
  <2>1. ASSUME NEW i \in DOMAIN Entries(p)
        PROVE  ~ArrayPanics(p, Entries(p)[i].array, 1)
    <3>1. Entries(p)[i].array \in Int
      BY <1>1, ObjectEntriesType
    <3>2. ArrayOk(p, Entries(p)[i].array, 1)
      BY <1>1, <1>5
    <3> QED BY <1>2, <3>1, <3>2, ArrayWithin
  <2> QED BY <1>3, <2>1 DEF ObjectsPanic
<1> QED BY <1>4, <1>5

LEMMA ParcelWithin ==
  ASSUME NEW p \in Seq(Int), ParamsOk(p), FieldsFit(p, Layouts["AcceptParcel"]), ParcelOk(p)
  PROVE  ~ParcelPanics(p)
<1> DEFINE size == WordAt(p, MESSAGE_HEADER_SIZE)
<1>1. Len(p) \in Nat /\ 4 * Len(p) - 24 >= 8 /\ size <= 4 * Len(p) - 24
  BY DEF ParamsOk, MESSAGE_HEADER_SIZE
<1>2. size \in Int
  <2>1. WordAt(p, MESSAGE_HEADER_SIZE) = p[7]
    BY DEF WordAt, MESSAGE_HEADER_SIZE
  <2> QED BY <1>1, <2>1
<1>3. size >= 8 + 64
  <2>1. "AcceptParcel" \in Kinds /\ "AcceptParcel" \in DOMAIN ParcelLayouts
    BY DEF Kinds, ParcelLayouts, ParcelStructs
  <2>2. Layouts["AcceptParcel"].min = 64
    BY <2>1, LayoutOf DEF ParcelLayouts
  <2>3. FieldsEnd(p) >= FieldsStart + 64
    BY <2>2 DEF FieldsFit
  <2> QED BY <1>2, <2>3 DEF FieldsEnd, FieldsStart, MESSAGE_HEADER_SIZE
<1> HIDE DEF size
<1>4. Len(p) >= 24
  BY <1>1, <1>2, <1>3
<1>5. /\ WordAt(p, FieldsStart + 40) \in Int /\ WordAt(p, FieldsStart + 44) \in Int
      /\ WordAt(p, FieldsStart + 48) \in Int
  <2>1. /\ WordAt(p, FieldsStart + 40) = p[19] /\ WordAt(p, FieldsStart + 44) = p[20]
        /\ WordAt(p, FieldsStart + 48) = p[21]
    BY DEF WordAt, FieldsStart, MESSAGE_HEADER_SIZE
  <2>2. 19 \in 1 .. Len(p) /\ 20 \in 1 .. Len(p) /\ 21 \in 1 .. Len(p)
    BY <1>1, <1>4
  <2> QED BY <2>1, <2>2
<1>6. ASSUME NEW a \in DOMAIN ParcelArrays(p)
      PROVE  ~ArrayPanics(p, ParcelArrays(p)[a].off, ParcelArrays(p)[a].size)
  <2>1. ParcelArrays(p)[a].off \in Int /\ ParcelArrays(p)[a].size \in Nat
    BY <1>5 DEF ParcelArrays, RouterDescriptorSize
  <2>2. ArrayOk(p, ParcelArrays(p)[a].off, ParcelArrays(p)[a].size)
    BY DEF ParcelOk
  <2> QED BY <2>1, <2>2, ArrayWithin
<1> QED BY <1>6 DEF ParcelPanics

LEMMA NoKind == /\ "Panic" \notin Kinds /\ "Unknown" \notin Kinds /\ "Refused" \notin Kinds
<1>1. \A k \in {"Panic", "Unknown", "Refused"} :
        /\ k \notin DOMAIN ConnectStructs /\ k \notin DOMAIN IntroductionStructs
        /\ k \notin DOMAIN ParcelStructs /\ k \notin DOMAIN RouteStructs
        /\ k \notin DOMAIN MemoryStructs
  BY KindSets DEF ConnectStructs, ParcelStructs, MemoryStructs
<1> QED BY <1>1 DEF Kinds

(* Whatever the payload, decode_message reads within it, and hands out     *)
(* each descriptor once.                                                   *)
Contained(result, num_fds) ==
  /\ result.kind # "Panic"
  /\ result.kind \in Kinds /\ result.objects # <<>> =>
       /\ UNION {Share(result.objects, j) : j \in DOMAIN result.objects} = 0 .. num_fds - 1
       /\ \A j, k \in DOMAIN result.objects :
            j # k => Share(result.objects, j) \cap Share(result.objects, k) = {}

LEMMA ObjectsShare ==
  ASSUME NEW p \in Seq(Int), NEW num_fds \in Nat, DriverObjectArray(p) \in Int,
         ObjectsOk(p, num_fds), Objects(p) # <<>>
  PROVE  /\ UNION {Share(Objects(p), j) : j \in DOMAIN Objects(p)} = 0 .. num_fds - 1
         /\ \A j, k \in DOMAIN Objects(p) :
              j # k => Share(Objects(p), j) \cap Share(Objects(p), k) = {}
<1>1. DriverObjectArray(p) # 0
  BY DEF Objects
<1>2. ArrayOk(p, DriverObjectArray(p), 8) /\ EntriesOk(Entries(p), num_fds)
  BY <1>1 DEF ObjectsOk
<1>3. PICK len \in Nat :
        /\ DOMAIN Entries(p) = 1 .. len /\ Len(Entries(p)) = len
        /\ \A i \in 1 .. len : /\ Entries(p)[i].array \in Int
                               /\ Entries(p)[i].first_fd \in Nat
                               /\ Entries(p)[i].num_fds \in Nat
  BY <1>2, ObjectEntriesType
<1>4. DOMAIN Objects(p) = 1 .. len
  BY <1>1, <1>3 DEF Objects
<1>5. \A j \in 1 .. len : Share(Objects(p), j) = Share(Entries(p), j)
  <2> SUFFICES ASSUME NEW j \in 1 .. len PROVE Share(Objects(p), j) = Share(Entries(p), j)
    OBVIOUS
  <2>1. /\ Objects(p)[j].first_fd = Entries(p)[j].first_fd
        /\ Objects(p)[j].num_fds = Entries(p)[j].num_fds
    BY <1>1, <1>3 DEF Objects
  <2> QED BY <2>1 DEF Share
<1>6. /\ UNION {Share(Entries(p), j) : j \in 1 .. len} = 0 .. num_fds - 1
      /\ \A j, k \in 1 .. len : j # k => Share(Entries(p), j) \cap Share(Entries(p), k) = {}
  <2> DEFINE entries == Entries(p)
  <2>1. /\ DOMAIN entries = 1 .. len /\ Len(entries) = len
        /\ \A i \in 1 .. len : entries[i].first_fd \in Nat /\ entries[i].num_fds \in Nat
        /\ EntriesOk(entries, num_fds)
    BY <1>2, <1>3
  <2> HIDE DEF entries
  <2>2. /\ UNION {Share(entries, j) : j \in 1 .. len} = 0 .. num_fds - 1
        /\ \A j, k \in 1 .. len : j # k => Share(entries, j) \cap Share(entries, k) = {}
    BY <2>1, SharedOut
  <2> QED BY <2>2 DEF entries
<1>7. {Share(Objects(p), j) : j \in DOMAIN Objects(p)} = {Share(Entries(p), j) : j \in 1 .. len}
  BY <1>4, <1>5
<1> QED BY <1>4, <1>5, <1>6, <1>7

LEMMA DecodeContained ==
  ASSUME NEW p \in Seq(Int), NEW num_fds \in Nat
  PROVE  Contained(decode_message(p, num_fds), num_fds)
<1>1. /\ Contained(Result("Refused"), num_fds) /\ Contained(Result("Unknown"), num_fds)
  <2>1. Result("Refused").kind = "Refused" /\ Result("Unknown").kind = "Unknown"
    BY DEF Result
  <2> QED BY <2>1, NoKind DEF Contained
<1>2. CASE ~HeaderOk(p) \/ ~ParamsOk(p) \/ KindOf(p) = "Unknown"
  BY <1>1, <1>2 DEF decode_message
<1>3. CASE HeaderOk(p) /\ ParamsOk(p) /\ KindOf(p) # "Unknown"
  <2>1. PICK kind \in Kinds : kind = KindOf(p)
    BY <1>3 DEF KindOf
  <2>2. decode_message(p, num_fds) = DecodeKind(p, num_fds, kind)
    BY <1>3, <2>1 DEF decode_message
  <2>3. DriverObjectArray(p) \in Int
    <3>1. Len(p) \in Nat /\ 4 * Len(p) - 24 >= 8
      BY <1>3 DEF ParamsOk, MESSAGE_HEADER_SIZE
    <3>2. 5 \in 1 .. Len(p)
      BY <3>1
    <3> QED BY <3>2 DEF DriverObjectArray
  <2>4. FieldsFit(p, Layouts[kind]) => ~FieldsPanic(p, Layouts[kind])
    BY <1>3, FieldsWithin
  <2>5. ObjectsOk(p, num_fds) => ~ObjectsPanic(p)
    BY <2>3, ObjectsWithin
  <2>6. kind = "AcceptParcel" /\ FieldsFit(p, Layouts[kind]) /\ ParcelOk(p) => ~ParcelPanics(p)
    BY <1>3, ParcelWithin
  <2>7. \/ decode_message(p, num_fds) \in {Result("Refused"), Result("Unknown")}
        \/ /\ decode_message(p, num_fds) = DecodedMessage(p, kind)
           /\ kind \in ObjectKinds => ObjectsOk(p, num_fds)
    BY <2>2, <2>4, <2>5, <2>6 DEF DecodeKind
  <2>8. ASSUME kind \in ObjectKinds => ObjectsOk(p, num_fds)
        PROVE  Contained(DecodedMessage(p, kind), num_fds)
    <3>1. /\ DecodedMessage(p, kind).kind = kind
          /\ DecodedMessage(p, kind).objects = IF kind \in ObjectKinds THEN Objects(p) ELSE <<>>
      BY DEF DecodedMessage
    <3>2. CASE kind \in ObjectKinds
      <4>1. DecodedMessage(p, kind).objects = Objects(p)
        BY <3>1, <3>2
      <4>2. ObjectsOk(p, num_fds)
        BY <2>8, <3>2
      <4> QED BY <2>3, <3>1, <4>1, <4>2, NoKind, ObjectsShare DEF Contained
    <3>3. CASE kind \notin ObjectKinds
      BY <3>1, <3>3, NoKind DEF Contained
    <3> QED BY <3>2, <3>3
  <2> QED BY <1>1, <2>7, <2>8
<1> QED BY <1>2, <1>3

-----------------------------------------------------------------------------
(* The channel: what its variables hold.                                   *)
Fds == Seq(Int \X Int)

Frames == [words : Seq(Int), fds : Fds, ends : SUBSET Nat]

Marks == [offset : Int, fds : Fds]

Messages == [payload : Seq(Int), fds : Fds]

Results == {decode_message(p, n) : p \in Seq(Int), n \in Nat}

(* A frame as a writer that does not err encodes it.                       *)
Undamaged(f) ==
  /\ Len(f.fds) < 65536
  /\ \E payload \in Seq(Int) : f.words = encode_channel_message(payload, Len(f.fds))

OutboxInv ==
  /\ outbox \in Seq(Frames)
  /\ \A f \in DOMAIN outbox : /\ Len(outbox[f].words) >= 5
                              /\ outbox[f].ends \subseteq 1 .. Len(outbox[f].words)
                              /\ ~damaged => Undamaged(outbox[f])

WriterInv ==
  /\ next \in 1 .. Len(outbox) + 1 /\ sent \in Nat
  /\ sent > 0 => next <= Len(outbox) /\ sent < Len(outbox[next].words)

ReaderInv ==
  /\ socket \in Seq(Int) /\ recv_buf \in Seq(Int)
  /\ rights \in Seq(Marks) /\ fd_marks \in Seq(Marks)
  /\ received \in Seq(Messages)

DecodedInv ==
  /\ decoded \in Seq(Results) /\ Len(decoded) <= Len(received)
  /\ \A i \in DOMAIN decoded :
       decoded[i] = decode_message(received[i].payload, Len(received[i].fds))

TypeInv == OutboxInv /\ WriterInv /\ ReaderInv /\ DecodedInv

(* Where each frame starts in the stream.                                  *)
Starts(start) ==
  /\ start \in [1 .. Len(outbox) + 1 -> Nat]
  /\ start[1] = 0
  /\ \A f \in DOMAIN outbox : start[f + 1] = start[f] + Len(outbox[f].words)
  /\ \A f \in DOMAIN outbox, g \in 1 .. Len(outbox) + 1 :
       f < g => start[f] + Len(outbox[f].words) <= start[g]

(* The frame that is being read, and how many words of the stream have     *)
(* been read and sent.                                                     *)
At == Len(received) + 1

Taken(start) == start[At] + Len(recv_buf)

Given(start) == start[next] + sent

(* The socket holds what has been sent and not yet read, the buffer what   *)
(* has been read of the frame at hand.                                     *)
SocketInv(start) ==
  /\ At <= next
  /\ Len(socket) = Given(start) - Taken(start)
  /\ \A f \in DOMAIN outbox : \A w \in 1 .. Len(outbox[f].words) :
       start[f] + w > Taken(start) /\ start[f] + w <= Given(start) =>
         socket[start[f] + w - Taken(start)] = outbox[f].words[w]

BufferInv ==
  /\ recv_buf # <<>> => At \in DOMAIN outbox /\ Len(recv_buf) <= Len(outbox[At].words)
  /\ \A w \in 1 .. Len(recv_buf) : recv_buf[w] = outbox[At].words[w]

(* Descriptors are in flight exactly where the frames start that have any. *)
RightsInv(start) ==
  /\ \A i \in DOMAIN rights :
       /\ rights[i].offset >= 0 /\ rights[i].offset < Len(socket)
       /\ \E f \in DOMAIN outbox : /\ rights[i].offset = start[f] - Taken(start)
                                   /\ rights[i].fds = outbox[f].fds
                                   /\ outbox[f].fds # <<>>
  /\ \A i, j \in DOMAIN rights : i < j => rights[i].offset < rights[j].offset
  /\ \A f \in DOMAIN outbox :
       outbox[f].fds # <<>> /\ start[f] >= Taken(start) /\ start[f] < Given(start) =>
         \E i \in DOMAIN rights : rights[i].offset = start[f] - Taken(start)

(* Those read came with the first word of the frame.                       *)
MarksInv ==
  fd_marks = IF recv_buf = <<>> \/ outbox[At].fds = <<>> THEN <<>>
             ELSE <<[offset |-> 0, fds |-> Truncated(outbox[At].fds)]>>

ReceivedInv ==
  \A i \in DOMAIN received :
    /\ encode_channel_message(received[i].payload, Len(received[i].fds)) = outbox[i].words
    /\ received[i].fds = outbox[i].fds

StreamInv(start) ==
  /\ Starts(start) /\ SocketInv(start) /\ BufferInv /\ RightsInv(start)
  /\ MarksInv /\ ReceivedInv

(* Once the reader has taken the stream for ended, the writer is silent.   *)
EndInv ==
  reader \in {"PeerClosed", "TruncatedMessage"} =>
    writer = "closed" /\ CloseIsClean

WholeInv == ~damaged => (\E start : StreamInv(start)) /\ EndInv

-----------------------------------------------------------------------------
(* The operators of the channel.                                           *)
LEMMA BeforeProperties ==
  ASSUME NEW marks \in Seq(Marks), NEW n \in Int
  PROVE  /\ Before(marks, n) \in 0 .. Len(marks)
         /\ \A i \in 1 .. Before(marks, n) : marks[i].offset < n
         /\ Before(marks, n) < Len(marks) => marks[Before(marks, n) + 1].offset >= n
<1> DEFINE T == {k \in 0 .. Len(marks) : k < Len(marks) => marks[k + 1].offset >= n}
           P(k) == /\ \A i \in 1 .. k : marks[i].offset < n
                   /\ k < Len(marks) => marks[k + 1].offset >= n
<1>1. /\ T \in SUBSET Nat /\ T # {}
      /\ \A k : k \in T <=> k \in 0 .. Len(marks) /\ (k < Len(marks) => marks[k + 1].offset >= n)
  <2>1. Len(marks) \in Nat
    OBVIOUS
  <2>2. Len(marks) \in T
    BY <2>1
  <2> QED BY <2>1, <2>2
<1> HIDE DEF T
<1>2. PICK k \in T : \A j \in T : k <= j
  BY <1>1, LeastNumber
<1>3. ASSUME NEW i \in 1 .. k PROVE marks[i].offset < n
  <2>1. Len(marks) \in Nat /\ k \in 0 .. Len(marks)
    BY <1>1, <1>2
  <2>2. i - 1 \in 0 .. Len(marks) /\ i - 1 < Len(marks) /\ ~(k <= i - 1) /\ (i - 1) + 1 = i
    BY <2>1
  <2>3. i - 1 \notin T
    BY <1>2, <2>2
  <2>4. ~(marks[i].offset >= n)
    BY <1>1, <2>2, <2>3
  <2>5. marks[i] \in Marks
    BY <2>1, <2>2
  <2>6. marks[i].offset \in Int
    BY <2>5 DEF Marks
  <2> QED BY <2>4, <2>6
<1>4. k \in 0 .. Len(marks) /\ P(k)
  BY <1>1, <1>2, <1>3
<1>5. Before(marks, n) = CHOOSE j \in 0 .. Len(marks) : P(j)
  BY DEF Before
<1> HIDE DEF P
<1>6. Before(marks, n) \in 0 .. Len(marks) /\ P(Before(marks, n))
  BY <1>4, <1>5
<1> QED BY <1>6 DEF P

(* What is left of a sequence behind its first elements.                   *)
LEMMA RestOf ==
  ASSUME NEW S, NEW s \in Seq(S), NEW n \in 0 .. Len(s)
  PROVE  /\ SubSeq(s, n + 1, Len(s)) \in Seq(S)
         /\ Len(SubSeq(s, n + 1, Len(s))) = Len(s) - n
         /\ \A i \in 1 .. Len(s) - n : SubSeq(s, n + 1, Len(s))[i] = s[n + i]
<1>1. Len(s) \in Nat /\ n \in Nat /\ n <= Len(s) /\ \A i \in n + 1 .. Len(s) : s[i] \in S
  OBVIOUS
<1> DEFINE r == SubSeq(s, n + 1, Len(s))
<1>2. /\ r \in Seq(S) /\ Len(r) = IF n + 1 <= Len(s) THEN Len(s) - (n + 1) + 1 ELSE 0
      /\ \A i \in 1 .. Len(s) - (n + 1) + 1 : r[i] = s[n + 1 + i - 1]
  BY <1>1, SubSeqProperties
<1> HIDE DEF r
<1>3. Len(r) = Len(s) - n
  BY <1>1, <1>2
<1>4. ASSUME NEW i \in 1 .. Len(s) - n PROVE r[i] = s[n + i]
  <2>1. i \in 1 .. Len(s) - (n + 1) + 1 /\ n + 1 + i - 1 = n + i
    BY <1>1
  <2> QED BY <1>2, <2>1
<1>5. r \in Seq(S)
  BY <1>2
<1> QED BY <1>3, <1>4, <1>5 DEF r

LEMMA MarksType ==
  ASSUME NEW marks \in Seq(Marks), NEW n \in Int
  PROVE  MarksBefore(marks, n) \in Seq(Marks) /\ MarksFrom(marks, n) \in Seq(Marks)
<1>1. Before(marks, n) \in 0 .. Len(marks)
  BY BeforeProperties
<1>2. \A i \in 1 .. Len(marks) : marks[i] \in Marks
  OBVIOUS
<1> QED BY <1>1, <1>2, SubSeqProperties DEF MarksBefore, MarksFrom

LEMMA FlattenType ==
  ASSUME NEW S, NEW seqs, NEW n \in Nat, seqs \in [1 .. n -> Seq(S)]
  PROVE  FlattenSeq(seqs) \in Seq(S)
<1> DEFINE IsD(f) == f = [i \in 1 .. n |-> IF i = 1 THEN seqs[i] ELSE f[i - 1] \o seqs[i]]
           D == CHOOSE f : IsD(f)
<1>1. Len(seqs) = n
  OBVIOUS
<1>2. CASE n = 0
  <2>1. seqs = <<>>
    BY <1>2
  <2>2. FlattenSeq(seqs) = <<>>
    BY <2>1, <1>1, <1>2 DEF FlattenSeq
  <2> QED BY <2>2, EmptySeq
<1>3. CASE n # 0
  <2>1. FlattenSeq(seqs) = D[n]
    BY <1>1, <1>3 DEF FlattenSeq
  <2>2. PICK h : Joins(h, n, seqs)
    BY JoinsExists
  <2>3. \A i \in 0 .. n : h[i] \in Seq(S)
    BY <2>2, JoinsType
  <2>4. h[0] = <<>> /\ \A i \in 1 .. n : h[i] = h[i - 1] \o seqs[i]
    <3>1. \A i \in 0 .. n : h[i] = IF i = 0 THEN <<>> ELSE h[i - 1] \o seqs[i]
      BY <2>2 DEF Joins
    <3>2. 0 \in 0 .. n /\ \A i \in 1 .. n : i \in 0 .. n /\ i # 0
      OBVIOUS
    <3> QED BY <3>1, <3>2
  <2>5. IsD([i \in 1 .. n |-> h[i]])
    <3> DEFINE e == [i \in 1 .. n |-> h[i]]
    <3>1. ASSUME NEW i \in 1 .. n PROVE h[i] = IF i = 1 THEN seqs[i] ELSE e[i - 1] \o seqs[i]
      <4>1. CASE i = 1
        <5>1. 1 \in 1 .. n /\ 1 - 1 = 0
          BY <4>1
        <5>2. h[1] = h[1 - 1] \o seqs[1]
          BY <2>4, <5>1
        <5>3. h[1] = <<>> \o seqs[1]
          BY <2>4, <5>1, <5>2
        <5>4. seqs[1] \in Seq(S)
          BY <5>1
        <5> QED BY <5>3, <5>4, <4>1, ConcatEmptySeq
      <4>2. CASE i # 1
        <5>1. i - 1 \in 1 .. n
          BY <4>2
        <5> QED BY <2>4, <4>2, <5>1
      <4> QED BY <4>1, <4>2
    <3> QED BY <3>1
  <2>6. IsD(D)
    <3> HIDE DEF IsD
    <3> QED BY <2>5
  <2> HIDE DEF D
  <2>7. ASSUME NEW i \in 1 .. n PROVE D[i] = IF i = 1 THEN seqs[i] ELSE D[i - 1] \o seqs[i]
    BY <2>6
  <2> DEFINE T == {k \in 1 .. n : D[k] \notin Seq(S)}
  <2> SUFFICES ASSUME T # {} PROVE FALSE
    BY <2>1, <1>3
  <2>8. T \in SUBSET Nat /\ \A k : k \in T <=> k \in 1 .. n /\ D[k] \notin Seq(S)
    OBVIOUS
  <2> HIDE DEF T, IsD
  <2>9. PICK m \in T : \A k \in T : m <= k
    BY <2>8, LeastNumber
  <2>10. CASE m = 1
    BY <2>7, <2>8, <2>9, <2>10
  <2>11. CASE m # 1
    <3>1. m \in 1 .. n /\ m - 1 \in 1 .. n /\ ~(m <= m - 1)
      BY <2>8, <2>9, <2>11
    <3>2. D[m - 1] \in Seq(S) /\ seqs[m] \in Seq(S)
      BY <2>8, <2>9, <3>1
    <3>3. D[m - 1] \o seqs[m] \in Seq(S)
      BY <3>2, ConcatProperties
    <3>4. D[m] = D[m - 1] \o seqs[m]
      BY <2>7, <2>11, <3>1
    <3>5. D[m] \notin Seq(S)
      BY <2>8
    <3> QED BY <3>3, <3>4, <3>5
  <2> QED BY <2>10, <2>11
<1> QED BY <1>2, <1>3

LEMMA FdsType ==
  ASSUME NEW marks \in Seq(Marks)
  PROVE  FdsOf(marks) \in Fds
<1> DEFINE g == [i \in DOMAIN marks |-> marks[i].fds]
<1>1. g \in [1 .. Len(marks) -> Seq(Int \X Int)] /\ Len(marks) \in Nat
  <2>1. Len(marks) \in Nat /\ DOMAIN marks = 1 .. Len(marks)
    OBVIOUS
  <2>2. \A i \in 1 .. Len(marks) : marks[i] \in Marks
    OBVIOUS
  <2>3. \A i \in 1 .. Len(marks) : marks[i].fds \in Seq(Int \X Int)
    BY <2>2 DEF Marks, Fds
  <2> QED BY <2>1, <2>3
<1>2. FdsOf(marks) = FlattenSeq(g)
  BY DEF FdsOf
<1> HIDE DEF g
<1> QED BY <1>1, <1>2, FlattenType DEF Fds

LEMMA FdsOfNone == FdsOf(<<>>) = <<>>
BY DEF FdsOf, FlattenSeq

LEMMA FdsOfOne ==
  ASSUME NEW mark \in Marks
  PROVE  FdsOf(<<mark>>) = mark.fds
<1> DEFINE a == <<mark.fds>>
           IsD(f) == f = [i \in 1 .. 1 |-> IF i = 1 THEN a[i] ELSE f[i - 1] \o a[i]]
           D == CHOOSE f : IsD(f)
<1>1. Len(a) = 1 /\ a[1] = mark.fds /\ a = [i \in DOMAIN <<mark>> |-> <<mark>>[i].fds]
  OBVIOUS
<1>2. FdsOf(<<mark>>) = FlattenSeq(a)
  BY <1>1 DEF FdsOf
<1>3. FlattenSeq(a) = D[1]
  BY <1>1 DEF FlattenSeq
<1>4. IsD([i \in 1 .. 1 |-> a[1]])
  OBVIOUS
<1>5. IsD(D)
  <2> HIDE DEF IsD
  <2> QED BY <1>4
<1>6. D[1] = a[1]
  <2> HIDE DEF D, a
  <2> QED BY <1>5
<1> QED BY <1>1, <1>2, <1>3, <1>6

LEMMA TruncatedProperties ==
  ASSUME NEW fds \in Fds
  PROVE  /\ Truncated(fds) \in Fds
         /\ Len(Truncated(fds)) = Len(fds) => Truncated(fds) = fds
         /\ fds = <<>> <=> Truncated(fds) = <<>>
<1>1. \A i \in 1 .. Len(fds) : fds[i] \in Int \X Int
  BY DEF Fds
<1>2. Len(fds) \in Nat
  BY DEF Fds
<1> DEFINE n == IF Len(fds) < MaxFdsPerRecv THEN Len(fds) ELSE MaxFdsPerRecv
<1>3. n \in 0 .. Len(fds) /\ (n = 0 => Len(fds) = 0) /\ Truncated(fds) = SubSeq(fds, 1, n)
  BY <1>2, MaxFdsAssumption DEF Truncated
<1> HIDE DEF n
<1>4. Truncated(fds) \in Fds /\ Len(Truncated(fds)) = n
  BY <1>1, <1>3, SubSeqProperties DEF Fds
<1>5. n = Len(fds) => Truncated(fds) = fds
  BY <1>3, SubSeqFull DEF Fds
<1>6. (fds = <<>> <=> Len(fds) = 0) /\ (Truncated(fds) = <<>> <=> n = 0)
  BY <1>4 DEF Fds
<1> QED BY <1>3, <1>4, <1>5, <1>6

LEMMA EncodedFrame ==
  ASSUME NEW payload \in Seq(Int), NEW n \in Int
  PROVE  /\ encode_channel_message(payload, n) \in Seq(Int)
         /\ Len(encode_channel_message(payload, n)) = 4 + Len(payload)
         /\ encode_channel_message(payload, n)[1] = 16 + 65536 * n
         /\ encode_channel_message(payload, n)[2] = 16 + 4 * Len(payload)
         /\ SubSeq(encode_channel_message(payload, n), 5, 4 + Len(payload)) = payload
<1> DEFINE header == <<16 + 65536 * n, 16 + 4 * Len(payload), 0, 0>>
<1>1. header \in Seq(Int) /\ Len(header) = 4 /\ Len(payload) \in Nat
  OBVIOUS
<1>2. encode_channel_message(payload, n) = header \o payload
  BY DEF encode_channel_message, IPCZ_HEADER_SIZE
<1>3. header[1] = 16 + 65536 * n /\ header[2] = 16 + 4 * Len(payload)
  OBVIOUS
<1> HIDE DEF header
<1>4. /\ header \o payload \in Seq(Int)
      /\ Len(header \o payload) = 4 + Len(payload)
      /\ \A i \in 1 .. 4 + Len(payload) :
           (header \o payload)[i] = IF i <= 4 THEN header[i] ELSE payload[i - 4]
  <2>1. /\ header \o payload \in Seq(Int)
        /\ Len(header \o payload) = Len(header) + Len(payload)
        /\ \A i \in 1 .. Len(header) + Len(payload) :
             (header \o payload)[i] = IF i <= Len(header) THEN header[i]
                                      ELSE payload[i - Len(header)]
    BY <1>1, ConcatProperties
  <2> QED BY <1>1, <2>1
<1>5. \A i \in 1 .. Len(payload) : (header \o payload)[i + 4] = payload[i]
  <2> SUFFICES ASSUME NEW i \in 1 .. Len(payload) PROVE (header \o payload)[i + 4] = payload[i]
    OBVIOUS
  <2>1. i + 4 \in 1 .. 4 + Len(payload) /\ ~(i + 4 <= 4) /\ (i + 4) - 4 = i
    BY <1>1
  <2> QED BY <1>4, <2>1
<1>6. 1 \in 1 .. 4 + Len(payload) /\ 2 \in 1 .. 4 + Len(payload)
  BY <1>1
<1>7. (header \o payload)[1] = header[1] /\ (header \o payload)[2] = header[2]
  BY <1>4, <1>6
<1>8. /\ (header \o payload)[1] = 16 + 65536 * n
      /\ (header \o payload)[2] = 16 + 4 * Len(payload)
  BY <1>3, <1>7
<1>9. encode_channel_message(payload, n) \in Seq(Int)
  BY <1>2, <1>4
<1>10. Len(encode_channel_message(payload, n)) = 4 + Len(payload)
  BY <1>2, <1>4
<1>11. /\ encode_channel_message(payload, n)[1] = 16 + 65536 * n
       /\ encode_channel_message(payload, n)[2] = 16 + 4 * Len(payload)
  BY <1>2, <1>8
<1>12. SubSeq(encode_channel_message(payload, n), 5, 4 + Len(payload)) = payload
  <2> DEFINE e == header \o payload
             q == SubSeq(e, 5, 4 + Len(payload))
  <2>1. \A i \in 5 .. 4 + Len(payload) : e[i] \in Int
    BY <1>1, <1>4
  <2> HIDE DEF e
  <2>2. /\ q \in Seq(Int) /\ Len(q) = Len(payload)
        /\ \A i \in 1 .. 4 + Len(payload) - 5 + 1 : q[i] = e[5 + i - 1]
    BY <1>1, <2>1, SubSeqProperties
  <2> HIDE DEF q
  <2>3. \A i \in 1 .. Len(payload) : q[i] = payload[i]
    <3> SUFFICES ASSUME NEW i \in 1 .. Len(payload) PROVE q[i] = payload[i]
      OBVIOUS
    <3>1. i \in 1 .. 4 + Len(payload) - 5 + 1 /\ 5 + i - 1 = i + 4
      BY <1>1
    <3>2. e[i + 4] = payload[i]
      BY <1>5 DEF e
    <3> QED BY <2>2, <3>1, <3>2
  <2>4. q = payload
    BY <2>2, <2>3, SMTT(30)
  <2> QED BY <1>2, <2>4 DEF q, e
<1> QED BY <1>9, <1>10, <1>11, <1>12

LEMMA FrameType ==
  ASSUME NEW m, IsMessage(m), NEW i \in Int
  PROVE  /\ FdsFor(m, i) \in Fds /\ Len(FdsFor(m, i)) = Len(m.objects)
         /\ Len(m.objects) < 65536
         /\ FrameWords(m, i) \in Seq(Int) /\ Len(FrameWords(m, i)) >= 10
         /\ \E payload \in Seq(Int) :
              FrameWords(m, i) = encode_channel_message(payload, Len(m.objects))
<1>1. /\ m.objects \in Seq(Seq(Int)) /\ Len(m.objects) < 65536
      /\ Len(m.objects) \in Nat /\ DOMAIN m.objects = 1 .. Len(m.objects)
  BY DEF IsMessage
<1>2. FdsFor(m, i) \in Fds /\ Len(FdsFor(m, i)) = Len(m.objects)
  BY <1>1 DEF FdsFor, Fds
<1> DEFINE payload == set_message_sequence_number(Encode(m), i - 1)
<1>3. payload \in Seq(Int) /\ Len(payload) >= 6 /\ Len(payload) \in Nat
  <2>1. Encode(m) \in Seq(Int) /\ Len(Encode(m)) >= 6
    BY EncodeType
  <2>2. [Encode(m) EXCEPT ![3] = i - 1, ![4] = 0] \in Seq(Int)
    BY <2>1
  <2> QED BY <2>1, <2>2 DEF set_message_sequence_number
<1> HIDE DEF payload
<1>4. FrameWords(m, i) = encode_channel_message(payload, Len(m.objects))
  BY DEF FrameWords, payload
<1>5. /\ encode_channel_message(payload, Len(m.objects)) \in Seq(Int)
      /\ Len(encode_channel_message(payload, Len(m.objects))) = 4 + Len(payload)
  <2>1. Len(m.objects) \in Int
    BY <1>1
  <2> DEFINE k == Len(m.objects)
  <2> HIDE DEF k
  <2>2. k \in Int
    BY <2>1 DEF k
  <2>3. payload \in Seq(Int)
    BY <1>3
  <2>4. encode_channel_message(payload, k) \in Seq(Int)
    BY <2>2, <2>3, EncodedFrame
  <2>5. Len(encode_channel_message(payload, k)) = 4 + Len(payload)
    BY <2>2, <2>3, EncodedFrame
  <2> QED BY <2>4, <2>5 DEF k
<1>6. FrameWords(m, i) \in Seq(Int) /\ Len(FrameWords(m, i)) >= 10
  BY <1>3, <1>4, <1>5
<1> QED BY <1>1, <1>2, <1>3, <1>4, <1>6

(* The scenarios are sequences of messages.                                *)
LEMMA InitOutbox == Init => OutboxInv
<1> SUFFICES ASSUME Init PROVE OutboxInv
  OBVIOUS
<1>1. ASSUME NEW ends,
             messages \in Seq({messages[i] : i \in DOMAIN messages}),
             \A i \in DOMAIN messages : IsMessage(messages[i]),
             outbox = [i \in DOMAIN messages |->
                         Outgoing(messages[i], i, FrameWords(messages[i], i), ends[i])],
             \A i \in DOMAIN messages :
               \/ ends[i] = PieceEnds(Len(FrameWords(messages[i], i)))
               \/ ends[i] = {Len(FrameWords(messages[i], i))}
      PROVE  OutboxInv
  <2>1. Len(messages) \in Nat /\ DOMAIN messages = 1 .. Len(messages)
    BY <1>1
  <2>2. ASSUME NEW i \in DOMAIN messages
        PROVE  /\ outbox[i] \in Frames /\ Len(outbox[i].words) >= 5
               /\ outbox[i].ends \subseteq 1 .. Len(outbox[i].words)
               /\ Undamaged(outbox[i])
    <3>1. i \in Int /\ IsMessage(messages[i])
      BY <2>1, <1>1
    <3>2. /\ FrameWords(messages[i], i) \in Seq(Int) /\ Len(FrameWords(messages[i], i)) >= 10
          /\ FdsFor(messages[i], i) \in Fds
      BY <3>1, FrameType
    <3>3. outbox[i] = [words |-> FrameWords(messages[i], i), fds |-> FdsFor(messages[i], i),
                       ends |-> ends[i]]
      BY <1>1 DEF Outgoing
    <3>4. ends[i] \subseteq 1 .. Len(FrameWords(messages[i], i))
      <4>1. \A len \in Int : len >= 10 => /\ PieceEnds(len) \subseteq 1 .. len
                                          /\ {len} \subseteq 1 .. len
        BY DEF PieceEnds
      <4>2. Len(FrameWords(messages[i], i)) \in Int
        BY <3>2
      <4> QED BY <1>1, <3>2, <4>1, <4>2
    <3>5. ends[i] \in SUBSET Nat
      BY <3>4
    <3>6. Undamaged(outbox[i])
      <4>1. /\ Len(FdsFor(messages[i], i)) = Len(messages[i].objects)
            /\ Len(messages[i].objects) < 65536
            /\ \E payload \in Seq(Int) :
                 FrameWords(messages[i], i)
                   = encode_channel_message(payload, Len(messages[i].objects))
        BY <3>1, FrameType
      <4>2. outbox[i].words = FrameWords(messages[i], i) /\ outbox[i].fds = FdsFor(messages[i], i)
        BY <3>3
      <4> QED BY <4>1, <4>2 DEF Undamaged
    <3> QED BY <3>2, <3>3, <3>4, <3>5, <3>6 DEF Frames
  <2>3. outbox \in [1 .. Len(messages) -> Frames]
    BY <1>1, <2>1, <2>2
  <2>4. outbox \in Seq(Frames) /\ DOMAIN outbox = DOMAIN messages
    BY <2>1, <2>3
  <2> QED BY <2>2, <2>4 DEF OutboxInv
<1>2. ASSUME messages \in Scenarios \cup BrokerScenarios
      PROVE  /\ messages \in Seq({messages[i] : i \in DOMAIN messages})
             /\ \A i \in DOMAIN messages : IsMessage(messages[i])
  BY <1>2, StreamAssumption
<1>3. ASSUME NEW m \in Singles \cup DamagedMessages, messages = <<m>>
      PROVE  /\ messages \in Seq({messages[i] : i \in DOMAIN messages})
             /\ \A i \in DOMAIN messages : IsMessage(messages[i])
             /\ DOMAIN messages = {1} /\ IsMessage(messages[1])
  <2>1. IsMessage(m)
    BY StreamAssumption
  <2> QED BY <2>1, <1>3
<1> DEFINE whole == [i \in DOMAIN messages |-> {Len(FrameWords(messages[i], i))}]
           cut == [i \in DOMAIN messages |-> PieceEnds(Len(FrameWords(messages[i], i)))]
<1>4. CASE InitBroker
  <2>1. messages \in BrokerScenarios
    BY <1>4 DEF InitBroker
  <2>2. outbox = [i \in DOMAIN messages |->
                    Outgoing(messages[i], i, FrameWords(messages[i], i), whole[i])]
    BY <1>4 DEF InitBroker
  <2>3. \A i \in DOMAIN messages : whole[i] = {Len(FrameWords(messages[i], i))}
    OBVIOUS
  <2> HIDE DEF whole
  <2> QED BY <2>1, <2>2, <2>3, <1>1, <1>2
<1>5. ASSUME messages \in Scenarios,
             outbox = [i \in DOMAIN messages |->
                         LET words == FrameWords(messages[i], i)
                         IN  Outgoing(messages[i], i, words, PieceEnds(Len(words)))]
      PROVE  OutboxInv
  <2>2. outbox = [i \in DOMAIN messages |->
                    Outgoing(messages[i], i, FrameWords(messages[i], i), cut[i])]
    BY <1>5
  <2>3. \A i \in DOMAIN messages : cut[i] = PieceEnds(Len(FrameWords(messages[i], i)))
    OBVIOUS
  <2> HIDE DEF cut
  <2> QED BY <2>2, <2>3, <1>1, <1>2, <1>5
<1>6. ASSUME messages \in {<<m>> : m \in Singles},
             outbox = [i \in {1} |->
                         LET words == FrameWords(messages[i], i)
                         IN  Outgoing(messages[i], i, words, {Len(words)})]
      PROVE  OutboxInv
  <2>1. PICK m \in Singles : messages = <<m>>
    BY <1>6
  <2>2. /\ messages \in Seq({messages[i] : i \in DOMAIN messages})
        /\ \A i \in DOMAIN messages : IsMessage(messages[i])
        /\ DOMAIN messages = {1}
    BY <2>1, <1>3
  <2>3. outbox = [i \in DOMAIN messages |->
                    Outgoing(messages[i], i, FrameWords(messages[i], i), whole[i])]
    BY <1>6, <2>2
  <2>4. \A i \in DOMAIN messages : whole[i] = {Len(FrameWords(messages[i], i))}
    OBVIOUS
  <2> HIDE DEF whole
  <2> QED BY <2>2, <2>3, <2>4, <1>1
<1>7. CASE InitUndamaged
  BY <1>5, <1>6, <1>7 DEF InitUndamaged
<1>8. CASE InitDamaged
  <2> DEFINE fw == FrameWords(messages[1], 1)
             fds == FdsFor(messages[1], 1)
  <2>1. PICK m \in DamagedMessages : messages = <<m>>
    BY <1>8 DEF InitDamaged
  <2>2. IsMessage(messages[1])
    BY <2>1, <1>3
  <2>3. fw \in Seq(Int) /\ Len(fw) >= 10 /\ fds \in Fds
    BY <2>2, FrameType
  <2>40. PICK w \in 1 .. Len(fw) : \E v \in DamagedValues(fw, w) :
          outbox = <<Outgoing(messages[1], 1, [fw EXCEPT ![w] = v], {Len(fw)})>>
    BY <1>8 DEF InitDamaged
  <2>4. PICK v \in DamagedValues(fw, w) :
          outbox = <<Outgoing(messages[1], 1, [fw EXCEPT ![w] = v], {Len(fw)})>>
    BY <2>40
  <2> HIDE DEF fw, fds
  <2>5. v \in Int
    BY <2>3, <2>4, StreamAssumption DEF DamagedValues, MaxMessageSize
  <2>6. [fw EXCEPT ![w] = v] \in Seq(Int) /\ Len([fw EXCEPT ![w] = v]) = Len(fw)
    BY <2>3, <2>5
  <2>7. outbox = <<[words |-> [fw EXCEPT ![w] = v], fds |-> fds, ends |-> {Len(fw)}]>>
    BY <2>4 DEF Outgoing, fds
  <2>8. {Len(fw)} \in SUBSET Nat /\ {Len(fw)} \subseteq 1 .. Len(fw)
    BY <2>3
  <2>9. damaged
    BY <1>8 DEF InitDamaged
  <2> DEFINE e == [fw EXCEPT ![w] = v]
             fr == [words |-> e, fds |-> fds, ends |-> {Len(fw)}]
  <2>10. fr \in Frames /\ Len(fr.words) >= 5 /\ fr.ends \subseteq 1 .. Len(fr.words)
    <3> HIDE DEF e
    <3> QED BY <2>3, <2>6, <2>8 DEF Frames, e
  <2>11. outbox = <<fr>>
    BY <2>7
  <2> HIDE DEF fr
  <2> QED BY <2>9, <2>10, <2>11 DEF OutboxInv
<1> QED BY <1>4, <1>7, <1>8 DEF Init

LEMMA StartsExist ==
  ASSUME OutboxInv
  PROVE  \E start : Starts(start)
<1> DEFINE n == Len(outbox) + 1
           h == [i \in 1 .. n |-> IF i = n THEN 0 ELSE Len(outbox[i].words)]
<1>1. /\ n \in Nat /\ n >= 1 /\ DOMAIN outbox = 1 .. n - 1
      /\ \A f \in DOMAIN outbox : Len(outbox[f].words) \in Nat
  <2>1. outbox \in Seq(Frames)
    BY DEF OutboxInv
  <2>2. \A f \in DOMAIN outbox : outbox[f] \in Frames
    BY <2>1
  <2> QED BY <2>1, <2>2 DEF Frames
<1>2. PICK start : Offsets(start, n, 0, h)
  BY <1>1, OffsetsExist
<1>3. /\ \A i \in 1 .. n : h[i] \in Nat
      /\ \A f \in DOMAIN outbox : h[f] = Len(outbox[f].words)
  BY <1>1
<1> HIDE DEF n, h
<1>4. /\ start = [i \in 1 .. n |-> start[i]]
      /\ \A i \in 1 .. n : start[i] = IF i = 1 THEN 0 ELSE start[i - 1] + h[i - 1]
  BY <1>2 DEF Offsets
<1>5. start[1] = 0
  <2>1. 1 \in 1 .. n
    BY <1>1
  <2> QED BY <1>4, <2>1
<1>6. ASSUME NEW f \in DOMAIN outbox
      PROVE  start[f + 1] = start[f] + Len(outbox[f].words)
  <2>1. f + 1 \in 1 .. n /\ f + 1 # 1 /\ (f + 1) - 1 = f
    BY <1>1
  <2> QED BY <1>3, <1>4, <2>1
<1>7. \A i \in 1 .. n : start[i] \in Nat
  <2> DEFINE T == {k \in 1 .. n : start[k] \notin Nat}
  <2> SUFFICES ASSUME T # {} PROVE FALSE
    OBVIOUS
  <2>1. T \in SUBSET Nat /\ \A k : k \in T <=> k \in 1 .. n /\ start[k] \notin Nat
    BY <1>1
  <2> HIDE DEF T
  <2>2. PICK m \in T : \A k \in T : m <= k
    BY <2>1, LeastNumber
  <2>3. CASE m = 1
    BY <1>5, <2>1, <2>2, <2>3
  <2>4. CASE m # 1
    <3>1. m - 1 \in DOMAIN outbox /\ m - 1 \in 1 .. n /\ ~(m <= m - 1) /\ (m - 1) + 1 = m
      BY <1>1, <2>1, <2>2, <2>4
    <3>2. start[m - 1] \in Nat /\ start[m] \notin Nat
      BY <2>1, <2>2, <3>1
    <3>3. start[m] = start[m - 1] + Len(outbox[m - 1].words)
      BY <1>6, <3>1
    <3> QED BY <1>1, <3>1, <3>2, <3>3
  <2> QED BY <2>3, <2>4
<1>8. ASSUME NEW f \in DOMAIN outbox, NEW g \in 1 .. n, f < g
      PROVE  start[f] + Len(outbox[f].words) <= start[g]
  <2> DEFINE T == {k \in 1 .. n : f < k /\ ~(start[f] + Len(outbox[f].words) <= start[k])}
  <2> SUFFICES ASSUME T # {} PROVE FALSE
    BY <1>8
  <2>1. /\ T \in SUBSET Nat
        /\ \A k : k \in T <=>
             /\ k \in 1 .. n
             /\ f < k /\ ~(start[f] + Len(outbox[f].words) <= start[k])
    BY <1>1
  <2> HIDE DEF T
  <2>2. PICK m \in T : \A k \in T : m <= k
    BY <2>1, LeastNumber
  <2>3. f \in 1 .. n /\ start[f] \in Nat /\ Len(outbox[f].words) \in Nat
    BY <1>1, <1>7
  <2>4. CASE m = f + 1
    <3>1. start[m] = start[f] + Len(outbox[f].words)
      BY <1>6, <2>4
    <3> QED BY <2>1, <2>2, <2>3, <3>1
  <2>5. CASE m # f + 1
    <3>1. m \in 1 .. n /\ f < m /\ f \in Nat /\ m \in Nat
      BY <2>1, <2>2, <2>3
    <3>2. m - 1 \in DOMAIN outbox /\ m - 1 \in 1 .. n /\ f < m - 1 /\ ~(m <= m - 1) /\ (m - 1) + 1 = m
      BY <1>1, <2>5, <3>1
    <3>3. start[f] + Len(outbox[f].words) <= start[m - 1]
      BY <2>1, <2>2, <3>2
    <3>4. start[m] = start[m - 1] + Len(outbox[m - 1].words)
      BY <1>6, <3>2
    <3>5. start[m] \in Nat /\ start[m - 1] \in Nat /\ Len(outbox[m - 1].words) \in Nat
      BY <1>1, <1>7, <3>1, <3>2
    <3>6. start[f] + Len(outbox[f].words) <= start[m]
      <4>1. PICK x \in Nat : x = start[f] + Len(outbox[f].words)
        BY <2>3
      <4>2. PICK y \in Nat : y = start[m - 1]
        BY <3>5
      <4>3. PICK z \in Nat : z = Len(outbox[m - 1].words)
        BY <3>5
      <4>4. x <= y
        BY <3>3, <4>1, <4>2
      <4>5. start[m] = y + z
        BY <3>4, <4>2, <4>3
      <4>6. x <= y + z
        BY <4>4
      <4> QED BY <4>1, <4>5, <4>6
    <3> QED BY <2>1, <2>2, <3>6
  <2> QED BY <2>4, <2>5
<1>9. start \in [1 .. n -> Nat]
  BY <1>4, <1>7
<1> QED BY <1>5, <1>6, <1>8, <1>9 DEF Starts, n

LEMMA ShiftProperties ==
  ASSUME NEW marks \in Seq(Marks), NEW n \in Int
  PROVE  /\ Shift(marks, n) \in Seq(Marks) /\ Len(Shift(marks, n)) = Len(marks)
         /\ \A i \in 1 .. Len(marks) : /\ Shift(marks, n)[i].offset = marks[i].offset - n
                                       /\ Shift(marks, n)[i].fds = marks[i].fds
<1>1. \A i \in 1 .. Len(marks) : marks[i] \in Marks
  OBVIOUS
<1>2. \A mark \in Marks : /\ [mark EXCEPT !.offset = @ - n] \in Marks
                          /\ [mark EXCEPT !.offset = @ - n].offset = mark.offset - n
                          /\ [mark EXCEPT !.offset = @ - n].fds = mark.fds
  BY DEF Marks
<1>3. Shift(marks, n) = [i \in 1 .. Len(marks) |-> [marks[i] EXCEPT !.offset = @ - n]]
  BY DEF Shift
<1>4. \A i \in 1 .. Len(marks) : Shift(marks, n)[i] = [marks[i] EXCEPT !.offset = @ - n]
  BY <1>3
<1>5. Shift(marks, n) \in [1 .. Len(marks) -> Marks]
  BY <1>1, <1>2, <1>3
<1>6. Shift(marks, n) \in Seq(Marks) /\ Len(Shift(marks, n)) = Len(marks)
  BY <1>5
<1> QED BY <1>1, <1>2, <1>4, <1>6

LEMMA SaturatingShiftType ==
  ASSUME NEW marks \in Seq(Marks), NEW n \in Int
  PROVE  SaturatingShift(marks, n) \in Seq(Marks)
<1>1. \A i \in 1 .. Len(marks) : marks[i] \in Marks
  OBVIOUS
<1>2. \A mark \in Marks : [mark EXCEPT !.offset = IF @ < n THEN 0 ELSE @ - n] \in Marks
  BY DEF Marks
<1>3. SaturatingShift(marks, n)
        = [i \in 1 .. Len(marks) |-> [marks[i] EXCEPT !.offset = IF @ < n THEN 0 ELSE @ - n]]
  BY DEF SaturatingShift
<1>4. SaturatingShift(marks, n) \in [1 .. Len(marks) -> Marks]
  BY <1>1, <1>2, <1>3
<1> QED BY <1>4

(* How many words a read asks for.                                         *)
LEMMA NeededProperties ==
  ASSUME NEW buf \in Seq(Int), ~HeaderRefused(buf), ~has_complete_message(buf)
  PROVE  Needed(buf) \in Nat
<1>1. Len(buf) \in Nat /\ (HasHeader(buf) => buf[2] \in Int)
  BY DEF HasHeader, IPCZ_HEADER_SIZE
<1>2. CASE ~HasHeader(buf)
  BY <1>1, <1>2 DEF HasHeader, Needed, IPCZ_HEADER_SIZE
<1>3. CASE HasHeader(buf)
  <2>1. buf[2] >= 16 /\ ~(buf[2] <= 4 * Len(buf))
    BY <1>1, <1>3 DEF HeaderRefused, has_complete_message, NumBytes, IPCZ_HEADER_SIZE
  <2>2. buf[2] \div 4 >= Len(buf) /\ buf[2] \div 4 \in Int
    BY <1>1, <1>3, <2>1
  <2> QED BY <1>1, <1>3, <2>2 DEF Needed, NumBytes
<1> QED BY <1>2, <1>3

-----------------------------------------------------------------------------
(* The types.                                                              *)
LEMMA Typed ==
  ASSUME TypeInv
  PROVE  /\ DOMAIN outbox = 1 .. Len(outbox) /\ Len(outbox) \in Nat
         /\ next \in Nat /\ next >= 1 /\ next <= Len(outbox) + 1 /\ sent \in Nat
         /\ \A f \in DOMAIN outbox : /\ f \in Nat /\ outbox[f].words \in Seq(Int)
                                     /\ outbox[f].fds \in Fds
                                     /\ Len(outbox[f].words) \in Nat /\ Len(outbox[f].words) >= 5
         /\ Len(socket) \in Nat /\ Len(recv_buf) \in Nat /\ Len(rights) \in Nat
         /\ Len(fd_marks) \in Nat /\ Len(received) \in Nat /\ Len(decoded) \in Nat
<1>1. outbox \in Seq(Frames) /\ \A f \in DOMAIN outbox : Len(outbox[f].words) >= 5
  BY DEF TypeInv, OutboxInv
<1>2. \A f \in DOMAIN outbox : outbox[f] \in Frames
  BY <1>1
<1>3. \A f \in DOMAIN outbox : /\ f \in Nat /\ outbox[f].words \in Seq(Int)
                               /\ outbox[f].fds \in Fds /\ Len(outbox[f].words) \in Nat
  BY <1>1, <1>2 DEF Frames
<1>4. /\ Len(socket) \in Nat /\ Len(recv_buf) \in Nat /\ Len(rights) \in Nat
      /\ Len(fd_marks) \in Nat /\ Len(received) \in Nat /\ Len(decoded) \in Nat
  BY DEF TypeInv, ReaderInv, DecodedInv
<1>5. DOMAIN outbox = 1 .. Len(outbox) /\ Len(outbox) \in Nat
  BY <1>1
<1>6. next \in Nat /\ next >= 1 /\ next <= Len(outbox) + 1 /\ sent \in Nat
  BY <1>5 DEF TypeInv, WriterInv
<1> QED BY <1>1, <1>3, <1>4, <1>5, <1>6

LEMMA InitType == Init => TypeInv
<1> SUFFICES ASSUME Init PROVE TypeInv
  OBVIOUS
<1>1. OutboxInv
  BY InitOutbox
<1>2. /\ next = 1 /\ sent = 0 /\ socket = <<>> /\ recv_buf = <<>> /\ rights = <<>>
      /\ fd_marks = <<>> /\ received = <<>> /\ decoded = <<>>
  BY DEF Init, ChannelInit
<1>3. Len(outbox) \in Nat
  BY <1>1 DEF OutboxInv
<1>4. WriterInv
  BY <1>2, <1>3 DEF WriterInv
<1>5. ReaderInv
  <2>1. /\ <<>> \in Seq(Int) /\ <<>> \in Seq(Marks) /\ <<>> \in Seq(Messages)
    BY EmptySeq
  <2> QED BY <1>2, <2>1 DEF ReaderInv
<1>6. DecodedInv
  <2>1. <<>> \in Seq(Results) /\ Len(<<>>) = 0 /\ DOMAIN <<>> = {}
    BY EmptySeq
  <2> QED BY <1>2, <2>1 DEF DecodedInv
<1> QED BY <1>1, <1>4, <1>5, <1>6 DEF TypeInv

(* A step leaves the frames alone.                                         *)
LEMMA FramesStay == [Next]_vars => outbox' = outbox /\ damaged' = damaged
BY DEF Next, WriterStep, ReaderStep, GiveUp, Decode, Reply, Done, SendPiece, Send, SendFails,
       Close, Read, Assemble, ReadError, ReadEnd, TimeOut, vars, streamVars, channelVars

LEMMA OutboxStep ==
  ASSUME OutboxInv, outbox' = outbox, damaged' = damaged
  PROVE  OutboxInv'
BY DEF OutboxInv, Undamaged

LEMMA SendType ==
  ASSUME TypeInv, SendPiece
  PROVE  WriterInv' /\ ReaderInv'
<1>1. PICK end \in Frame.ends : Send(end)
  BY DEF SendPiece
<1>2. next \in DOMAIN outbox
  BY Typed DEF SendPiece
<1>3. /\ outbox[next].words \in Seq(Int) /\ end \in 1 .. Len(outbox[next].words)
      /\ Len(outbox[next].words) \in Nat /\ end > sent /\ sent \in Nat
      /\ outbox[next].fds \in Fds
  BY <1>1, <1>2, Typed DEF TypeInv, OutboxInv, Frame, Send
<1>4. WriterInv'
  <2>1. next + 1 \in 1 .. Len(outbox) + 1 /\ next <= Len(outbox)
    BY <1>2, Typed, SMTT(30)
  <2>2. CASE end = Len(outbox[next].words)
    <3>1. next' = next + 1 /\ sent' = 0 /\ outbox' = outbox
      BY <1>1, <2>2 DEF Send, Frame
    <3> QED BY <2>1, <3>1 DEF WriterInv
  <2>3. CASE end # Len(outbox[next].words)
    <3>1. next' = next /\ sent' = end /\ outbox' = outbox
      BY <1>1, <2>3 DEF Send, Frame
    <3> QED BY <1>3, <2>1, <2>3, <3>1 DEF WriterInv, TypeInv
  <2> QED BY <2>2, <2>3
<1>5. socket' \in Seq(Int)
  <2>1. SubSeq(outbox[next].words, sent + 1, end) \in Seq(Int)
    <3>1. \A i \in sent + 1 .. end : outbox[next].words[i] \in Int
      BY <1>3
    <3> QED BY <1>3, <3>1, SubSeqProperties
  <2>2. socket' = socket \o SubSeq(outbox[next].words, sent + 1, end) /\ socket \in Seq(Int)
    BY <1>1 DEF Send, Frame, TypeInv, ReaderInv
  <2> QED BY <2>1, <2>2, ConcatProperties
<1>6. rights' \in Seq(Marks)
  <2>1. rights \in Seq(Marks) /\ rights' = RightsWith(rights, Len(socket)) /\ Len(socket) \in Int
    BY <1>1, Typed DEF Send, TypeInv, ReaderInv
  <2>2. [offset |-> Len(socket), fds |-> outbox[next].fds] \in Marks
    BY <1>3, <2>1 DEF Marks
  <2>3. Append(rights, [offset |-> Len(socket), fds |-> outbox[next].fds]) \in Seq(Marks)
    BY <2>1, <2>2
  <2> QED BY <2>1, <2>3 DEF RightsWith, Frame
<1>7. recv_buf' = recv_buf /\ fd_marks' = fd_marks /\ received' = received
  BY <1>1 DEF Send
<1> QED BY <1>4, <1>5, <1>6, <1>7 DEF TypeInv, ReaderInv

LEMMA ReadCount ==
  ASSUME TypeInv, Read
  PROVE  \E n \in 0 .. Len(socket) :
           /\ n = IF Needed(recv_buf) < Len(socket) THEN Needed(recv_buf) ELSE Len(socket)
           /\ recv_with_fds(n, extract_fds(n))
<1>1. Needed(recv_buf) \in Nat
  BY NeededProperties DEF Read, TypeInv, ReaderInv
<1>2. Len(socket) \in Nat
  BY Typed
<1> DEFINE n == IF Needed(recv_buf) < Len(socket) THEN Needed(recv_buf) ELSE Len(socket)
<1>3. n \in 0 .. Len(socket)
  BY <1>1, <1>2
<1>4. recv_with_fds(n, extract_fds(n))
  BY DEF Read
<1> HIDE DEF n
<1>5. n = IF Needed(recv_buf) < Len(socket) THEN Needed(recv_buf) ELSE Len(socket)
  BY DEF n
<1> QED BY <1>3, <1>4, <1>5

LEMMA ReadType ==
  ASSUME TypeInv, Read
  PROVE  ReaderInv'
<1>1. PICK n \in 0 .. Len(socket) : recv_with_fds(n, extract_fds(n))
  BY ReadCount
<1>2. /\ socket \in Seq(Int) /\ recv_buf \in Seq(Int) /\ rights \in Seq(Marks)
      /\ fd_marks \in Seq(Marks) /\ received \in Seq(Messages)
      /\ Len(socket) \in Nat /\ n \in Nat /\ n <= Len(socket)
  BY <1>1, Typed DEF TypeInv, ReaderInv
<1>3. recv_buf' \in Seq(Int)
  <2>1. SubSeq(socket, 1, n) \in Seq(Int)
    BY <1>2
  <2>2. recv_buf' = recv_buf \o SubSeq(socket, 1, n)
    BY <1>1 DEF recv_with_fds
  <2> QED BY <1>2, <2>1, <2>2, ConcatProperties
<1>4. socket' \in Seq(Int)
  <2>1. SubSeq(socket, n + 1, Len(socket)) \in Seq(Int)
    BY <1>2
  <2>2. socket' = SubSeq(socket, n + 1, Len(socket))
    BY <1>1 DEF recv_with_fds
  <2> QED BY <2>1, <2>2
<1>5. rights' \in Seq(Marks)
  <2>1. rights' = Shift(MarksFrom(rights, n), n)
    BY <1>1 DEF recv_with_fds
  <2> QED BY <1>2, <2>1, MarksType, ShiftProperties
<1>6. fd_marks' \in Seq(Marks)
  <2> DEFINE fds == extract_fds(n)
  <2>1. fds \in Fds
    <3>1. MarksBefore(rights, n) \in Seq(Marks)
      BY <1>2, MarksType
    <3>2. FdsOf(MarksBefore(rights, n)) \in Fds
      BY <3>1, FdsType
    <3> QED BY <3>2, TruncatedProperties DEF extract_fds
  <2>2. fd_marks' = IF fds = <<>> THEN fd_marks
                    ELSE Append(fd_marks, [offset |-> Len(recv_buf), fds |-> fds])
    BY <1>1 DEF recv_with_fds
  <2> HIDE DEF fds
  <2>3. [offset |-> Len(recv_buf), fds |-> fds] \in Marks
    BY <2>1, Typed DEF Marks
  <2>4. Append(fd_marks, [offset |-> Len(recv_buf), fds |-> fds]) \in Seq(Marks)
    BY <1>2, <2>3
  <2> QED BY <1>2, <2>2, <2>4
<1>7. received' = received
  BY DEF Read
<1> QED BY <1>2, <1>3, <1>4, <1>5, <1>6, <1>7 DEF ReaderInv

LEMMA AssembleType ==
  ASSUME TypeInv, Assemble
  PROVE  ReaderInv'
<1> DEFINE words == NumBytes(recv_buf) \div 4
           payload == SubSeq(recv_buf, 5, words)
<1>1. /\ recv_buf \in Seq(Int) /\ fd_marks \in Seq(Marks) /\ received \in Seq(Messages)
      /\ socket \in Seq(Int) /\ rights \in Seq(Marks) /\ Len(recv_buf) \in Nat
  BY Typed DEF TypeInv, ReaderInv
<1>2. words \in Nat /\ words <= Len(recv_buf)
  <2>1. HasHeader(recv_buf) /\ NumBytes(recv_buf) >= 16 /\ NumBytes(recv_buf) <= 4 * Len(recv_buf)
    BY DEF Assemble, has_complete_message, IPCZ_HEADER_SIZE
  <2>2. NumBytes(recv_buf) \in Int
    BY <1>1, <2>1 DEF HasHeader, NumBytes, IPCZ_HEADER_SIZE
  <2> QED BY <1>1, <2>1, <2>2, SMTT(30)
<1>3. /\ received' = Append(received, [payload |-> payload, fds |-> AssembledFds])
      /\ recv_buf' = SubSeq(recv_buf, words + 1, Len(recv_buf))
      /\ fd_marks' = SaturatingShift(RestMarks, words)
      /\ socket' = socket /\ rights' = rights
  BY DEF Assemble, IPCZ_HEADER_SIZE
<1> HIDE DEF words
<1>4. payload \in Seq(Int) /\ recv_buf' \in Seq(Int)
  <2>1. SubSeq(recv_buf, 5, words) \in Seq(Int)
    <3>1. \A i \in 5 .. words : recv_buf[i] \in Int
      BY <1>1, <1>2
    <3> QED BY <1>2, <3>1, SubSeqProperties
  <2>2. SubSeq(recv_buf, words + 1, Len(recv_buf)) \in Seq(Int)
    BY <1>1, <1>2
  <2> QED BY <1>3, <2>1, <2>2
<1> HIDE DEF payload
<1>5. AssembledFds \in Fds
  BY <1>1, MarksType, FdsType DEF AssembledFds
<1>6. [payload |-> payload, fds |-> AssembledFds] \in Messages
  BY <1>4, <1>5 DEF Messages
<1>7. received' \in Seq(Messages)
  BY <1>1, <1>3, <1>6
<1>8. RestMarks \in Seq(Marks)
  BY <1>1, MarksType DEF RestMarks
<1>9. fd_marks' \in Seq(Marks)
  BY <1>2, <1>3, <1>8, SaturatingShiftType
<1> QED BY <1>1, <1>3, <1>4, <1>7, <1>9 DEF ReaderInv

(* What is decoded stays, and more messages are received behind.           *)
LEMMA DecodedStays ==
  ASSUME TypeInv, decoded' = decoded,
         received' = received \/ \E msg \in Messages : received' = Append(received, msg)
  PROVE  DecodedInv'
<1>1. /\ decoded \in Seq(Results) /\ Len(decoded) <= Len(received) /\ Len(decoded) \in Nat
      /\ Len(received) \in Nat /\ received \in Seq(Messages) /\ DOMAIN decoded = 1 .. Len(decoded)
      /\ \A i \in DOMAIN decoded :
           decoded[i] = decode_message(received[i].payload, Len(received[i].fds))
  BY Typed DEF TypeInv, DecodedInv, ReaderInv
<1>2. Len(received') >= Len(received) /\ Len(received') \in Nat
  BY <1>1
<1>3. \A i \in 1 .. Len(received) : received'[i] = received[i]
  BY <1>1
<1>4. \A i \in DOMAIN decoded : i \in 1 .. Len(received)
  BY <1>1
<1> QED BY <1>1, <1>2, <1>3, <1>4, SMTT(30) DEF DecodedInv

LEMMA DecodeType ==
  ASSUME TypeInv, Decode
  PROVE  DecodedInv'
<1> DEFINE n == Len(decoded) + 1
           result == decode_message(received[n].payload, Len(received[n].fds))
<1>1. /\ decoded \in Seq(Results) /\ Len(decoded) <= Len(received) /\ Len(decoded) \in Nat
      /\ Len(received) \in Nat /\ received \in Seq(Messages) /\ DOMAIN decoded = 1 .. Len(decoded)
      /\ \A i \in DOMAIN decoded :
           decoded[i] = decode_message(received[i].payload, Len(received[i].fds))
  BY Typed DEF TypeInv, DecodedInv, ReaderInv
<1>2. /\ decoded' = Append(decoded, result) /\ received' = received
      /\ Len(decoded) # Len(received)
  BY DEF Decode, AllDecoded
<1>3. result \in Results
  <2>1. n \in 1 .. Len(received)
    BY <1>1, <1>2
  <2>2. received[n] \in Messages
    BY <1>1, <2>1
  <2>3. received[n].payload \in Seq(Int) /\ Len(received[n].fds) \in Nat
    BY <2>2 DEF Messages, Fds
  <2> QED BY <2>3 DEF Results
<1> HIDE DEF result
<1>4. /\ decoded' \in Seq(Results) /\ Len(decoded') = n /\ decoded'[n] = result
      /\ \A i \in 1 .. Len(decoded) : decoded'[i] = decoded[i]
      /\ DOMAIN decoded' = 1 .. n
  BY <1>1, <1>2, <1>3
<1>5. n <= Len(received)
  BY <1>1, <1>2
<1>6. ASSUME NEW i \in 1 .. n
      PROVE  decoded'[i] = decode_message(received[i].payload, Len(received[i].fds))
  <2>1. CASE i = n
    BY <1>4, <2>1 DEF result
  <2>2. CASE i # n
    <3>1. i \in 1 .. Len(decoded)
      BY <1>1, <2>2
    <3> QED BY <1>1, <1>4, <3>1
  <2> QED BY <2>1, <2>2
<1> QED BY <1>2, <1>4, <1>5, <1>6 DEF DecodedInv

(* The actions by what they change.                                        *)
Quiet ==
  UNCHANGED <<next, sent, socket, rights, recv_buf, fd_marks, received, decoded>>

LEMMA Steps ==
  ASSUME [Next]_vars
  PROVE  \/ SendPiece /\ decoded' = decoded /\ writer' = writer /\ reader' = reader
         \/ Read /\ decoded' = decoded /\ writer' = writer /\ reader' = reader
         \/ Assemble /\ decoded' = decoded /\ writer' = writer /\ reader' = reader
         \/ /\ Decode /\ UNCHANGED <<next, sent, socket, rights, recv_buf, fd_marks, received>>
            /\ writer' = writer /\ reader' \in {reader, "Refused"}
         \/ /\ Quiet /\ Reading /\ AllDecoded /\ ReadEnd
         \/ /\ Quiet
            /\ writer' \in {writer, "closed"} \/ writer = "open"
            /\ reader' \in {reader, "Refused", "Success", "TimedOut", "BadHeader", "BadDriverObjects"}
<1>1. CASE WriterStep
  <2>1. CASE SendPiece
    BY <1>1, <2>1 DEF WriterStep, streamVars, SendPiece, Send
  <2>2. CASE SendFails \/ Close
    BY <1>1, <2>2 DEF WriterStep, streamVars, SendFails, Close, Quiet
  <2> QED BY <1>1, <2>1, <2>2 DEF WriterStep
<1>2. CASE ReaderStep
  <2>1. CASE Read
    BY <1>2, <2>1 DEF ReaderStep, streamVars, Read
  <2>2. CASE Assemble
    BY <1>2, <2>2 DEF ReaderStep, streamVars, Assemble
  <2>3. CASE ReadError
    BY <1>2, <2>3 DEF ReaderStep, streamVars, ReadError, Quiet
  <2>4. CASE ReadEnd
    BY <1>2, <2>4 DEF ReaderStep, streamVars, ReadEnd, Quiet, NothingToRead
  <2> QED BY <1>2, <2>1, <2>2, <2>3, <2>4 DEF ReaderStep
<1>3. CASE GiveUp
  BY <1>3 DEF GiveUp, TimeOut, streamVars, Quiet
<1>4. CASE Decode
  BY <1>4 DEF Decode
<1>5. CASE Reply
  BY <1>5 DEF Reply, Quiet
<1>6. CASE Done \/ UNCHANGED vars
  BY <1>6 DEF Done, vars, channelVars, streamVars, Quiet
<1> QED BY <1>1, <1>2, <1>3, <1>4, <1>5, <1>6 DEF Next

LEMMA TypeStep == TypeInv /\ [Next]_vars => TypeInv'
<1> SUFFICES ASSUME TypeInv, [Next]_vars PROVE TypeInv'
  OBVIOUS
<1>1. outbox' = outbox /\ damaged' = damaged
  BY FramesStay
<1>2. OutboxInv'
  BY <1>1, OutboxStep DEF TypeInv
<1>3. ASSUME next' = next, sent' = sent PROVE WriterInv'
  BY <1>1, <1>3 DEF TypeInv, WriterInv
<1>4. CASE SendPiece /\ decoded' = decoded
  <2>1. received' = received
    BY <1>4 DEF SendPiece, Send
  <2> QED BY <1>2, <1>4, <2>1, SendType, DecodedStays DEF TypeInv
<1>5. CASE Read /\ decoded' = decoded
  <2>1. received' = received /\ next' = next /\ sent' = sent
    BY <1>5 DEF Read
  <2> QED BY <1>2, <1>3, <1>5, <2>1, ReadType, DecodedStays DEF TypeInv
<1>6. CASE Assemble /\ decoded' = decoded
  <2>1. next' = next /\ sent' = sent
    BY <1>6 DEF Assemble
  <2>2. \E msg : received' = Append(received, msg)
    BY <1>6 DEF Assemble
  <2>3. PICK msg : received' = Append(received, msg)
    BY <2>2
  <2>4. ReaderInv'
    BY <1>6, AssembleType
  <2>5. msg \in Messages
    <3>1. received \in Seq(Messages) /\ received' \in Seq(Messages) /\ Len(received) \in Nat
      BY <2>4, Typed DEF TypeInv, ReaderInv
    <3>2. received'[Len(received) + 1] = msg /\ Len(received') = Len(received) + 1
      BY <2>3, <3>1
    <3> QED BY <3>1, <3>2
  <2>6. DecodedInv'
    BY <1>6, <2>3, <2>5, DecodedStays
  <2> QED BY <1>2, <1>3, <2>1, <2>4, <2>6 DEF TypeInv
<1>7. CASE Decode /\ UNCHANGED <<next, sent, socket, rights, recv_buf, fd_marks, received>>
  <2>1. ReaderInv'
    BY <1>7 DEF TypeInv, ReaderInv
  <2> QED BY <1>2, <1>3, <1>7, <2>1, DecodeType DEF TypeInv
<1>8. CASE Quiet
  <2>1. ReaderInv'
    BY <1>8 DEF Quiet, TypeInv, ReaderInv
  <2>2. DecodedInv'
    BY <1>8, DecodedStays DEF Quiet
  <2> QED BY <1>2, <1>3, <1>8, <2>1, <2>2 DEF TypeInv, Quiet
<1> QED BY <1>4, <1>5, <1>6, <1>7, <1>8, Steps

-----------------------------------------------------------------------------
(* The stream, if no word of it was damaged.                               *)

(* What the reader finds at the front of its buffer: a part of the frame   *)
(* at hand, which is complete when it is all there.                        *)
LEMMA FrontOfBuffer ==
  ASSUME TypeInv, ~damaged, BufferInv, HasHeader(recv_buf)
  PROVE  /\ At \in DOMAIN outbox /\ Len(recv_buf) <= Len(outbox[At].words)
         /\ ~HeaderRefused(recv_buf) \/ Len(recv_buf) < Len(outbox[At].words)
         /\ NumBytes(recv_buf) = 4 * Len(outbox[At].words)
         /\ NumHandles(recv_buf) = Len(outbox[At].fds)
         /\ has_complete_message(recv_buf) <=> Len(recv_buf) = Len(outbox[At].words)
<1>1. Len(recv_buf) \in Nat /\ Len(recv_buf) >= 4
  BY Typed DEF HasHeader, IPCZ_HEADER_SIZE
<1>2. At \in DOMAIN outbox /\ Len(recv_buf) <= Len(outbox[At].words)
  <2>1. recv_buf # <<>>
    BY <1>1
  <2> QED BY <2>1 DEF BufferInv
<1>3. Undamaged(outbox[At])
  BY <1>2 DEF TypeInv, OutboxInv
<1>4. PICK payload \in Seq(Int) :
        outbox[At].words = encode_channel_message(payload, Len(outbox[At].fds))
  BY <1>3 DEF Undamaged
<1> DEFINE n == Len(outbox[At].fds)
<1>5. n \in Nat /\ n < 65536 /\ n \in Int
  BY <1>2, <1>3, Typed, SMTT(30) DEF Undamaged, Fds
<1> HIDE DEF n
<1>6. /\ outbox[At].words[1] = 16 + 65536 * n
      /\ outbox[At].words[2] = 16 + 4 * Len(payload)
      /\ Len(outbox[At].words) = 4 + Len(payload)
  <2>1. outbox[At].words = encode_channel_message(payload, n)
    BY <1>4 DEF n
  <2>0. n \in Int
    BY <1>5
  <2>2. Len(encode_channel_message(payload, n)) = 4 + Len(payload)
    BY <2>0, EncodedFrame
  <2>3. encode_channel_message(payload, n)[1] = 16 + 65536 * n
    BY <2>0, EncodedFrame
  <2>4. encode_channel_message(payload, n)[2] = 16 + 4 * Len(payload)
    BY <2>0, EncodedFrame
  <2> QED BY <2>1, <2>2, <2>3, <2>4
<1>7. recv_buf[1] = 16 + 65536 * n /\ recv_buf[2] = 4 * Len(outbox[At].words)
  <2>1. 1 \in 1 .. Len(recv_buf) /\ 2 \in 1 .. Len(recv_buf)
    BY <1>1
  <2>2. recv_buf[1] = outbox[At].words[1] /\ recv_buf[2] = outbox[At].words[2]
    BY <2>1 DEF BufferInv
  <2>3. Len(payload) \in Nat
    BY <1>4
  <2> QED BY <1>6, <2>2, <2>3
<1>8. NumHandles(recv_buf) = n /\ HeaderSize(recv_buf) = 16
  BY <1>5, <1>7 DEF NumHandles, HeaderSize
<1>9. Len(outbox[At].words) \in Nat /\ Len(outbox[At].words) >= 5
  BY <1>2, Typed
<1>10. has_complete_message(recv_buf) <=> Len(recv_buf) = Len(outbox[At].words)
  BY <1>1, <1>2, <1>7, <1>9 DEF has_complete_message, NumBytes, IPCZ_HEADER_SIZE
<1>11. ~HeaderRefused(recv_buf) \/ Len(recv_buf) < Len(outbox[At].words)
  BY <1>1, <1>2, <1>7, <1>8, <1>9 DEF HeaderRefused, NumBytes, IPCZ_HEADER_SIZE
<1> QED BY <1>2, <1>7, <1>8, <1>10, <1>11 DEF NumBytes, n

(* No read goes beyond the frame at hand.                                  *)
LEMMA ReadWithinFrame ==
  ASSUME TypeInv, ~damaged, BufferInv, ~HeaderRefused(recv_buf), ~has_complete_message(recv_buf),
         At \in DOMAIN outbox
  PROVE  /\ Needed(recv_buf) >= 1
         /\ Len(recv_buf) + Needed(recv_buf) <= Len(outbox[At].words)
<1>1. /\ Len(recv_buf) \in Nat /\ Len(outbox[At].words) \in Nat /\ Len(outbox[At].words) >= 5
  BY Typed
<1>2. CASE ~HasHeader(recv_buf)
  <2>1. Len(recv_buf) < 4 /\ Needed(recv_buf) = 4 - Len(recv_buf)
    BY <1>1, <1>2 DEF HasHeader, Needed, IPCZ_HEADER_SIZE
  <2> QED BY <1>1, <2>1
<1>3. CASE HasHeader(recv_buf)
  <2>1. /\ Len(recv_buf) < Len(outbox[At].words) /\ NumBytes(recv_buf) = 4 * Len(outbox[At].words)
    BY <1>1, <1>3, FrontOfBuffer
  <2>2. \A x \in Nat : (4 * x) \div 4 = x
    OBVIOUS
  <2>3. NumBytes(recv_buf) \div 4 = Len(outbox[At].words)
    BY <1>1, <2>1, <2>2
  <2>4. Needed(recv_buf) = Len(outbox[At].words) - Len(recv_buf)
    BY <1>3, <2>3 DEF Needed
  <2> QED BY <1>1, <2>1, <2>4
<1> QED BY <1>2, <1>3

(* Descriptors that are read are those of the frame at hand, and are read  *)
(* with its first word.                                                    *)
LEMMA ReadRights ==
  ASSUME TypeInv, NEW start, Starts(start), SocketInv(start), RightsInv(start),
         At \in DOMAIN outbox,
         NEW n \in Int, n >= 1, n <= Len(socket), Len(recv_buf) + n <= Len(outbox[At].words)
  PROVE  /\ Before(rights, n) \in {0, 1} /\ Before(rights, n) <= Len(rights)
         /\ recv_buf # <<>> \/ outbox[At].fds = <<>> => Before(rights, n) = 0
         /\ recv_buf = <<>> /\ outbox[At].fds # <<>> =>
              /\ Before(rights, n) = 1
              /\ rights[1].offset = 0 /\ rights[1].fds = outbox[At].fds
<1> DEFINE k == Before(rights, n)
<1>1. /\ rights \in Seq(Marks) /\ Len(rights) \in Nat /\ DOMAIN rights = 1 .. Len(rights)
      /\ Len(recv_buf) \in Nat /\ (recv_buf = <<>> <=> Len(recv_buf) = 0)
      /\ \A i \in DOMAIN rights : rights[i].offset \in Int
  <2>1. rights \in Seq(Marks) /\ recv_buf \in Seq(Int)
    BY DEF TypeInv, ReaderInv
  <2>2. \A i \in DOMAIN rights : rights[i] \in Marks
    BY <2>1
  <2> QED BY <2>1, <2>2 DEF Marks
<1>2. /\ k \in 0 .. Len(rights)
      /\ \A i \in 1 .. k : rights[i].offset < n
      /\ k < Len(rights) => rights[k + 1].offset >= n
  BY <1>1, BeforeProperties
<1> HIDE DEF k
<1>3. /\ start[At] \in Nat /\ Taken(start) = start[At] + Len(recv_buf)
      /\ \A f \in DOMAIN outbox : /\ start[f] \in Nat
                                  /\ f < At => start[f] + Len(outbox[f].words) <= start[At]
                                  /\ At < f => start[At] + Len(outbox[At].words) <= start[f]
      /\ \A f \in DOMAIN outbox : f \in Nat /\ Len(outbox[f].words) \in Nat /\ Len(outbox[f].words) >= 5
      /\ At \in Nat
  <2>1. /\ DOMAIN outbox = 1 .. Len(outbox) /\ Len(outbox) \in Nat
        /\ \A f \in DOMAIN outbox : f \in Nat /\ Len(outbox[f].words) \in Nat /\ Len(outbox[f].words) >= 5
    BY Typed
  <2>2. \A f \in DOMAIN outbox : f \in 1 .. Len(outbox) + 1 /\ start[f] \in Nat
    BY <2>1 DEF Starts
  <2>3. \A f, g \in DOMAIN outbox : f < g => start[f] + Len(outbox[f].words) <= start[g]
    BY <2>2 DEF Starts
  <2> QED BY <2>1, <2>2, <2>3 DEF Taken
<1>4. ASSUME NEW i \in DOMAIN rights, rights[i].offset < n
      PROVE  rights[i].offset = 0 /\ rights[i].fds = outbox[At].fds /\ recv_buf = <<>>
             /\ outbox[At].fds # <<>>
  <2>1. rights[i].offset >= 0 /\ rights[i].offset \in Int
    BY <1>1 DEF RightsInv
  <2>2. PICK f \in DOMAIN outbox : /\ rights[i].offset = start[f] - Taken(start)
                                   /\ rights[i].fds = outbox[f].fds /\ outbox[f].fds # <<>>
    BY DEF RightsInv
  <2>3. /\ start[f] \in Nat /\ start[At] \in Nat /\ f \in Nat /\ At \in Nat
        /\ Len(outbox[f].words) \in Nat /\ Len(outbox[f].words) >= 5
        /\ Len(outbox[At].words) \in Nat
        /\ f < At => start[f] + Len(outbox[f].words) <= start[At]
        /\ At < f => start[At] + Len(outbox[At].words) <= start[f]
    BY <1>3, <2>2
  <2>4. start[f] - (start[At] + Len(recv_buf)) >= 0 /\ start[f] - (start[At] + Len(recv_buf)) < n
    BY <1>3, <1>4, <2>1, <2>2
  <2>5. ~(f < At)
    <3> SUFFICES ASSUME f < At PROVE FALSE
      OBVIOUS
    <3>1. start[f] + Len(outbox[f].words) <= start[At] /\ Len(recv_buf) \in Nat
      BY <1>1, <2>3
    <3>2. start[f] \in Nat /\ start[At] \in Nat
      BY <2>3
    <3>3. Len(outbox[f].words) \in Nat /\ Len(outbox[f].words) >= 5
      BY <2>3
    <3>4. start[f] - (start[At] + Len(recv_buf)) >= 0
      BY <2>4
    <3> QED BY <3>1, <3>2, <3>3, <3>4, SMTT(30)
  <2>6. ~(At < f)
    <3> SUFFICES ASSUME At < f PROVE FALSE
      OBVIOUS
    <3>1. start[At] + Len(outbox[At].words) <= start[f] /\ Len(recv_buf) \in Nat
      BY <1>1, <2>3
    <3>2. start[f] \in Nat /\ start[At] \in Nat /\ Len(outbox[At].words) \in Nat
      BY <2>3
    <3>3. start[f] - (start[At] + Len(recv_buf)) < n
      BY <2>4
    <3> QED BY <3>1, <3>2, <3>3, SMTT(30)
  <2>7. f = At
    BY <2>3, <2>5, <2>6
  <2>8. Len(recv_buf) = 0 /\ rights[i].offset = 0
    BY <1>1, <1>3, <2>1, <2>2, <2>3, <2>4, <2>7
  <2> QED BY <1>1, <2>2, <2>7, <2>8
<1>5. k \in {0, 1}
  <2> SUFFICES ASSUME k >= 2 PROVE FALSE
    BY <1>1, <1>2
  <2>1. 1 \in DOMAIN rights /\ 2 \in DOMAIN rights /\ 1 \in 1 .. k /\ 2 \in 1 .. k
    BY <1>1, <1>2
  <2>2. rights[1].offset = 0 /\ rights[2].offset = 0
    BY <1>2, <1>4, <2>1
  <2>3. rights[1].offset < rights[2].offset
    BY <2>1 DEF RightsInv
  <2> QED BY <2>2, <2>3
<1>6. ASSUME k = 1 PROVE rights[1].offset = 0 /\ rights[1].fds = outbox[At].fds /\ recv_buf = <<>>
                         /\ outbox[At].fds # <<>>
  <2>1. 1 \in DOMAIN rights /\ 1 \in 1 .. k
    BY <1>1, <1>2, <1>6
  <2> QED BY <1>2, <1>4, <2>1
<1>7. ASSUME recv_buf = <<>>, outbox[At].fds # <<>> PROVE k = 1
  <2>1. Taken(start) = start[At] /\ start[At] < Given(start)
    <3>1. Given(start) - Taken(start) = Len(socket)
      BY DEF SocketInv
    <3>2. Given(start) \in Int
      BY Typed, SMTT(30) DEF Given, Starts
    <3>3. Len(recv_buf) = 0 /\ Len(socket) >= 1
      BY <1>1, <1>7, Typed
    <3>4. Taken(start) = start[At] /\ start[At] \in Nat
      BY <1>3, <3>3
    <3> QED BY <3>1, <3>2, <3>3, <3>4
  <2>2. PICK i \in DOMAIN rights : rights[i].offset = start[At] - Taken(start)
    BY <1>3, <1>7, <2>1 DEF RightsInv
  <2>3. rights[i].offset = 0
    BY <1>3, <2>1, <2>2
  <2> SUFFICES ASSUME k = 0 PROVE FALSE
    BY <1>5
  <2>4. 1 \in DOMAIN rights /\ rights[1].offset >= n
    BY <1>1, <1>2, <2>2
  <2>5. i # 1 => rights[1].offset < rights[i].offset
    <3>1. i # 1 => 1 \in DOMAIN rights /\ i \in DOMAIN rights /\ 1 < i
      BY <1>1, <2>2, <2>4
    <3> QED BY <3>1 DEF RightsInv
  <2>6. rights[1].offset \in Int
    BY <1>1, <2>4
  <2>7. rights[1].offset <= 0
    BY <2>3, <2>5, <2>6
  <2>8. n >= 1 /\ n \in Int
    OBVIOUS
  <2>9. rights[1].offset >= n
    BY <2>4
  <2> QED BY <2>6, <2>7, <2>8, <2>9
<1> QED BY <1>2, <1>5, <1>6, <1>7 DEF k

(* Where the reader and the writer are in the stream.                      *)
LEMMA Positions ==
  ASSUME TypeInv, NEW start, Starts(start), SocketInv(start)
  PROVE  /\ \A g \in 1 .. Len(outbox) + 1 : start[g] \in Nat
         /\ start[next] \in Nat /\ start[At] \in Nat /\ At \in Nat /\ At >= 1 /\ At <= next
         /\ Taken(start) = start[At] + Len(recv_buf) /\ Given(start) = start[next] + sent
         /\ Taken(start) \in Nat /\ Given(start) \in Nat
         /\ Len(socket) = Given(start) - Taken(start)
         /\ \A f \in DOMAIN outbox :
              /\ start[f] \in Nat
              /\ f < next => start[f] + Len(outbox[f].words) <= start[next]
              /\ f < At => start[f] + Len(outbox[f].words) <= start[At]
         /\ next \in DOMAIN outbox =>
              \A f \in DOMAIN outbox : next < f => start[next] + Len(outbox[next].words) <= start[f]
<1>1. /\ DOMAIN outbox = 1 .. Len(outbox) /\ Len(outbox) \in Nat /\ next \in Nat /\ next >= 1
      /\ next <= Len(outbox) + 1 /\ sent \in Nat /\ Len(received) \in Nat /\ Len(recv_buf) \in Nat
  BY Typed
<1>2. At \in Nat /\ At >= 1 /\ At <= next
  BY <1>1 DEF At, SocketInv
<1>3. \A g \in 1 .. Len(outbox) + 1 : start[g] \in Nat
  BY DEF Starts
<1>4. next \in 1 .. Len(outbox) + 1 /\ At \in 1 .. Len(outbox) + 1
  BY <1>1, <1>2
<1>5. \A f \in DOMAIN outbox : f \in 1 .. Len(outbox) + 1
  BY <1>1
<1>6. start[next] \in Nat /\ start[At] \in Nat
  BY <1>3, <1>4
<1>7. /\ Taken(start) = start[At] + Len(recv_buf) /\ Given(start) = start[next] + sent
      /\ Taken(start) \in Nat /\ Given(start) \in Nat
  <2>1. Taken(start) = start[At] + Len(recv_buf) /\ Given(start) = start[next] + sent
    BY DEF Taken, Given
  <2>2. start[At] + Len(recv_buf) \in Nat
    BY <1>1, <1>6
  <2>3. start[next] + sent \in Nat
    BY <1>1, <1>6
  <2> QED BY <2>1, <2>2, <2>3
<1>8. \A f \in DOMAIN outbox, g \in 1 .. Len(outbox) + 1 :
        f < g => start[f] + Len(outbox[f].words) <= start[g]
  BY DEF Starts
<1>9. Len(socket) = Given(start) - Taken(start)
  BY DEF SocketInv
<1> QED BY <1>2, <1>3, <1>4, <1>5, <1>6, <1>7, <1>8, <1>9

(* A piece of a sequence, from behind the m-th word up to the n-th.        *)
LEMMA PieceOf ==
  ASSUME NEW s \in Seq(Int), NEW m \in Nat, NEW n \in 1 .. Len(s), n > m
  PROVE  /\ SubSeq(s, m + 1, n) \in Seq(Int) /\ Len(SubSeq(s, m + 1, n)) = n - m
         /\ \A i \in 1 .. n - m : SubSeq(s, m + 1, n)[i] = s[m + i]
<1>1. /\ m + 1 \in Int /\ n \in Int /\ m + 1 <= n
      /\ n - (m + 1) + 1 = n - m
  OBVIOUS
<1>2. \A i \in m + 1 .. n : s[i] \in Int
  OBVIOUS
<1> DEFINE piece == SubSeq(s, m + 1, n)
<1>3. /\ piece \in Seq(Int) /\ Len(piece) = IF m + 1 <= n THEN n - (m + 1) + 1 ELSE 0
      /\ \A i \in 1 .. n - (m + 1) + 1 : piece[i] = s[m + 1 + i - 1]
  BY <1>1, <1>2, SubSeqProperties
<1> HIDE DEF piece
<1>4. ASSUME NEW i \in 1 .. n - m PROVE piece[i] = s[m + i]
  <2>1. m + 1 + i - 1 = m + i
    OBVIOUS
  <2> QED BY <1>1, <1>3, <2>1
<1>5. Len(piece) = n - m
  BY <1>1, <1>3
<1> QED BY <1>3, <1>4, <1>5 DEF piece

(* A piece that is sent.                                                   *)
LEMMA SendFacts ==
  ASSUME TypeInv, SendPiece, NEW start, Starts(start), SocketInv(start)
  PROVE  \E end \in Nat :
           /\ next \in DOMAIN outbox /\ end > sent /\ end <= Len(outbox[next].words)
           /\ rights' = RightsWith(rights, Len(socket))
           /\ Len(socket') = Len(socket) + (end - sent)
           /\ \A i \in 1 .. Len(socket) : socket'[i] = socket[i]
           /\ \A w \in sent + 1 .. end :
                socket'[Len(socket) + w - sent] = outbox[next].words[w]
           /\ Given(start)' = start[next] + end /\ Taken(start)' = Taken(start)
           /\ next' \in {next, next + 1}
<1>1. PICK end \in Frame.ends : Send(end)
  BY DEF SendPiece
<1>2. next \in DOMAIN outbox
  BY Typed DEF SendPiece
<1>3. /\ outbox[next].words \in Seq(Int) /\ end \in 1 .. Len(outbox[next].words)
      /\ Len(outbox[next].words) \in Nat /\ end > sent /\ sent \in Nat
      /\ Len(socket) \in Nat /\ socket \in Seq(Int)
  BY <1>1, <1>2, Typed DEF TypeInv, OutboxInv, Frame, Send, ReaderInv
<1>4. /\ rights' = RightsWith(rights, Len(socket)) /\ recv_buf' = recv_buf /\ received' = received
      /\ socket' = socket \o SubSeq(outbox[next].words, sent + 1, end)
  BY <1>1 DEF Send, Frame
<1> DEFINE piece == SubSeq(outbox[next].words, sent + 1, end)
<1>5. /\ piece \in Seq(Int) /\ Len(piece) = end - sent
      /\ \A i \in 1 .. end - sent : piece[i] = outbox[next].words[sent + i]
  BY <1>3, PieceOf DEF piece
<1> HIDE DEF piece
<1>6. /\ Len(socket') = Len(socket) + (end - sent)
      /\ \A i \in 1 .. Len(socket) + (end - sent) :
           socket'[i] = IF i <= Len(socket) THEN socket[i] ELSE piece[i - Len(socket)]
  <2>1. socket' = socket \o piece
    BY <1>4 DEF piece
  <2>2. /\ Len(socket \o piece) = Len(socket) + Len(piece)
        /\ \A i \in 1 .. Len(socket) + Len(piece) :
             (socket \o piece)[i] = IF i <= Len(socket) THEN socket[i] ELSE piece[i - Len(socket)]
    BY <1>3, <1>5, ConcatProperties
  <2> QED BY <1>5, <2>1, <2>2
<1>7. ASSUME NEW i \in 1 .. Len(socket) PROVE socket'[i] = socket[i]
  <2>1. i \in 1 .. Len(socket) + (end - sent) /\ i <= Len(socket)
    BY <1>3
  <2> QED BY <1>6, <2>1
<1>8. ASSUME NEW w \in sent + 1 .. end
      PROVE  socket'[Len(socket) + w - sent] = outbox[next].words[w]
  <2>1. /\ Len(socket) + w - sent \in 1 .. Len(socket) + (end - sent)
        /\ ~(Len(socket) + w - sent <= Len(socket))
        /\ (Len(socket) + w - sent) - Len(socket) = w - sent
        /\ w - sent \in 1 .. end - sent /\ sent + (w - sent) = w
    BY <1>3
  <2>2. socket'[Len(socket) + w - sent] = piece[w - sent]
    BY <1>6, <2>1
  <2>3. piece[w - sent] = outbox[next].words[sent + (w - sent)]
    BY <1>5, <2>1
  <2> QED BY <2>1, <2>2, <2>3
<1>9. Given(start)' = start[next] + end /\ next' \in {next, next + 1}
  <2>1. CASE end = Len(outbox[next].words)
    <3>1. next' = next + 1 /\ sent' = 0
      BY <1>1, <2>1 DEF Send, Frame
    <3>2. start[next + 1] = start[next] + Len(outbox[next].words)
      BY <1>2 DEF Starts
    <3>3. next + 1 \in 1 .. Len(outbox) + 1
      BY <1>2, Typed
    <3>4. start[next] \in Nat /\ start[next + 1] \in Nat
      BY <3>3, Positions
    <3> QED BY <2>1, <3>1, <3>2, <3>4 DEF Given
  <2>2. CASE end # Len(outbox[next].words)
    <3>1. next' = next /\ sent' = end
      BY <1>1, <2>2 DEF Send, Frame
    <3> QED BY <3>1 DEF Given
  <2> QED BY <2>1, <2>2
<1>10. Taken(start)' = Taken(start)
  BY <1>4 DEF Taken, At
<1>11. end \in Nat /\ end <= Len(outbox[next].words)
  BY <1>3
<1>12. /\ next \in DOMAIN outbox /\ end > sent /\ end <= Len(outbox[next].words)
       /\ rights' = RightsWith(rights, Len(socket))
       /\ Len(socket') = Len(socket) + (end - sent)
       /\ \A i \in 1 .. Len(socket) : socket'[i] = socket[i]
       /\ \A w \in sent + 1 .. end :
            socket'[Len(socket) + w - sent] = outbox[next].words[w]
       /\ Given(start)' = start[next] + end /\ Taken(start)' = Taken(start)
       /\ next' \in {next, next + 1}
  <2>1. Len(socket') = Len(socket) + (end - sent)
    BY <1>6
  <2>2. end > sent
    BY <1>3
  <2> QED BY <1>2, <1>4, <1>7, <1>8, <1>9, <1>10, <1>11, <2>1, <2>2
<1> QED BY <1>11, <1>12

LEMMA SendSocket ==
  ASSUME TypeInv, SendPiece, outbox' = outbox, NEW start, Starts(start), SocketInv(start)
  PROVE  SocketInv(start)'
<1>1. PICK end \in Nat :
        /\ next \in DOMAIN outbox /\ end > sent /\ end <= Len(outbox[next].words)
        /\ Len(socket') = Len(socket) + (end - sent)
        /\ \A i \in 1 .. Len(socket) : socket'[i] = socket[i]
        /\ \A w \in sent + 1 .. end :
             socket'[Len(socket) + w - sent] = outbox[next].words[w]
        /\ Given(start)' = start[next] + end /\ Taken(start)' = Taken(start)
        /\ next' \in {next, next + 1}
  BY SendFacts
<1>2. /\ sent \in Nat /\ next \in Nat /\ Len(socket) \in Nat
      /\ start[next] \in Nat /\ Taken(start) \in Nat /\ Given(start) = start[next] + sent
      /\ Len(socket) = Given(start) - Taken(start) /\ At \in Nat /\ At <= next
      /\ Len(outbox[next].words) \in Nat
  BY <1>1, Typed, Positions
<1>0. /\ end \in Nat /\ end > sent /\ end <= Len(outbox[next].words)
      /\ Len(socket') = Len(socket) + (end - sent)
      /\ Given(start)' = start[next] + end /\ Taken(start)' = Taken(start)
  BY <1>1
<1>3. At' <= next'
  <2>1. At' = At
    BY DEF At, SendPiece, Send
  <2> QED BY <1>1, <1>2, <2>1, SMTT(30)
<1>4. Len(socket') = Given(start)' - Taken(start)'
  <2>1. PICK x \in Nat : x = start[next]
    BY <1>2
  <2>2. PICK t \in Nat : t = Taken(start)
    BY <1>2
  <2>3. PICK n \in Nat : n = Len(socket)
    BY <1>2
  <2>4. Given(start) = x + sent /\ sent \in Nat /\ end \in Nat
    BY <1>0, <1>2, <2>1
  <2>5. n = (x + sent) - t
    BY <1>2, <2>2, <2>3, <2>4
  <2>6. Given(start)' = x + end /\ Taken(start)' = t
    BY <1>0, <2>1, <2>2
  <2>7. Len(socket') = n + (end - sent)
    BY <1>0, <2>3
  <2>8. n + (end - sent) = (x + end) - t
    BY <2>4, <2>5
  <2> QED BY <2>6, <2>7, <2>8
<1>5. ASSUME NEW f \in DOMAIN outbox, NEW w \in 1 .. Len(outbox[f].words),
             start[f] + w > Taken(start), start[f] + w <= start[next] + end
      PROVE  socket'[start[f] + w - Taken(start)] = outbox[f].words[w]
  <2>1. /\ start[f] \in Nat /\ Len(outbox[f].words) \in Nat /\ w \in Nat /\ f \in Nat
        /\ w >= 1 /\ w <= Len(outbox[f].words)
    <3>1. start[f] \in Nat /\ Len(outbox[f].words) \in Nat /\ f \in Nat
      BY Typed, Positions
    <3> QED BY <3>1
  <2>2. CASE start[f] + w <= Given(start)
    <3>1. socket[start[f] + w - Taken(start)] = outbox[f].words[w]
      BY <1>5, <2>2 DEF SocketInv
    <3>2. start[f] + w - Taken(start) \in 1 .. Len(socket)
      <4>1. start[f] + w > Taken(start)
        BY <1>5
      <4>2. Taken(start) \in Nat /\ Given(start) \in Nat
        BY Positions
      <4>3. start[f] + w - Taken(start) \in 1 .. Given(start) - Taken(start)
        BY <2>1, <2>2, <4>1, <4>2, SMTT(30)
      <4> QED BY <1>2, <4>3
    <3> QED BY <1>1, <3>1, <3>2
  <2>3. CASE ~(start[f] + w <= Given(start))
    <3>1. ~(f < next)
      <4> SUFFICES ASSUME f < next PROVE FALSE
        OBVIOUS
      <4>1. start[f] + Len(outbox[f].words) <= start[next]
        BY Positions
      <4>2. start[next] \in Nat /\ sent \in Nat
        BY <1>2
      <4>3. Given(start) = start[next] + sent
        BY Positions
      <4>4. ~(start[f] + w <= start[next] + sent)
        BY <2>3, <4>3
      <4>5. PICK x \in Nat : x = start[f]
        BY <2>1
      <4>6. PICK y \in Nat : y = start[next]
        BY <4>2
      <4>7. PICK l \in Nat : l = Len(outbox[f].words)
        BY <2>1
      <4>8. x + l <= y /\ ~(x + w <= y + sent)
        BY <4>1, <4>4, <4>5, <4>6, <4>7
      <4>9. w \in Nat /\ w <= l
        BY <2>1, <4>7
      <4> QED BY <4>2, <4>8, <4>9
    <3>2. ~(next < f)
      <4> SUFFICES ASSUME next < f PROVE FALSE
        OBVIOUS
      <4>1. start[next] + Len(outbox[next].words) <= start[f]
        BY <1>1, Positions
      <4>2. start[f] + w <= start[next] + end
        BY <1>5
      <4>3. end \in Int /\ end <= Len(outbox[next].words)
        BY <1>0
      <4>4. start[next] \in Nat /\ Len(outbox[next].words) \in Nat
        BY <1>2
      <4> QED BY <2>1, <4>1, <4>2, <4>3, <4>4, SMTT(30)
    <3>3. f = next
      BY <1>2, <2>1, <3>1, <3>2
    <3>4. w \in sent + 1 .. end
      BY <1>2, <1>5, <2>1, <2>3, <3>3, SMTT(30)
    <3>5. start[f] + w - Taken(start) = Len(socket) + w - sent
      BY <1>2, <2>1, <3>3, SMTT(30)
    <3> QED BY <1>1, <3>3, <3>4, <3>5
  <2> QED BY <2>2, <2>3
<1>6. \A f \in DOMAIN outbox : \A w \in 1 .. Len(outbox[f].words) :
        start[f] + w > Taken(start) /\ start[f] + w <= start[next] + end =>
          socket'[start[f] + w - Taken(start)] = outbox[f].words[w]
  BY <1>5
<1>7. Given(start)' = start[next] + end /\ Taken(start)' = Taken(start)
  BY <1>1
<1> QED BY <1>3, <1>4, <1>6, <1>7 DEF SocketInv

LEMMA SendRights ==
  ASSUME TypeInv, SendPiece, outbox' = outbox, NEW start, Starts(start), SocketInv(start),
         RightsInv(start)
  PROVE  RightsInv(start)'
<1>1. PICK end \in Nat :
        /\ next \in DOMAIN outbox /\ end > sent /\ end <= Len(outbox[next].words)
        /\ rights' = RightsWith(rights, Len(socket))
        /\ Len(socket') = Len(socket) + (end - sent)
        /\ Given(start)' = start[next] + end /\ Taken(start)' = Taken(start)
  BY SendFacts
<1>2. /\ sent \in Nat /\ next \in Nat /\ Len(socket) \in Nat
      /\ start[next] \in Nat /\ Taken(start) \in Nat /\ Given(start) = start[next] + sent
      /\ Len(socket) = Given(start) - Taken(start)
      /\ Len(outbox[next].words) \in Nat
  BY <1>1, Typed, Positions
<1>3. ASSUME NEW f \in DOMAIN outbox, start[f] >= Given(start), start[f] < start[next] + end
      PROVE  f = next /\ sent = 0
  <2>1. start[f] \in Nat /\ Len(outbox[f].words) \in Nat /\ f \in Nat /\ Len(outbox[f].words) >= 5
    BY Typed, Positions
  <2>2. ~(f < next)
    <3> SUFFICES ASSUME f < next PROVE FALSE
      OBVIOUS
    <3>1. start[f] + Len(outbox[f].words) <= start[next]
      BY Positions
    <3>2. start[next] \in Nat /\ sent \in Nat /\ start[f] >= start[next] + sent
      BY <1>2, <1>3
    <3>3. start[f] \in Nat /\ Len(outbox[f].words) \in Nat /\ Len(outbox[f].words) >= 5
      BY <2>1
    <3> QED BY <3>1, <3>2, <3>3
  <2>3. ~(next < f)
    <3> SUFFICES ASSUME next < f PROVE FALSE
      OBVIOUS
    <3>1. start[next] + Len(outbox[next].words) <= start[f]
      BY <1>1, Positions
    <3>2. start[f] < start[next] + end
      BY <1>3
    <3>3. end \in Nat /\ end <= Len(outbox[next].words)
      BY <1>1
    <3>4. start[next] \in Nat /\ start[f] \in Nat /\ Len(outbox[next].words) \in Nat
      BY <1>2, <2>1
    <3> QED BY <3>1, <3>2, <3>3, <3>4
  <2>4. f = next
    BY <1>2, <2>1, <2>2, <2>3
  <2> QED BY <1>2, <1>3, <2>4
<1>4. /\ rights \in Seq(Marks) /\ Len(rights) \in Nat /\ DOMAIN rights = 1 .. Len(rights)
      /\ \A i \in DOMAIN rights : rights[i].offset \in Int
  <2>1. rights \in Seq(Marks)
    BY DEF TypeInv, ReaderInv
  <2>2. \A i \in DOMAIN rights : rights[i] \in Marks
    BY <2>1
  <2> QED BY <2>1, <2>2 DEF Marks
<1> DEFINE mark == [offset |-> Len(socket), fds |-> outbox[next].fds]
<1>5. CASE sent = 0 /\ outbox[next].fds # <<>>
  <2>0. rights' = Append(rights, mark)
    BY <1>1, <1>5 DEF RightsWith, Frame
  <2>1. mark.offset = Len(socket) /\ mark.fds = outbox[next].fds /\ mark \in Marks
    <3>0. next \in DOMAIN outbox
      BY <1>1
    <3>1. outbox[next].fds \in Fds /\ Len(socket) \in Int
      BY <3>0, Typed
    <3> QED BY <3>1 DEF Marks
  <2> HIDE DEF mark
  <2>2. /\ DOMAIN rights' = 1 .. Len(rights) + 1
        /\ rights'[Len(rights) + 1] = mark
        /\ \A i \in DOMAIN rights : rights'[i] = rights[i]
    BY <1>4, <2>0
  <2>3. mark.offset = start[next] - Taken(start)
    <3>1. Given(start) = start[next] + 0 /\ start[next] \in Nat
      BY <1>2, <1>5
    <3>2. Given(start) = start[next]
      BY <3>1
    <3>3. mark.offset = Given(start) - Taken(start)
      BY <1>2, <2>1
    <3> QED BY <3>2, <3>3
  <2>4. ASSUME NEW i \in DOMAIN rights'
        PROVE  /\ rights'[i].offset >= 0 /\ rights'[i].offset < Len(socket')
               /\ \E f \in DOMAIN outbox : /\ rights'[i].offset = start[f] - Taken(start)
                                           /\ rights'[i].fds = outbox[f].fds
                                           /\ outbox[f].fds # <<>>
    <3>1. CASE i = Len(rights) + 1
      <4>1. Len(socket) >= 0 /\ Len(socket) < Len(socket')
        BY <1>1, <1>2, SMTT(30)
      <4> QED BY <1>1, <1>5, <2>1, <2>2, <2>3, <3>1, <4>1
    <3>2. CASE i # Len(rights) + 1
      <4>1. i \in DOMAIN rights /\ rights'[i] = rights[i] /\ rights[i].offset \in Int
        BY <1>4, <2>2, <3>2
      <4>2. rights[i].offset >= 0 /\ rights[i].offset < Len(socket)
        BY <4>1 DEF RightsInv
      <4>3. rights[i].offset < Len(socket')
        <5>1. Len(socket') = Len(socket) + (end - sent) /\ end > sent
          BY <1>1
        <5>2. Len(socket) \in Nat /\ sent \in Nat
          BY <1>2
        <5> QED BY <4>1, <4>2, <5>1, <5>2
      <4>4. \E f \in DOMAIN outbox : /\ rights[i].offset = start[f] - Taken(start)
                                     /\ rights[i].fds = outbox[f].fds
                                     /\ outbox[f].fds # <<>>
        BY <4>1 DEF RightsInv
      <4> QED BY <4>1, <4>2, <4>3, <4>4
    <3> QED BY <3>1, <3>2
  <2>5. ASSUME NEW i \in DOMAIN rights', NEW j \in DOMAIN rights', i < j
        PROVE  rights'[i].offset < rights'[j].offset
    <3>1. i \in DOMAIN rights /\ rights'[i] = rights[i]
      BY <1>4, <2>2, <2>5
    <3>2. CASE j = Len(rights) + 1
      <4>1. rights[i].offset < Len(socket)
        BY <3>1 DEF RightsInv
      <4> QED BY <2>1, <2>2, <3>1, <3>2, <4>1
    <3>3. CASE j # Len(rights) + 1
      <4>1. j \in DOMAIN rights /\ rights'[j] = rights[j]
        BY <1>4, <2>2, <3>3
      <4> QED BY <2>5, <3>1, <4>1 DEF RightsInv
    <3> QED BY <3>2, <3>3
  <2>6. ASSUME NEW f \in DOMAIN outbox, outbox[f].fds # <<>>,
               start[f] >= Taken(start), start[f] < start[next] + end
        PROVE  \E i \in DOMAIN rights' : rights'[i].offset = start[f] - Taken(start)
    <3>1. CASE start[f] < Given(start)
      <4>1. PICK i \in DOMAIN rights : rights[i].offset = start[f] - Taken(start)
        BY <2>6, <3>1 DEF RightsInv
      <4>2. i \in DOMAIN rights' /\ rights'[i] = rights[i]
        BY <1>4, <2>2
      <4> QED BY <4>1, <4>2
    <3>2. CASE ~(start[f] < Given(start))
      <4>1. start[f] >= Given(start)
        BY <1>2, <3>2, Positions, SMTT(30)
      <4>2. f = next
        BY <1>3, <2>6, <4>1
      <4>3. Len(rights) + 1 \in DOMAIN rights'
        BY <1>4, <2>2
      <4> QED BY <2>2, <2>3, <4>2, <4>3
    <3> QED BY <3>1, <3>2
  <2>7. Given(start)' = start[next] + end /\ Taken(start)' = Taken(start)
    BY <1>1
  <2> QED BY <2>4, <2>5, <2>6, <2>7 DEF RightsInv
<1>6. CASE ~(sent = 0 /\ outbox[next].fds # <<>>)
  <2>0. rights' = rights
    BY <1>1, <1>6 DEF RightsWith, Frame
  <2>1. ASSUME NEW i \in DOMAIN rights
        PROVE  rights[i].offset >= 0 /\ rights[i].offset < Len(socket')
    <3>1. rights[i].offset >= 0 /\ rights[i].offset < Len(socket)
      BY DEF RightsInv
    <3>2. rights[i].offset \in Int /\ Len(socket) \in Nat
      BY <1>2, <1>4
    <3>3. end > sent /\ sent \in Nat
      BY <1>1, <1>2
    <3>4. Len(socket') = Len(socket) + (end - sent)
      BY <1>1
    <3> QED BY <3>1, <3>2, <3>3, <3>4
  <2>2. ASSUME NEW f \in DOMAIN outbox, outbox[f].fds # <<>>,
               start[f] >= Taken(start), start[f] < start[next] + end
        PROVE  \E i \in DOMAIN rights : rights[i].offset = start[f] - Taken(start)
    <3>1. start[f] < Given(start)
      <4> SUFFICES ASSUME ~(start[f] < Given(start)) PROVE FALSE
        OBVIOUS
      <4>1. start[f] >= Given(start)
        BY <1>2, Positions, SMTT(30)
      <4> QED BY <1>3, <1>6, <2>2, <4>1
    <3> QED BY <2>2, <3>1 DEF RightsInv
  <2>3. Given(start)' = start[next] + end /\ Taken(start)' = Taken(start)
    BY <1>1
  <2>4. \A i \in DOMAIN rights :
          \E f \in DOMAIN outbox : /\ rights[i].offset = start[f] - Taken(start)
                                   /\ rights[i].fds = outbox[f].fds
                                   /\ outbox[f].fds # <<>>
    BY DEF RightsInv
  <2>5. \A i, j \in DOMAIN rights : i < j => rights[i].offset < rights[j].offset
    BY DEF RightsInv
  <2> QED BY <2>0, <2>1, <2>2, <2>3, <2>4, <2>5 DEF RightsInv
<1> QED BY <1>5, <1>6

(* What a read moves from the socket to the buffer.                        *)
LEMMA ReadFacts ==
  ASSUME TypeInv, ~damaged, Read, NEW start, Starts(start), SocketInv(start), BufferInv
  PROVE  \E n \in Nat :
           /\ n >= 1 /\ n <= Len(socket) /\ At \in DOMAIN outbox
           /\ Len(recv_buf) + n <= Len(outbox[At].words)
           /\ recv_with_fds(n, extract_fds(n))
<1>1. PICK n \in 0 .. Len(socket) :
        /\ n = IF Needed(recv_buf) < Len(socket) THEN Needed(recv_buf) ELSE Len(socket)
        /\ recv_with_fds(n, extract_fds(n))
  BY ReadCount
<1>2. /\ socket # <<>> /\ socket \in Seq(Int) /\ Len(socket) \in Nat
      /\ ~HeaderRefused(recv_buf) /\ ~has_complete_message(recv_buf)
      /\ recv_buf \in Seq(Int)
  BY Typed DEF Read, TypeInv, ReaderInv
<1>3. Len(socket) >= 1
  BY <1>2
<1>4. At \in DOMAIN outbox
  <2>1. /\ start[next] \in Nat /\ start[At] \in Nat /\ At \in Nat /\ At >= 1 /\ At <= next
        /\ Len(socket) = Given(start) - Taken(start)
        /\ Taken(start) = start[At] + Len(recv_buf) /\ Given(start) = start[next] + sent
    BY Positions
  <2>2. /\ DOMAIN outbox = 1 .. Len(outbox) /\ Len(outbox) \in Nat
        /\ next \in Nat /\ next <= Len(outbox) + 1 /\ sent \in Nat /\ Len(recv_buf) \in Nat
    BY Typed
  <2>3. At < next \/ sent > 0
    BY <1>3, <2>1, <2>2
  <2>4. sent > 0 => next <= Len(outbox)
    BY DEF TypeInv, WriterInv
  <2> QED BY <2>1, <2>2, <2>3, <2>4
<1>5. Needed(recv_buf) >= 1 /\ Len(recv_buf) + Needed(recv_buf) <= Len(outbox[At].words)
  BY <1>2, <1>4, ReadWithinFrame
<1>6. Needed(recv_buf) \in Nat
  BY <1>2, NeededProperties
<1>7. n >= 1 /\ n <= Len(socket) /\ n <= Needed(recv_buf) /\ n \in Nat
  BY <1>1, <1>2, <1>3, <1>5, <1>6
<1>8. Len(recv_buf) + n <= Len(outbox[At].words)
  <2>1. Len(recv_buf) \in Nat /\ Len(outbox[At].words) \in Nat
    BY <1>4, Typed
  <2> QED BY <1>5, <1>6, <1>7, <2>1
<1> QED BY <1>1, <1>4, <1>7, <1>8

LEMMA ReadBuffer ==
  ASSUME TypeInv, outbox' = outbox, received' = received, NEW n \in Nat,
         NEW start, Starts(start), SocketInv(start), BufferInv,
         n >= 1, n <= Len(socket), At \in DOMAIN outbox,
         Len(recv_buf) + n <= Len(outbox[At].words), recv_with_fds(n, extract_fds(n))
  PROVE  /\ Len(recv_buf') = Len(recv_buf) + n /\ At' = At /\ recv_buf' # <<>>
         /\ Taken(start)' = Taken(start) + n
         /\ BufferInv'
<1>1. /\ socket \in Seq(Int) /\ recv_buf \in Seq(Int) /\ Len(socket) \in Nat
      /\ Len(recv_buf) \in Nat
  BY Typed DEF TypeInv, ReaderInv
<1> DEFINE piece == SubSeq(socket, 1, n)
<1>2. /\ piece \in Seq(Int) /\ Len(piece) = n /\ \A i \in 1 .. n : piece[i] = socket[i]
  BY <1>1
<1> HIDE DEF piece
<1>3. recv_buf' = recv_buf \o piece
  BY DEF recv_with_fds, piece
<1>4. /\ Len(recv_buf') = Len(recv_buf) + n
      /\ \A i \in 1 .. Len(recv_buf) + n :
           recv_buf'[i] = IF i <= Len(recv_buf) THEN recv_buf[i] ELSE piece[i - Len(recv_buf)]
  <2>0. recv_buf \in Seq(Int) /\ piece \in Seq(Int)
    BY <1>1, <1>2
  <2>1. /\ Len(recv_buf \o piece) = Len(recv_buf) + Len(piece)
        /\ \A i \in 1 .. Len(recv_buf) + Len(piece) :
             (recv_buf \o piece)[i]
               = IF i <= Len(recv_buf) THEN recv_buf[i] ELSE piece[i - Len(recv_buf)]
    BY <2>0, ConcatProperties
  <2> QED BY <1>2, <1>3, <2>1
<1>5. At' = At
  BY DEF At
<1>6. start[At] \in Nat /\ Taken(start) = start[At] + Len(recv_buf)
  BY Positions
<1>7. Taken(start)' = Taken(start) + n
  <2>1. Taken(start)' = start[At] + Len(recv_buf')
    BY <1>5 DEF Taken
  <2> QED BY <1>1, <1>4, <1>6, <2>1
<1>8. ASSUME NEW i \in 1 .. Len(recv_buf) + n PROVE recv_buf'[i] = outbox[At].words[i]
  <2>1. CASE i <= Len(recv_buf)
    <3>1. i \in 1 .. Len(recv_buf)
      BY <1>1, <2>1
    <3>2. recv_buf'[i] = recv_buf[i]
      BY <1>4, <2>1
    <3> QED BY <3>1, <3>2 DEF BufferInv
  <2>2. CASE ~(i <= Len(recv_buf))
    <3>1. i - Len(recv_buf) \in 1 .. n
      BY <1>1, <2>2
    <3>2. recv_buf'[i] = socket[i - Len(recv_buf)]
      BY <1>2, <1>4, <2>2, <3>1
    <3>3. start[At] + i - Taken(start) = i - Len(recv_buf)
      BY <1>1, <1>6
    <3>4. i \in 1 .. Len(outbox[At].words)
      <4>1. Len(outbox[At].words) \in Nat
        BY Typed
      <4> QED BY <1>1, <4>1
    <3>5. start[At] + i > Taken(start) /\ start[At] + i <= Given(start)
      <4>1. Given(start) \in Nat /\ Len(socket) = Given(start) - Taken(start)
        BY Positions
      <4>2. Taken(start) \in Nat
        BY Positions
      <4>3. Given(start) >= Taken(start) + n
        BY <1>1, <4>1, <4>2
      <4>4. start[At] \in Nat /\ Taken(start) = start[At] + Len(recv_buf) /\ Len(recv_buf) \in Nat
        BY <1>1, <1>6
      <4>5. i > Len(recv_buf) /\ i <= Len(recv_buf) + n
        BY <1>1, <2>2
      <4> QED BY <4>1, <4>3, <4>4, <4>5, SMTT(30)
    <3>6. socket[start[At] + i - Taken(start)] = outbox[At].words[i]
      BY <3>4, <3>5 DEF SocketInv
    <3> QED BY <3>2, <3>3, <3>6
  <2> QED BY <2>1, <2>2
<1>9. BufferInv'
  <2>1. At' \in DOMAIN outbox' /\ Len(recv_buf') <= Len(outbox[At'].words)
    BY <1>4, <1>5
  <2>2. \A w \in 1 .. Len(recv_buf') : recv_buf'[w] = outbox[At'].words[w]
    BY <1>4, <1>5, <1>8
  <2> QED BY <2>1, <2>2 DEF BufferInv
<1>10. recv_buf' # <<>>
  BY <1>1, <1>4
<1> QED BY <1>4, <1>5, <1>7, <1>9, <1>10

LEMMA ReadSocket ==
  ASSUME TypeInv, outbox' = outbox, received' = received, next' = next, sent' = sent,
         NEW n \in Nat,
         NEW start, Starts(start), SocketInv(start), BufferInv,
         n >= 1, n <= Len(socket), At \in DOMAIN outbox,
         Len(recv_buf) + n <= Len(outbox[At].words), recv_with_fds(n, extract_fds(n))
  PROVE  SocketInv(start)'
<1>1. /\ socket \in Seq(Int) /\ Len(socket) \in Nat
      /\ socket' = SubSeq(socket, n + 1, Len(socket))
  BY Typed DEF TypeInv, ReaderInv, recv_with_fds
<1>2. /\ Len(socket') = Len(socket) - n
      /\ \A i \in 1 .. Len(socket) - n : socket'[i] = socket[n + i]
  <2>1. n \in 0 .. Len(socket) /\ socket \in Seq(Int)
    BY <1>1
  <2>2. /\ Len(SubSeq(socket, n + 1, Len(socket))) = Len(socket) - n
        /\ \A i \in 1 .. Len(socket) - n : SubSeq(socket, n + 1, Len(socket))[i] = socket[n + i]
    BY <2>1, RestOf
  <2> QED BY <1>1, <2>2
<1>3. /\ Taken(start)' = Taken(start) + n /\ At' = At
  BY ReadBuffer
<1>4. Given(start)' = Given(start)
  BY DEF Given
<1>5. /\ Taken(start) \in Nat /\ Given(start) \in Nat /\ Len(socket) = Given(start) - Taken(start)
      /\ At <= next
  BY Positions
<1>6. ASSUME NEW f \in DOMAIN outbox, NEW w \in 1 .. Len(outbox[f].words),
             start[f] + w > Taken(start) + n, start[f] + w <= Given(start)
      PROVE  socket'[start[f] + w - (Taken(start) + n)] = outbox[f].words[w]
  <2>1. start[f] \in Nat /\ w \in Nat
    <3>1. start[f] \in Nat /\ Len(outbox[f].words) \in Nat
      BY Typed, Positions
    <3> QED BY <3>1
  <2>0. PICK x \in Nat : x = start[f] + w
    BY <2>1
  <2>2. x \in Nat /\ x > Taken(start) + n /\ x <= Given(start)
    BY <1>6, <2>0
  <2>3. socket[x - Taken(start)] = outbox[f].words[w]
    <3>1. start[f] + w > Taken(start) /\ start[f] + w <= Given(start)
      BY <1>5, <2>0, <2>2
    <3>2. socket[start[f] + w - Taken(start)] = outbox[f].words[w]
      BY <3>1 DEF SocketInv
    <3>3. start[f] + w - Taken(start) = x - Taken(start)
      BY <1>5, <2>0, <2>1, SMTT(30)
    <3> QED BY <3>2, <3>3
  <2>4. x - (Taken(start) + n) \in 1 .. Len(socket) - n
    BY <1>5, <2>2, SMTT(30)
  <2>5. n + (x - (Taken(start) + n)) = x - Taken(start)
    BY <1>5, <2>2
  <2>6. socket'[x - (Taken(start) + n)] = outbox[f].words[w]
    BY <1>2, <2>3, <2>4, <2>5
  <2>7. start[f] + w - (Taken(start) + n) = x - (Taken(start) + n)
    BY <1>5, <2>0, <2>1, SMTT(30)
  <2> QED BY <2>6, <2>7
<1>7. Len(socket') = Given(start)' - Taken(start)'
  BY <1>2, <1>3, <1>4, <1>5
<1>8. At' <= next'
  BY <1>3, <1>5
<1> QED BY <1>3, <1>4, <1>6, <1>7, <1>8, SMTT(30) DEF SocketInv

LEMMA ReadRightsInv ==
  ASSUME TypeInv, outbox' = outbox, received' = received, next' = next, sent' = sent,
         NEW n \in Nat,
         NEW start, Starts(start), SocketInv(start), BufferInv, RightsInv(start),
         n >= 1, n <= Len(socket), At \in DOMAIN outbox,
         Len(recv_buf) + n <= Len(outbox[At].words), recv_with_fds(n, extract_fds(n))
  PROVE  RightsInv(start)'
<1> DEFINE k == Before(rights, n)
           rest == MarksFrom(rights, n)
<1>1. /\ rights \in Seq(Marks) /\ Len(rights) \in Nat /\ DOMAIN rights = 1 .. Len(rights)
      /\ \A i \in DOMAIN rights : rights[i].offset \in Int
      /\ n \in Int
  <2>1. rights \in Seq(Marks)
    BY DEF TypeInv, ReaderInv
  <2>2. \A i \in DOMAIN rights : rights[i] \in Marks
    BY <2>1
  <2> QED BY <2>1, <2>2 DEF Marks
<1>2. /\ k \in 0 .. Len(rights)
      /\ \A i \in 1 .. k : rights[i].offset < n
      /\ k < Len(rights) => rights[k + 1].offset >= n
  BY <1>1, BeforeProperties
<1>3. rest = SubSeq(rights, k + 1, Len(rights))
  BY DEF MarksFrom
<1> HIDE DEF k
<1>4. /\ rest \in Seq(Marks) /\ Len(rest) = Len(rights) - k
      /\ \A i \in 1 .. Len(rights) - k : rest[i] = rights[k + i]
  <2>1. k \in 0 .. Len(rights) /\ rights \in Seq(Marks)
    BY <1>1, <1>2
  <2>2. SubSeq(rights, k + 1, Len(rights)) \in Seq(Marks)
    BY <2>1, RestOf
  <2>3. /\ Len(SubSeq(rights, k + 1, Len(rights))) = Len(rights) - k
        /\ \A i \in 1 .. Len(rights) - k : SubSeq(rights, k + 1, Len(rights))[i] = rights[k + i]
    BY <2>1, RestOf
  <2> HIDE DEF rest
  <2> QED BY <1>3, <2>2, <2>3
<1> HIDE DEF rest
<1>5. rights' = Shift(rest, n)
  BY DEF recv_with_fds, rest
<1>6. /\ rights' \in Seq(Marks) /\ DOMAIN rights' = 1 .. Len(rights) - k
      /\ \A i \in 1 .. Len(rights) - k :
           /\ k + i \in DOMAIN rights
           /\ rights'[i].offset = rights[k + i].offset - n
           /\ rights'[i].fds = rights[k + i].fds
  <2>1. /\ Shift(rest, n) \in Seq(Marks) /\ Len(Shift(rest, n)) = Len(rest)
        /\ \A i \in 1 .. Len(rest) : /\ Shift(rest, n)[i].offset = rest[i].offset - n
                                     /\ Shift(rest, n)[i].fds = rest[i].fds
    BY <1>1, <1>4, ShiftProperties
  <2>2. DOMAIN rights' = 1 .. Len(rights')
    BY <1>5, <2>1
  <2>3. \A i \in 1 .. Len(rights) - k : k + i \in DOMAIN rights
    BY <1>1, <1>2
  <2> QED BY <1>4, <1>5, <2>1, <2>2, <2>3
<1>7. \A i, j \in DOMAIN rights : i < j => rights[i].offset < rights[j].offset
  BY DEF RightsInv
<1>8. \A i \in 1 .. Len(rights) - k : rights[k + i].offset >= n
  <2> SUFFICES ASSUME NEW i \in 1 .. Len(rights) - k PROVE rights[k + i].offset >= n
    OBVIOUS
  <2>1. k + 1 \in DOMAIN rights /\ k + i \in DOMAIN rights /\ k < Len(rights) /\ k \in Nat
    BY <1>1, <1>2
  <2>2. rights[k + 1].offset >= n /\ rights[k + 1].offset \in Int /\ rights[k + i].offset \in Int
    BY <1>1, <1>2, <2>1
  <2>3. CASE i = 1
    BY <2>2, <2>3
  <2>4. CASE i # 1
    <3>1. k + 1 < k + i
      BY <2>1, <2>4
    <3>2. rights[k + 1].offset < rights[k + i].offset
      BY <1>7, <2>1, <3>1
    <3> QED BY <1>1, <2>2, <3>2
  <2> QED BY <2>3, <2>4
<1>9. /\ Taken(start)' = Taken(start) + n /\ Given(start)' = Given(start)
      /\ Taken(start) \in Nat /\ Given(start) \in Nat
  BY ReadBuffer, Positions DEF Given
<1>10. Len(socket') = Len(socket) - n /\ Len(socket) \in Nat
  <2>1. socket \in Seq(Int) /\ socket' = SubSeq(socket, n + 1, Len(socket)) /\ Len(socket) \in Nat
    BY Typed DEF recv_with_fds, TypeInv, ReaderInv
  <2> QED BY <2>1
<1>11. ASSUME NEW i \in DOMAIN rights'
       PROVE  /\ rights'[i].offset >= 0 /\ rights'[i].offset < Len(socket')
              /\ \E f \in DOMAIN outbox : /\ rights'[i].offset = start[f] - (Taken(start) + n)
                                          /\ rights'[i].fds = outbox[f].fds
                                          /\ outbox[f].fds # <<>>
  <2>1. /\ k + i \in DOMAIN rights /\ rights'[i].offset = rights[k + i].offset - n
        /\ rights'[i].fds = rights[k + i].fds /\ rights[k + i].offset >= n
        /\ rights[k + i].offset \in Int
    BY <1>1, <1>6, <1>8
  <2>2. rights[k + i].offset < Len(socket)
    BY <2>1 DEF RightsInv
  <2>3. PICK f \in DOMAIN outbox : /\ rights[k + i].offset = start[f] - Taken(start)
                                   /\ rights[k + i].fds = outbox[f].fds
                                   /\ outbox[f].fds # <<>>
    BY <2>1 DEF RightsInv
  <2>4. rights'[i].offset = start[f] - (Taken(start) + n)
    <3>1. start[f] \in Nat
      BY Positions
    <3> QED BY <1>9, <2>1, <2>3, <3>1
  <2>5. rights'[i].offset >= 0 /\ rights'[i].offset < Len(socket')
    BY <1>10, <2>1, <2>2
  <2> QED BY <2>1, <2>3, <2>4, <2>5
<1>12. ASSUME NEW i \in DOMAIN rights', NEW j \in DOMAIN rights', i < j
       PROVE  rights'[i].offset < rights'[j].offset
  <2>1. /\ k + i \in DOMAIN rights /\ rights'[i].offset = rights[k + i].offset - n
        /\ k + j \in DOMAIN rights /\ rights'[j].offset = rights[k + j].offset - n
        /\ rights[k + i].offset \in Int /\ rights[k + j].offset \in Int
    BY <1>1, <1>6
  <2>2. k + i < k + j
    BY <1>2, <1>6, <1>12
  <2>3. rights[k + i].offset < rights[k + j].offset
    BY <1>7, <2>1, <2>2
  <2> QED BY <2>1, <2>3
<1>13. ASSUME NEW f \in DOMAIN outbox, outbox[f].fds # <<>>,
              start[f] >= Taken(start) + n, start[f] < Given(start)
       PROVE  \E i \in DOMAIN rights' : rights'[i].offset = start[f] - (Taken(start) + n)
  <2>0. start[f] \in Nat
    BY Positions
  <2>1. start[f] >= Taken(start)
    BY <1>9, <1>13, <2>0
  <2>2. PICK i \in DOMAIN rights : rights[i].offset = start[f] - Taken(start)
    BY <1>13, <2>1 DEF RightsInv
  <2>3. rights[i].offset >= n
    BY <1>9, <1>13, <2>0, <2>2
  <2>4. i \notin 1 .. k
    BY <1>1, <1>2, <2>3
  <2>5. i - k \in 1 .. Len(rights) - k /\ k + (i - k) = i
    BY <1>1, <1>2, <2>4
  <2>6. rights'[i - k].offset = rights[i].offset - n
    BY <1>6, <2>5
  <2>7. rights'[i - k].offset = start[f] - (Taken(start) + n)
    BY <1>9, <2>0, <2>2, <2>6
  <2> QED BY <1>6, <2>5, <2>7
<1> QED BY <1>9, <1>11, <1>12, <1>13 DEF RightsInv

LEMMA ReadMarks ==
  ASSUME TypeInv, outbox' = outbox, received' = received, NEW n \in Nat,
         NEW start, Starts(start), SocketInv(start), BufferInv, RightsInv(start), MarksInv,
         n >= 1, n <= Len(socket), At \in DOMAIN outbox,
         Len(recv_buf) + n <= Len(outbox[At].words), recv_with_fds(n, extract_fds(n))
  PROVE  MarksInv'
<1>0. n \in Int
  OBVIOUS
<1>1. /\ Before(rights, n) \in {0, 1} /\ Before(rights, n) <= Len(rights)
      /\ recv_buf # <<>> \/ outbox[At].fds = <<>> => Before(rights, n) = 0
      /\ recv_buf = <<>> /\ outbox[At].fds # <<>> =>
           /\ Before(rights, n) = 1
           /\ rights[1].offset = 0 /\ rights[1].fds = outbox[At].fds
  BY <1>0, ReadRights
<1>2. rights \in Seq(Marks) /\ Len(rights) \in Nat /\ outbox[At].fds \in Fds
  BY Typed DEF TypeInv, ReaderInv
<1>3. recv_buf' # <<>> /\ At' = At
  BY ReadBuffer
<1>4. fd_marks' = IF extract_fds(n) = <<>> THEN fd_marks
                  ELSE Append(fd_marks, [offset |-> Len(recv_buf), fds |-> extract_fds(n)])
  BY DEF recv_with_fds
<1>5. CASE recv_buf # <<>> \/ outbox[At].fds = <<>>
  <2>1. MarksBefore(rights, n) = <<>>
    <3>1. MarksBefore(rights, n) = SubSeq(rights, 1, 0)
      BY <1>1, <1>5 DEF MarksBefore
    <3>2. SubSeq(rights, 1, 0) = <<>>
      BY SubSeqEmpty
    <3> QED BY <3>1, <3>2
  <2>2. extract_fds(n) = <<>>
    <3>1. <<>> \in Fds
      BY EmptySeq DEF Fds
    <3>2. Truncated(<<>>) = <<>>
      BY <3>1, TruncatedProperties
    <3> QED BY <2>1, <3>2, FdsOfNone DEF extract_fds
  <2>3. fd_marks' = fd_marks
    BY <1>4, <2>2
  <2> QED BY <1>3, <1>5, <2>3 DEF MarksInv
<1>6. CASE recv_buf = <<>> /\ outbox[At].fds # <<>>
  <2>1. rights[1] \in Marks /\ rights[1].fds = outbox[At].fds
    BY <1>1, <1>2, <1>6
  <2>2. MarksBefore(rights, n) = <<rights[1]>>
    <3>1. MarksBefore(rights, n) = SubSeq(rights, 1, 1) /\ 1 <= Len(rights)
      BY <1>1, <1>6 DEF MarksBefore
    <3>2. /\ SubSeq(rights, 1, 1) \in Seq(Marks) /\ Len(SubSeq(rights, 1, 1)) = 1
          /\ SubSeq(rights, 1, 1)[1] = rights[1]
      BY <1>2, <3>1
    <3>3. SubSeq(rights, 1, 1) = <<rights[1]>>
      <4> DEFINE q == SubSeq(rights, 1, 1)
      <4>1. q = [i \in 1 .. 1 |-> q[i]]
        BY <3>2
      <4>2. \A i \in 1 .. 1 : q[i] = rights[1]
        BY <3>2
      <4> HIDE DEF q
      <4>3. q = <<rights[1]>>
        BY <4>1, <4>2
      <4> QED BY <4>3 DEF q
    <3> QED BY <3>1, <3>3
  <2>3. extract_fds(n) = Truncated(outbox[At].fds)
    BY <2>1, <2>2, FdsOfOne DEF extract_fds
  <2>4. Truncated(outbox[At].fds) # <<>>
    BY <1>2, <1>6, TruncatedProperties
  <2>5. fd_marks = <<>> /\ Len(recv_buf) = 0
    BY <1>6 DEF MarksInv
  <2>6. fd_marks' = <<[offset |-> 0, fds |-> Truncated(outbox[At].fds)]>>
    BY <1>4, <2>3, <2>4, <2>5
  <2> QED BY <1>3, <1>6, <2>6 DEF MarksInv
<1> QED BY <1>5, <1>6

LEMMA ReadStream ==
  ASSUME TypeInv, ~damaged, Read, outbox' = outbox, NEW start, StreamInv(start)
  PROVE  StreamInv(start)'
<1>1. PICK n \in Nat :
        /\ n >= 1 /\ n <= Len(socket) /\ At \in DOMAIN outbox
        /\ Len(recv_buf) + n <= Len(outbox[At].words)
        /\ recv_with_fds(n, extract_fds(n))
  BY ReadFacts DEF StreamInv
<1>2. received' = received /\ next' = next /\ sent' = sent
  BY DEF Read
<1>3. Starts(start)'
  BY DEF Starts, StreamInv
<1>4. SocketInv(start)'
  BY <1>1, <1>2, ReadSocket DEF StreamInv
<1>5. BufferInv'
  BY <1>1, <1>2, ReadBuffer DEF StreamInv
<1>6. RightsInv(start)'
  BY <1>1, <1>2, ReadRightsInv DEF StreamInv
<1>7. MarksInv'
  BY <1>1, <1>2, ReadMarks DEF StreamInv
<1>8. ReceivedInv'
  BY <1>2 DEF ReceivedInv, StreamInv
<1> QED BY <1>3, <1>4, <1>5, <1>6, <1>7, <1>8 DEF StreamInv

LEMMA BeforeNone ==
  ASSUME NEW marks, marks = <<>>
  PROVE  Before(marks, 1) = 0
<1>1. marks \in Seq(Marks) /\ Len(marks) = 0
  BY EmptySeq
<1>2. 1 \in Int
  OBVIOUS
<1>3. Before(marks, 1) \in 0 .. Len(marks)
  BY <1>1, <1>2, BeforeProperties
<1> QED BY <1>1, <1>3

(* A single mark at the front of the buffer is taken by try_assemble.      *)
LEMMA BeforeOne ==
  ASSUME NEW mark \in Marks, mark.offset = 0
  PROVE  Before(<<mark>>, 1) = 1
<1> DEFINE marks == <<mark>>
<1>1. marks \in Seq(Marks) /\ Len(marks) = 1 /\ marks[1] = mark
  OBVIOUS
<1>2. 1 \in Int
  OBVIOUS
<1> HIDE DEF marks
<1>3. Before(marks, 1) \in 0 .. Len(marks)
  BY <1>1, <1>2, BeforeProperties
<1>4. Before(marks, 1) < Len(marks) => marks[Before(marks, 1) + 1].offset >= 1
  BY <1>1, <1>2, BeforeProperties
<1>5. Before(marks, 1) # 0
  <2> SUFFICES ASSUME Before(marks, 1) = 0 PROVE FALSE
    OBVIOUS
  <2>1. marks[0 + 1].offset >= 1
    BY <1>1, <1>4
  <2>2. marks[0 + 1] = mark
    BY <1>1
  <2> QED BY <2>1, <2>2
<1>6. Before(marks, 1) = 1
  BY <1>1, <1>3, <1>5
<1> QED BY <1>6 DEF marks

LEMMA AssembleStream ==
  ASSUME TypeInv, ~damaged, Assemble, outbox' = outbox, NEW start, StreamInv(start)
  PROVE  StreamInv(start)'
<1>1. /\ recv_buf \in Seq(Int) /\ Len(recv_buf) \in Nat
      /\ received \in Seq(Messages) /\ Len(received) \in Nat
  BY Typed DEF TypeInv, ReaderInv
<1>2. HasHeader(recv_buf) /\ has_complete_message(recv_buf) /\ HandlesMatch
  BY DEF Assemble, has_complete_message
<1>3. /\ At \in DOMAIN outbox /\ Len(recv_buf) = Len(outbox[At].words)
      /\ NumBytes(recv_buf) = 4 * Len(outbox[At].words)
      /\ NumHandles(recv_buf) = Len(outbox[At].fds)
  BY <1>2, FrontOfBuffer DEF StreamInv
<1> DEFINE len == Len(outbox[At].words)
           fds == outbox[At].fds
<1>4. /\ len \in Nat /\ len >= 5 /\ fds \in Fds /\ outbox[At].words \in Seq(Int)
  BY <1>3, Typed
<1>5. NumBytes(recv_buf) \div 4 = len
  <2>1. \A x \in Nat : (4 * x) \div 4 = x
    OBVIOUS
  <2> QED BY <1>3, <1>4, <2>1
<1>6. recv_buf = outbox[At].words
  <2>1. \A w \in 1 .. len : recv_buf[w] = outbox[At].words[w]
    BY <1>3 DEF StreamInv, BufferInv
  <2>2. PICK s \in Seq(Int) : s = recv_buf
    BY <1>1
  <2>3. PICK t \in Seq(Int) : t = outbox[At].words
    BY <1>4
  <2>4. Len(s) = Len(t)
    BY <1>3, <2>2, <2>3
  <2>5. \A w \in 1 .. Len(s) : s[w] = t[w]
    BY <2>1, <2>2, <2>3, <2>4
  <2>6. s = t
    BY <2>4, <2>5, SeqEqual
  <2> QED BY <2>2, <2>3, <2>6
<1>7. AssembledFds = fds
  <2>1. AssembledFds = Truncated(fds)
    <3>1. CASE fds = <<>>
      <4>1. fd_marks = <<>>
        BY <3>1 DEF StreamInv, MarksInv
      <4>2. MarksBefore(fd_marks, 1) = <<>>
        <5>2. Before(fd_marks, 1) = 0
          BY <4>1, BeforeNone
        <5> QED BY <5>2, SubSeqEmpty DEF MarksBefore
      <4> QED BY <1>4, <3>1, <4>2, FdsOfNone, TruncatedProperties DEF AssembledFds
    <3>2. CASE fds # <<>>
      <4> DEFINE mark == [offset |-> 0, fds |-> Truncated(fds)]
      <4>1. recv_buf # <<>>
        BY <1>1, <1>3, <1>4
      <4>2. fd_marks = <<mark>>
        BY <3>2, <4>1 DEF StreamInv, MarksInv
      <4>3. Truncated(fds) \in Fds
        BY <1>4, TruncatedProperties
      <4>4. mark \in Marks /\ mark.offset = 0 /\ mark.fds = Truncated(fds)
        BY <4>3 DEF Marks
      <4> HIDE DEF mark
      <4>5. fd_marks \in Seq(Marks) /\ Len(fd_marks) = 1 /\ fd_marks[1] = mark
        BY <4>2 DEF TypeInv, ReaderInv
      <4>7. Before(fd_marks, 1) = 1
        BY <4>2, <4>4, BeforeOne
      <4>8. MarksBefore(fd_marks, 1) = SubSeq(fd_marks, 1, Len(fd_marks))
        BY <4>5, <4>7 DEF MarksBefore
      <4>9. SubSeq(fd_marks, 1, Len(fd_marks)) = fd_marks
        BY <4>5, SubSeqFull
      <4> QED BY <4>2, <4>4, <4>8, <4>9, FdsOfOne DEF AssembledFds
    <3> QED BY <3>1, <3>2
  <2>2. Len(AssembledFds) = Len(fds)
    BY <1>2, <1>3 DEF HandlesMatch
  <2> QED BY <1>4, <2>1, <2>2, TruncatedProperties
<1> DEFINE payload == SubSeq(recv_buf, 5, len)
           msg == [payload |-> payload, fds |-> fds]
<1>8. /\ received' = Append(received, msg)
      /\ recv_buf' = SubSeq(recv_buf, len + 1, Len(recv_buf))
      /\ fd_marks' = SaturatingShift(RestMarks, len)
      /\ socket' = socket /\ rights' = rights /\ next' = next /\ sent' = sent
  <2> DEFINE words == NumBytes(recv_buf) \div 4
  <2>1. /\ received' = Append(received, [payload |-> SubSeq(recv_buf, 5, words),
                                         fds |-> AssembledFds])
        /\ recv_buf' = SubSeq(recv_buf, words + 1, Len(recv_buf))
        /\ fd_marks' = SaturatingShift(RestMarks, words)
        /\ socket' = socket /\ rights' = rights /\ next' = next /\ sent' = sent
    BY DEF Assemble, IPCZ_HEADER_SIZE
  <2> HIDE DEF len, fds
  <2>2. words = len
    BY <1>5
  <2> HIDE DEF words
  <2> QED BY <1>7, <2>1, <2>2
<1>9. encode_channel_message(payload, Len(fds)) = outbox[At].words
  <2>1. Undamaged(outbox[At])
    BY <1>3 DEF TypeInv, OutboxInv
  <2>2. PICK q \in Seq(Int) : outbox[At].words = encode_channel_message(q, Len(fds))
    BY <2>1 DEF Undamaged
  <2>3. Len(fds) \in Int
    BY <1>4 DEF Fds
  <2> HIDE DEF fds
  <2>4. Len(encode_channel_message(q, Len(fds))) = 4 + Len(q)
    BY <2>3, EncodedFrame
  <2>5. SubSeq(encode_channel_message(q, Len(fds)), 5, 4 + Len(q)) = q
    BY <2>3, EncodedFrame
  <2>6. payload = q
    BY <1>6, <2>2, <2>4, <2>5
  <2> QED BY <2>2, <2>6
<1> HIDE DEF payload
<1>10. /\ Len(received') = Len(received) + 1 /\ received'[At] = msg
       /\ DOMAIN received' = 1 .. Len(received) + 1 /\ DOMAIN received = 1 .. Len(received)
       /\ \A i \in 1 .. Len(received) : received'[i] = received[i]
  <2>1. msg \in Messages
    <3>1. payload \in Seq(Int)
      <4>1. \A i \in 5 .. len : recv_buf[i] \in Int
        BY <1>1, <1>3
      <4> QED BY <1>4, <4>1, SubSeqProperties DEF payload
    <3> QED BY <1>4, <3>1 DEF Messages
  <2> HIDE DEF msg
  <2> QED BY <1>1, <1>8, <2>1 DEF At
<1>11. At' = At + 1 /\ At \in Nat
  BY <1>1, <1>10 DEF At
<1>12. recv_buf' = <<>>
  <2>1. len + 1 \in Int /\ Len(recv_buf) \in Int /\ Len(recv_buf) < len + 1
    BY <1>1, <1>3, <1>4
  <2> QED BY <1>8, <2>1, SubSeqEmpty
<1>13. Taken(start)' = Taken(start) /\ Given(start)' = Given(start)
  <2>1. start[At + 1] = start[At] + len
    BY <1>3 DEF StreamInv, Starts
  <2>2. start[At] \in Nat
    BY Positions DEF StreamInv
  <2>3. Taken(start)' = start[At + 1] + 0 /\ Taken(start) = start[At] + len
    BY <1>3, <1>11, <1>12 DEF Taken
  <2>4. Given(start)' = Given(start)
    BY <1>8 DEF Given
  <2> QED BY <1>4, <2>1, <2>2, <2>3, <2>4
<1>14. At' <= next'
  <2>1. /\ start[next] \in Nat /\ start[At] \in Nat /\ At \in Nat /\ At <= next
        /\ Taken(start) = start[At] + Len(recv_buf) /\ Given(start) = start[next] + sent
        /\ Len(socket) = Given(start) - Taken(start)
    BY Positions DEF StreamInv
  <2>2. next \in Nat /\ sent \in Nat /\ Len(socket) \in Nat
    BY Typed
  <2>3. At # next
    <3> SUFFICES ASSUME At = next PROVE FALSE
      OBVIOUS
    <3>1. sent >= len
      BY <1>3, <1>4, <2>1, <2>2, SMTT(30)
    <3>2. sent < Len(outbox[next].words)
      BY <1>4, <3>1 DEF TypeInv, WriterInv
    <3> QED BY <1>4, <2>2, <3>1, <3>2
  <2> QED BY <1>8, <1>11, <2>1, <2>2, <2>3
<1>15. Starts(start)'
  BY DEF Starts, StreamInv
<1>16. SocketInv(start)'
  <2>1. Len(socket) = Given(start) - Taken(start)
    BY DEF StreamInv, SocketInv
  <2>2. \A f \in DOMAIN outbox : \A w \in 1 .. Len(outbox[f].words) :
          start[f] + w > Taken(start) /\ start[f] + w <= Given(start) =>
            socket[start[f] + w - Taken(start)] = outbox[f].words[w]
    BY DEF StreamInv, SocketInv
  <2> QED BY <1>8, <1>13, <1>14, <2>1, <2>2 DEF SocketInv
<1>17. BufferInv'
  <2>1. Len(recv_buf') = 0
    BY <1>12
  <2> QED BY <1>12, <2>1 DEF BufferInv
<1>18. RightsInv(start)'
  BY <1>8, <1>13 DEF RightsInv, StreamInv
<1>19. MarksInv'
  <2>1. MarksFrom(fd_marks, 1) = <<>>
    <3>1. fd_marks \in Seq(Marks) /\ Len(fd_marks) \in Nat
      BY Typed DEF TypeInv, ReaderInv
    <3>2. Before(fd_marks, 1) = Len(fd_marks)
      <4>1. /\ Before(fd_marks, 1) \in 0 .. Len(fd_marks)
            /\ Before(fd_marks, 1) < Len(fd_marks) => fd_marks[Before(fd_marks, 1) + 1].offset >= 1
        BY <3>1, BeforeProperties
      <4>2. \A i \in 1 .. Len(fd_marks) : fd_marks[i].offset = 0
        BY DEF StreamInv, MarksInv
      <4> SUFFICES ASSUME Before(fd_marks, 1) < Len(fd_marks) PROVE FALSE
        BY <3>1, <4>1
      <4>3. Before(fd_marks, 1) + 1 \in 1 .. Len(fd_marks)
        BY <3>1, <4>1
      <4> QED BY <4>1, <4>2, <4>3
    <3>3. Len(fd_marks) + 1 \in Int /\ Len(fd_marks) \in Int /\ Len(fd_marks) < Len(fd_marks) + 1
      BY <3>1
    <3> QED BY <3>2, <3>3, SubSeqEmpty DEF MarksFrom
  <2>2. SaturatingShift(<<>>, len) = <<>>
    BY DEF SaturatingShift
  <2>3. fd_marks' = <<>>
    BY <1>8, <2>1, <2>2 DEF RestMarks
  <2> QED BY <1>12, <2>3 DEF MarksInv
<1>20. ReceivedInv'
  <2>1. ASSUME NEW i \in 1 .. Len(received) + 1
        PROVE  /\ encode_channel_message(received'[i].payload, Len(received'[i].fds))
                    = outbox[i].words
               /\ received'[i].fds = outbox[i].fds
    <3>1. CASE i = At
      <4>1. received'[i].payload = payload /\ received'[i].fds = fds
        BY <1>10, <3>1
      <4> QED BY <1>9, <3>1, <4>1
    <3>2. CASE i # At
      <4>1. i \in 1 .. Len(received)
        BY <1>1, <3>2 DEF At
      <4> QED BY <1>10, <4>1 DEF StreamInv, ReceivedInv
    <3> QED BY <3>1, <3>2
  <2> QED BY <1>10, <2>1 DEF ReceivedInv
<1> QED BY <1>15, <1>16, <1>17, <1>18, <1>19, <1>20 DEF StreamInv

LEMMA SendStream ==
  ASSUME TypeInv, SendPiece, outbox' = outbox, NEW start, StreamInv(start)
  PROVE  StreamInv(start)'
<1>1. recv_buf' = recv_buf /\ fd_marks' = fd_marks /\ received' = received
  BY DEF SendPiece, Send
<1>2. Starts(start)'
  BY DEF Starts, StreamInv
<1>3. SocketInv(start)'
  BY SendSocket DEF StreamInv
<1>4. RightsInv(start)'
  BY SendRights DEF StreamInv
<1>5. BufferInv' /\ MarksInv' /\ ReceivedInv'
  BY <1>1 DEF BufferInv, MarksInv, ReceivedInv, StreamInv, At
<1> QED BY <1>2, <1>3, <1>4, <1>5 DEF StreamInv

LEMMA SameStream ==
  ASSUME UNCHANGED <<outbox, next, sent, socket, rights, recv_buf, fd_marks, received>>,
         NEW start, StreamInv(start)
  PROVE  StreamInv(start)'
BY DEF StreamInv, Starts, SocketInv, BufferInv, RightsInv, MarksInv, ReceivedInv, At, Taken, Given

(* The end of the stream, and what the writer has sent by then.            *)
LEMMA EndOfTheStream ==
  ASSUME TypeInv, ~damaged, AllDecoded, ReadEnd, NEW start, StreamInv(start)
  PROVE  /\ Len(decoded) = next - 1
         /\ recv_buf = <<>> => sent = 0
         /\ recv_buf # <<>> => sent > 0
<1>1. /\ start[next] \in Nat /\ start[At] \in Nat /\ At \in Nat /\ At >= 1 /\ At <= next
      /\ Taken(start) = start[At] + Len(recv_buf) /\ Given(start) = start[next] + sent
      /\ Len(socket) = Given(start) - Taken(start)
  BY Positions DEF StreamInv
<1>2. /\ sent \in Nat /\ next \in Nat /\ next <= Len(outbox) + 1 /\ Len(outbox) \in Nat
      /\ Len(recv_buf) \in Nat /\ Len(received) \in Nat /\ DOMAIN outbox = 1 .. Len(outbox)
  BY Typed
<1>3. /\ Len(socket) = 0 /\ ~has_complete_message(recv_buf) /\ Len(decoded) = Len(received)
  BY DEF ReadEnd, NothingToRead, AllDecoded
<1>4. Len(recv_buf) = 0 <=> recv_buf = <<>>
  BY DEF TypeInv, ReaderInv
<1>5. start[At] + Len(recv_buf) = start[next] + sent
  <2>1. Given(start) = start[next] + sent /\ Taken(start) = start[At] + Len(recv_buf)
    BY <1>1
  <2>2. start[next] + sent \in Nat /\ start[At] + Len(recv_buf) \in Nat
    <3>1. start[next] \in Nat /\ start[At] \in Nat
      BY <1>1
    <3>2. sent \in Nat /\ Len(recv_buf) \in Nat
      BY <1>2
    <3> QED BY <3>1, <3>2
  <2>3. Given(start) \in Nat /\ Taken(start) \in Nat
    BY <2>1, <2>2
  <2>4. 0 = Given(start) - Taken(start)
    BY <1>1, <1>3
  <2>5. Given(start) = Taken(start)
    BY <2>3, <2>4
  <2> QED BY <2>1, <2>5
<1>6. At = next
  <2> SUFFICES ASSUME At # next PROVE FALSE
    OBVIOUS
  <2>1. At \in DOMAIN outbox /\ At < next
    BY <1>1, <1>2
  <2>2. start[At] + Len(outbox[At].words) <= start[next]
    BY <2>1, Positions DEF StreamInv
  <2>3. Len(outbox[At].words) \in Nat /\ Len(outbox[At].words) >= 5
    BY <2>1, Typed
  <2>4. Len(recv_buf) >= Len(outbox[At].words)
    <3>1. start[next] \in Nat /\ start[At] \in Nat /\ sent \in Nat /\ Len(recv_buf) \in Nat
      BY <1>1, <1>2
    <3> QED BY <1>5, <2>2, <2>3, <3>1, SMTT(30)
  <2>5. HasHeader(recv_buf)
    BY <1>2, <2>3, <2>4 DEF HasHeader, IPCZ_HEADER_SIZE
  <2>6. Len(recv_buf) <= Len(outbox[At].words)
    BY <2>5, FrontOfBuffer DEF StreamInv
  <2>7. Len(recv_buf) = Len(outbox[At].words)
    BY <1>2, <2>3, <2>4, <2>6
  <2>8. has_complete_message(recv_buf)
    BY <2>5, <2>7, FrontOfBuffer DEF StreamInv
  <2> QED BY <1>3, <2>8
<1>7. sent = Len(recv_buf)
  BY <1>1, <1>2, <1>5, <1>6, SMTT(30)
<1>8. Len(received) = next - 1
  BY <1>2, <1>6 DEF At
<1> QED BY <1>2, <1>3, <1>4, <1>7, <1>8

LEMMA EndStep ==
  ASSUME TypeInv, [Next]_vars, ~damaged, damaged' = damaged, NEW start, StreamInv(start), EndInv
  PROVE  EndInv'
<1> SUFFICES ASSUME reader' \in {"PeerClosed", "TruncatedMessage"}
             PROVE  writer' = "closed" /\ CloseIsClean'
  BY DEF EndInv
<1>1. CASE SendPiece /\ decoded' = decoded /\ writer' = writer /\ reader' = reader
  <2>1. writer = "open"
    BY <1>1 DEF SendPiece, Send
  <2> QED BY <1>1, <2>1 DEF EndInv
<1>2. CASE (Read \/ Assemble) /\ decoded' = decoded /\ writer' = writer /\ reader' = reader
  <2>1. reader = "reading"
    BY <1>2 DEF Read, Assemble, Reading
  <2> QED BY <1>2, <2>1
<1>3. CASE Decode /\ reader' \in {reader, "Refused"}
  <2>1. reader = "reading"
    BY <1>3 DEF Decode, Reading
  <2> QED BY <1>3, <2>1
<1>4. CASE Quiet /\ Reading /\ AllDecoded /\ ReadEnd
  <2>1. /\ Len(decoded) = next - 1 /\ (recv_buf = <<>> => sent = 0)
        /\ (recv_buf # <<>> => sent > 0)
    BY <1>4, EndOfTheStream
  <2>2. writer' = writer /\ writer = "closed" /\ reader' = EndOfStream
    BY <1>4 DEF ReadEnd, NothingToRead
  <2>3. decoded' = decoded /\ next' = next /\ sent' = sent
    BY <1>4 DEF Quiet
  <2>4. reader' = "PeerClosed" => recv_buf = <<>>
    BY <2>2 DEF EndOfStream
  <2>5. reader' = "TruncatedMessage" => recv_buf # <<>>
    BY <2>2 DEF EndOfStream
  <2> QED BY <2>1, <2>2, <2>3, <2>4, <2>5 DEF CloseIsClean
<1>5. CASE /\ Quiet
           /\ writer' \in {writer, "closed"} \/ writer = "open"
           /\ reader' \in {reader, "Refused", "Success", "TimedOut", "BadHeader", "BadDriverObjects"}
  <2>1. reader' = reader
    BY <1>5
  <2>2. writer = "closed" /\ CloseIsClean
    BY <2>1 DEF EndInv
  <2>3. writer' = "closed"
    BY <1>5, <2>2
  <2>4. decoded' = decoded /\ next' = next /\ sent' = sent
    BY <1>5 DEF Quiet
  <2> QED BY <2>1, <2>2, <2>3, <2>4 DEF CloseIsClean
<1> QED BY <1>1, <1>2, <1>3, <1>4, <1>5, Steps

LEMMA InitStream == Init => WholeInv
<1> SUFFICES ASSUME Init, ~damaged PROVE (\E start : StreamInv(start)) /\ EndInv
  BY DEF WholeInv
<1>1. TypeInv
  BY InitType
<1>2. PICK start : Starts(start)
  BY <1>1, StartsExist DEF TypeInv
<1>3. /\ next = 1 /\ sent = 0 /\ socket = <<>> /\ recv_buf = <<>> /\ rights = <<>>
      /\ fd_marks = <<>> /\ received = <<>> /\ reader = "reading"
      /\ Len(received) = 0 /\ Len(recv_buf) = 0 /\ Len(socket) = 0
      /\ DOMAIN received = {} /\ DOMAIN rights = {}
  BY DEF Init, ChannelInit
<1>4. At = 1 /\ Taken(start) = 0 /\ Given(start) = 0
  BY <1>2, <1>3 DEF At, Taken, Given, Starts
<1>5. \A f \in DOMAIN outbox : start[f] \in Nat /\ Len(outbox[f].words) \in Nat
  <2>1. \A f \in DOMAIN outbox : f \in 1 .. Len(outbox) + 1 /\ Len(outbox[f].words) \in Nat
    BY <1>1, Typed
  <2> QED BY <1>2, <2>1 DEF Starts
<1>6. SocketInv(start)
  <2>1. ASSUME NEW f \in DOMAIN outbox, NEW w \in 1 .. Len(outbox[f].words)
        PROVE  ~(start[f] + w <= 0)
    BY <1>5
  <2> QED BY <1>3, <1>4, <2>1 DEF SocketInv
<1>7. BufferInv /\ MarksInv /\ ReceivedInv
  BY <1>3 DEF BufferInv, MarksInv, ReceivedInv
<1>8. RightsInv(start)
  BY <1>3, <1>4, <1>5 DEF RightsInv
<1>9. EndInv
  BY <1>3 DEF EndInv
<1> QED BY <1>2, <1>6, <1>7, <1>8, <1>9 DEF StreamInv

LEMMA StreamStep == TypeInv /\ WholeInv /\ [Next]_vars => WholeInv'
<1> SUFFICES ASSUME TypeInv, WholeInv, [Next]_vars, ~damaged'
             PROVE  (\E start : StreamInv(start)') /\ EndInv'
  BY DEF WholeInv
<1>1. outbox' = outbox /\ damaged' = damaged /\ ~damaged
  BY FramesStay
<1>2. PICK start : StreamInv(start)
  BY <1>1 DEF WholeInv
<1>3. EndInv
  BY <1>1 DEF WholeInv
<1>4. EndInv'
  BY <1>1, <1>2, <1>3, EndStep
<1>5. StreamInv(start)'
  <2>1. CASE SendPiece
    BY <1>1, <1>2, <2>1, SendStream
  <2>2. CASE Read
    BY <1>1, <1>2, <2>2, ReadStream
  <2>3. CASE Assemble
    BY <1>1, <1>2, <2>3, AssembleStream
  <2>4. CASE UNCHANGED <<next, sent, socket, rights, recv_buf, fd_marks, received>>
    BY <1>1, <1>2, <2>4, SameStream
  <2> QED BY <2>1, <2>2, <2>3, <2>4, Steps DEF Quiet
<1> QED BY <1>4, <1>5

LEMMA Invariant == Spec => [](TypeInv /\ WholeInv)
<1>1. Init => TypeInv /\ WholeInv
  BY InitType, InitStream
<1>2. TypeInv /\ WholeInv /\ [Next]_vars => (TypeInv /\ WholeInv)'
  BY TypeStep, StreamStep
<1> QED BY <1>1, <1>2, PTL DEF Spec

(* Whatever pieces the socket takes, each message received is the one of   *)
(* its frame, with the descriptors of that frame and no others (recv and   *)
(* try_assemble).                                                          *)
THEOREM DescriptorsStay == Spec => []DescriptorsStayWithMessages
<1>1. TypeInv /\ WholeInv => DescriptorsStayWithMessages
  <2> SUFFICES ASSUME TypeInv, WholeInv, ~damaged
               PROVE  /\ Len(received) < next
                      /\ \A i \in DOMAIN received :
                           /\ encode_channel_message(received[i].payload, Len(received[i].fds))
                                = outbox[i].words
                           /\ received[i].fds = outbox[i].fds
    BY DEF DescriptorsStayWithMessages
  <2>1. PICK start : StreamInv(start)
    BY DEF WholeInv
  <2>2. Len(received) < next
    BY <2>1, Typed DEF StreamInv, SocketInv, At
  <2> QED BY <2>1, <2>2 DEF StreamInv, ReceivedInv
<1> QED BY <1>1, Invariant, PTL

(* recv reports PeerClosed only between two messages and a truncation only *)
(* within one (the end of the stream in recv_available).                   *)
THEOREM CleanClose == Spec => []CloseIsClean
<1>1. WholeInv => CloseIsClean
  BY DEF WholeInv, EndInv, CloseIsClean
<1> QED BY <1>1, Invariant, PTL

(* No payload makes decode_message read outside it, and the objects of a   *)
(* message that is accepted share out its descriptors, none twice and none *)
(* left over (decode_message, read_array and read_driver_objects).         *)
THEOREM DamageContained == Spec => []FrameDamageContained
<1>1. TypeInv => FrameDamageContained
  <2> SUFFICES ASSUME TypeInv, NEW i \in DOMAIN decoded
               PROVE  Contained(decoded[i], Len(received[i].fds))
    BY DEF FrameDamageContained, Contained, Share
  <2>1. /\ decoded \in Seq(Results) /\ Len(decoded) <= Len(received)
        /\ decoded[i] = decode_message(received[i].payload, Len(received[i].fds))
    BY DEF TypeInv, DecodedInv
  <2>2. received \in Seq(Messages)
    BY DEF TypeInv, ReaderInv
  <2>3. i \in 1 .. Len(received)
    BY <2>1, <2>2
  <2>4. received[i] \in Messages
    BY <2>2, <2>3
  <2>5. received[i].payload \in Seq(Int) /\ Len(received[i].fds) \in Nat
    BY <2>4 DEF Messages, Fds
  <2>6. Contained(decode_message(received[i].payload, Len(received[i].fds)),
                  Len(received[i].fds))
    BY <2>5, DecodeContained
  <2> QED BY <2>1, <2>6
<1> QED BY <1>1, Invariant, PTL
=============================================================================
