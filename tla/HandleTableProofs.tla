------------------------- MODULE HandleTableProofs -------------------------
(***************************************************************************)
(* Proofs about HandleTable, for any number of slots, threads and handles  *)
(* and any width of the generation field: values never alias, closed       *)
(* handles stay closed, and the free list accounts for every slot.         *)
(*                                                                         *)
(* The argument turns on the width of the generation field.  A handle of   *)
(* generation GenMod encodes to generation 0, which no entry has: such a   *)
(* handle can be neither resolved nor closed, so its slot is never freed   *)
(* again and no generation beyond GenMod is ever handed out.               *)
(***************************************************************************)
EXTENDS HandleTable, SequenceTheorems, TLAPS

(* A live entry carries its slot's current generation, and a slot whose    *)
(* generations are used up is never vacant.                                *)
SlotsCoherent ==
  \A s \in Slots :
    /\ entries[s] # NoEntry => /\ entries[s].generation = generations[s]
                               /\ entries[s].generation >= 1
                               /\ entries[s].object \in Objects
                               /\ s < length
    /\ s >= length => generations[s] = 0 /\ entries[s] = NoEntry
    /\ generations[s] = GenMod => entries[s] # NoEntry

(* What the table still knows about the handles it created.                *)
IssuedCoherent ==
  \A h \in issued :
    /\ h.generation <= generations[h.slot]
    /\ h.value = Encode(h.slot, h.generation)
    /\ entries[h.slot] # NoEntry /\ entries[h.slot].generation = h.generation
         => h.object = entries[h.slot].object

(* A closed value is behind its slot's generation or its slot is vacant.   *)
ClosedCoherent ==
  \A v \in closed :
    /\ v.gen <= generations[v.slot]
    /\ entries[v.slot] # NoEntry => entries[v.slot].generation # v.gen

Duplicating == \A t \in Threads : pc[t] = "duplicate" => object[t] \in Objects

HInv == /\ TypeOK /\ SlotAccounting /\ SlotsCoherent /\ IssuedCoherent
        /\ ClosedCoherent /\ Duplicating

(* The generation field keeps a generation that fits and wraps GenMod to 0.*)
LEMMA EncodeGen ==
  ASSUME NEW g \in 0 .. GenMod
  PROVE  /\ g % GenMod \in 0 .. GenMod - 1
         /\ g < GenMod => g % GenMod = g
         /\ g = GenMod => g % GenMod = 0
<1>1. GenMod \in Nat /\ GenMod > 0
  BY HandleTableAssumption
<1>2. g % GenMod \in 0 .. GenMod - 1
  BY <1>1
<1>3. g < GenMod => g % GenMod = g
  BY <1>1
<1>4. g = GenMod => g % GenMod = 0
  BY <1>1
<1> QED BY <1>2, <1>3, <1>4

(* The slots created so far are slots.                                     *)
LEMMA CreatedSlots ==
  ASSUME NEW n \in 0 .. MaxSlots, NEW r \in 0 .. n - 1
  PROVE  r \in Slots
<1>1. MaxSlots \in Nat
  BY HandleTableAssumption
<1>2. n \in Int /\ n <= MaxSlots
  BY <1>1
<1>3. r \in Int /\ 0 <= r /\ r <= n - 1
  BY <1>2
<1> QED BY <1>1, <1>2, <1>3 DEF Slots

LEMMA InitHInv == Init => HInv
<1> SUFFICES ASSUME Init PROVE HInv
  OBVIOUS
<1> USE HandleTableAssumption DEF Init
<1>1. TypeOK
  BY DEF TypeOK, Entries, NoEntry, Slots
<1>2. SlotAccounting
  BY DEF SlotAccounting
<1>3. SlotsCoherent
  BY DEF SlotsCoherent, Slots
<1>4. IssuedCoherent /\ ClosedCoherent /\ Duplicating
  BY DEF IssuedCoherent, ClosedCoherent, Duplicating
<1> QED BY <1>1, <1>2, <1>3, <1>4 DEF HInv

(* The slot that allocate returns is vacant and can bear one generation    *)
(* more, and the free list stays exact once the slot is filled.            *)
LEMMA AllocatedSlot ==
  ASSUME HInv, NEW s \in Slots, AllocateIn(s)
  PROVE  /\ entries[s] = NoEntry
         /\ generations[s] + 1 \in 1 .. GenMod
         /\ length' \in 0 .. MaxSlots /\ length <= length' /\ s < length'
         /\ \A r \in Slots : r # s => (r < length <=> r < length')
         /\ free' \in Seq(Slots)
         /\ \A i, j \in 1 .. Len(free') : i # j => free'[i] # free'[j]
         /\ \A i \in 1 .. Len(free') : free'[i] < length' /\ free'[i] # s
         /\ \A r \in 0 .. length' - 1 : r # s =>
              (entries[r] = NoEntry <=> \E i \in 1 .. Len(free') : free'[i] = r)
<1> USE HandleTableAssumption DEF HInv, TypeOK
<1>1. CASE free # <<>> /\ s = free[Len(free)]
           /\ free' = SubSeq(free, 1, Len(free) - 1) /\ UNCHANGED length
  <2>1. Len(free) \in Nat /\ Len(free) > 0
    BY <1>1
  <2>2. entries[s] = NoEntry /\ s < length
    BY <1>1, <2>1 DEF SlotAccounting, Slots
  <2>3. generations[s] + 1 \in 1 .. GenMod
    BY <2>2 DEF SlotsCoherent
  <2>4. free' \in Seq(Slots) /\ Len(free') = Len(free) - 1
        /\ \A i \in 1 .. Len(free') : free'[i] = free[i]
    <3>1. Len(free) - 1 \in Int /\ \A i \in 1 .. Len(free) - 1 : free[i] \in Slots
      BY <2>1
    <3> DEFINE n == Len(free) - 1
    <3>2. /\ SubSeq(free, 1, n) \in Seq(Slots)
          /\ Len(SubSeq(free, 1, n)) = IF 1 <= n THEN n - 1 + 1 ELSE 0
          /\ \A i \in 1 .. n - 1 + 1 : SubSeq(free, 1, n)[i] = free[1 + i - 1]
      <4> HIDE DEF n
      <4>1. n \in Int /\ 1 \in Int /\ \A i \in 1 .. n : free[i] \in Slots
        BY <3>1 DEF n
      <4> QED BY <4>1, SubSeqProperties
    <3>3. n \in Nat /\ n - 1 + 1 = n /\ free' = SubSeq(free, 1, n)
      BY <1>1, <2>1
    <3>4. Len(free') = n
      BY <3>2, <3>3
    <3>5. \A i \in 1 .. n : free'[i] = free[i]
      BY <3>2, <3>3
    <3> QED BY <3>2, <3>3, <3>4, <3>5
  <2>5. \A i, j \in 1 .. Len(free') : i # j => free'[i] # free'[j]
    <3>1. \A i \in 1 .. Len(free') : i \in 1 .. Len(free)
      BY <2>1, <2>4
    <3> QED BY <2>4, <3>1 DEF SlotAccounting
  <2>6. \A i \in 1 .. Len(free') : free'[i] < length' /\ free'[i] # s
    BY <1>1, <2>1, <2>4 DEF SlotAccounting
  <2>7. ASSUME NEW r \in 0 .. length' - 1, r # s
        PROVE  entries[r] = NoEntry <=> \E i \in 1 .. Len(free') : free'[i] = r
    <3>1. entries[r] = NoEntry <=> \E i \in 1 .. Len(free) : free[i] = r
      BY <1>1, <2>7 DEF SlotAccounting
    <3>2. ASSUME NEW i \in 1 .. Len(free), free[i] = r
          PROVE  i \in 1 .. Len(free') /\ free'[i] = r
      BY <1>1, <2>1, <2>4, <2>7, <3>2
    <3>3. ASSUME NEW i \in 1 .. Len(free'), free'[i] = r
          PROVE  i \in 1 .. Len(free) /\ free[i] = r
      BY <2>1, <2>4, <3>3
    <3> QED BY <3>1, <3>2, <3>3
  <2>8. length' = length /\ length \in 0 .. MaxSlots
    BY <1>1
  <2> HIDE DEF HInv, TypeOK
  <2> QED BY <2>2, <2>3, <2>4, <2>5, <2>6, <2>7, <2>8
<1>2. CASE free = <<>> /\ length < MaxSlots /\ s = length
           /\ length' = length + 1 /\ UNCHANGED free
  <2>1. entries[s] = NoEntry /\ generations[s] = 0
    BY <1>2 DEF SlotsCoherent
  <2>2. Len(free') = 0
    BY <1>2
  <2>3. \A r \in 0 .. length' - 1 : r # s => entries[r] # NoEntry
    BY <1>2 DEF SlotAccounting
  <2> QED BY <1>2, <2>1, <2>2, <2>3 DEF Slots
<1> QED BY <1>1, <1>2 DEF AllocateIn

(* A new handle, whoever asks for it, keeps the table coherent.            *)
LEMMA NewHandleHInv ==
  ASSUME HInv, NEW d \in Objects, NewHandle(d), UNCHANGED closed,
         added' \in 0 .. MaxObjects,
         pc' \in [Threads -> {"idle", "duplicate", "notify"}],
         object' \in [Threads -> Objects \cup {NoObject}], Duplicating'
  PROVE  HInv'
<1>0. PICK s \in Slots :
      /\ AllocateIn(s)
      /\ generations' = [generations EXCEPT ![s] = generations[s] + 1]
      /\ entries' = [entries EXCEPT ![s] =
                       [object |-> d, generation |-> generations[s] + 1]]
      /\ issued' = issued \cup
           {[slot |-> s, generation |-> generations[s] + 1,
             value |-> Encode(s, generations[s] + 1), object |-> d]}
  BY DEF NewHandle
<1> DEFINE g == generations[s] + 1
           new == [slot |-> s, generation |-> g, value |-> Encode(s, g), object |-> d]
<1>1. /\ entries[s] = NoEntry /\ g \in 1 .. GenMod
      /\ length' \in 0 .. MaxSlots /\ length <= length' /\ s < length'
      /\ \A r \in Slots : r # s => (r < length <=> r < length')
      /\ free' \in Seq(Slots)
      /\ \A i, j \in 1 .. Len(free') : i # j => free'[i] # free'[j]
      /\ \A i \in 1 .. Len(free') : free'[i] < length' /\ free'[i] # s
      /\ \A r \in 0 .. length' - 1 : r # s =>
           (entries[r] = NoEntry <=> \E i \in 1 .. Len(free') : free'[i] = r)
  BY <1>0, AllocatedSlot
<1>2. /\ generations' \in [Slots -> 0 .. GenMod] /\ generations'[s] = g
      /\ \A r \in Slots \ {s} : generations'[r] = generations[r]
  BY <1>0, <1>1 DEF HInv, TypeOK
<1>3. /\ entries' \in [Slots -> Entries]
      /\ entries'[s] = [object |-> d, generation |-> g]
      /\ \A r \in Slots \ {s} : entries'[r] = entries[r]
  BY <1>0, <1>1 DEF HInv, TypeOK, Entries
<1>4. new \in Handles /\ issued' = issued \cup {new}
  BY <1>0, <1>1, EncodeGen DEF Handles, Values, Encode
<1>5. entries'[s] # NoEntry
  BY <1>1, <1>3 DEF NoEntry, NoObject, Objects
<1> HIDE DEF g, new
<1>6. TypeOK'
  BY <1>1, <1>2, <1>3, <1>4 DEF HInv, TypeOK
<1>7. SlotAccounting'
  <2>1. ASSUME NEW r \in 0 .. length' - 1
        PROVE  entries'[r] = NoEntry <=> \E i \in 1 .. Len(free') : free'[i] = r
    <3>1. r \in Slots
      BY <1>1, CreatedSlots
    <3>2. CASE r = s
      BY <1>1, <1>5, <3>2
    <3>3. CASE r # s
      BY <1>1, <1>3, <3>1, <3>3
    <3> QED BY <3>2, <3>3
  <2> QED BY <1>1, <2>1 DEF SlotAccounting
<1>8. SlotsCoherent'
  <2> SUFFICES ASSUME NEW r \in Slots
               PROVE  /\ entries'[r] # NoEntry =>
                           /\ entries'[r].generation = generations'[r]
                           /\ entries'[r].generation >= 1
                           /\ entries'[r].object \in Objects
                           /\ r < length'
                      /\ r >= length' => generations'[r] = 0 /\ entries'[r] = NoEntry
                      /\ generations'[r] = GenMod => entries'[r] # NoEntry
    BY DEF SlotsCoherent
  <2>1. r \in Int /\ length \in Int /\ length' \in Int
    BY <1>1 DEF HInv, TypeOK, Slots
  <2>2. CASE r = s
    BY <1>1, <1>2, <1>3, <1>5, <2>1, <2>2
  <2>3. CASE r # s
    BY <1>1, <1>2, <1>3, <2>1, <2>3 DEF HInv, SlotsCoherent
  <2> QED BY <2>2, <2>3
<1>9. IssuedCoherent'
  <2> SUFFICES ASSUME NEW h \in issued'
               PROVE  /\ h.generation <= generations'[h.slot]
                      /\ h.value = Encode(h.slot, h.generation)
                      /\ entries'[h.slot] # NoEntry
                         /\ entries'[h.slot].generation = h.generation
                           => h.object = entries'[h.slot].object
    BY DEF IssuedCoherent, Encode
  <2>1. CASE h = new
    BY <1>1, <1>2, <1>3, <2>1 DEF new
  <2>2. CASE h \in issued /\ h.slot = s
    <3>1. h.generation \in Nat /\ h.generation <= generations[s]
          /\ h.value = Encode(h.slot, h.generation)
      BY <2>2 DEF HInv, IssuedCoherent, TypeOK, Handles
    <3>2. generations[s] \in Nat /\ g = generations[s] + 1
      BY DEF HInv, TypeOK, g
    <3> QED BY <1>2, <1>3, <2>2, <3>1, <3>2
  <2>3. CASE h \in issued /\ h.slot # s
    <3>1. h.slot \in Slots
      BY <2>3 DEF HInv, TypeOK, Handles
    <3> QED BY <1>2, <1>3, <2>3, <3>1 DEF HInv, IssuedCoherent
  <2> QED BY <1>4, <2>1, <2>2, <2>3
<1>10. ClosedCoherent'
  <2> SUFFICES ASSUME NEW v \in closed
               PROVE  /\ v.gen <= generations'[v.slot]
                      /\ entries'[v.slot] # NoEntry =>
                           entries'[v.slot].generation # v.gen
    BY DEF ClosedCoherent
  <2>1. v.slot \in Slots /\ v.gen \in Nat /\ v.gen <= generations[v.slot]
        /\ generations[v.slot] \in Nat
    BY DEF HInv, TypeOK, Values, ClosedCoherent
  <2>2. CASE v.slot = s
    BY <1>2, <1>3, <2>1, <2>2 DEF g
  <2>3. CASE v.slot # s
    BY <1>2, <1>3, <2>1, <2>3 DEF HInv, ClosedCoherent
  <2> QED BY <2>2, <2>3
<1> QED BY <1>6, <1>7, <1>8, <1>9, <1>10 DEF HInv

(* Closing a live entry vacates its slot and puts it on the free list.     *)
LEMMA CloseSlotHInv ==
  ASSUME HInv, NEW t \in Threads, NEW h \in issued, CloseSlot(t, h)
  PROVE  HInv'
<1> DEFINE s == h.slot
           v == h.value
<1>1. /\ s \in Slots /\ v \in Values /\ h.generation \in 1 .. GenMod
      /\ h.value = Encode(h.slot, h.generation) /\ v.slot = s
      /\ h.generation <= generations[s] /\ generations[s] \in 0 .. GenMod
  BY DEF HInv, TypeOK, Handles, IssuedCoherent, Encode
<1>2. /\ entries[s] # NoEntry /\ entries[s].generation = v.gen
      /\ entries' = [entries EXCEPT ![s] = NoEntry]
      /\ free' = Append(free, s) /\ closed' = closed \cup {v}
      /\ UNCHANGED <<generations, length, issued, added>>
      /\ object' = [object EXCEPT ![t] = entries[s].object]
      /\ pc' = [pc EXCEPT ![t] = "notify"]
  BY DEF CloseSlot
<1>3. /\ entries[s].generation = generations[s] /\ generations[s] >= 1
      /\ s < length /\ entries[s].object \in Objects
  BY <1>1, <1>2 DEF HInv, SlotsCoherent
<1>4. generations[s] # GenMod
  <2>1. v.gen = h.generation % GenMod
    BY <1>1 DEF Encode
  <2>2. v.gen \in 0 .. GenMod - 1
    BY <1>1 DEF Values
  <2>3. GenMod \in Nat
    BY HandleTableAssumption
  <2> QED BY <1>1, <1>2, <1>3, <2>2, <2>3
<1>5. /\ entries' \in [Slots -> Entries] /\ entries'[s] = NoEntry
      /\ \A r \in Slots \ {s} : entries'[r] = entries[r]
  <2>1. NoEntry \in Entries
    BY HandleTableAssumption DEF NoEntry, Entries
  <2> QED BY <1>1, <1>2, <2>1 DEF HInv, TypeOK
<1>6. /\ free' \in Seq(Slots) /\ Len(free') = Len(free) + 1
      /\ \A i \in 1 .. Len(free) : free'[i] = free[i]
      /\ free'[Len(free) + 1] = s /\ Len(free) \in Nat
  BY <1>1, <1>2, AppendProperties DEF HInv, TypeOK
<1> HIDE DEF s, v
<1>7. TypeOK'
  BY <1>1, <1>2, <1>3, <1>5, <1>6 DEF HInv, TypeOK
<1>8. SlotAccounting'
  <2>1. length' = length /\ length \in 0 .. MaxSlots
    BY <1>2 DEF HInv, TypeOK
  <2>2. \A i \in 1 .. Len(free) : free[i] # s
    <3>1. s \in 0 .. length - 1
      BY <1>1, <1>3, <2>1 DEF Slots
    <3> QED BY <1>2, <3>1 DEF HInv, SlotAccounting
  <2>3. \A i \in 1 .. Len(free') : i \in 1 .. Len(free) \/ i = Len(free) + 1
    BY <1>6
  <2>4. \A i, j \in 1 .. Len(free') : i # j => free'[i] # free'[j]
    BY <1>6, <2>2, <2>3 DEF HInv, SlotAccounting
  <2>5. \A i \in 1 .. Len(free') : free'[i] < length'
    BY <1>3, <1>6, <2>1, <2>3 DEF HInv, SlotAccounting
  <2>6. ASSUME NEW r \in 0 .. length' - 1
        PROVE  entries'[r] = NoEntry <=> \E i \in 1 .. Len(free') : free'[i] = r
    <3>1. r \in Slots /\ r \in 0 .. length - 1
      BY <2>1, CreatedSlots
    <3>2. CASE r = s
      BY <1>5, <1>6, <3>2
    <3>3. CASE r # s
      <4>1. entries'[r] = entries[r]
        BY <1>5, <3>1, <3>3
      <4>2. entries[r] = NoEntry <=> \E i \in 1 .. Len(free) : free[i] = r
        BY <3>1 DEF HInv, SlotAccounting
      <4>3. (\E i \in 1 .. Len(free) : free[i] = r)
              <=> \E i \in 1 .. Len(free') : free'[i] = r
        BY <1>6, <2>3, <3>3
      <4> QED BY <4>1, <4>2, <4>3
    <3> QED BY <3>2, <3>3
  <2> QED BY <2>4, <2>5, <2>6 DEF SlotAccounting
<1>9. SlotsCoherent'
  BY <1>1, <1>2, <1>3, <1>4, <1>5 DEF HInv, SlotsCoherent
<1>10. IssuedCoherent'
  <2> SUFFICES ASSUME NEW k \in issued
               PROVE  /\ k.generation <= generations[k.slot]
                      /\ k.value = Encode(k.slot, k.generation)
                      /\ entries'[k.slot] # NoEntry
                         /\ entries'[k.slot].generation = k.generation
                           => k.object = entries'[k.slot].object
    BY <1>2 DEF IssuedCoherent, Encode
  <2>1. k.slot \in Slots
    BY DEF HInv, TypeOK, Handles
  <2> QED BY <1>5, <2>1 DEF HInv, IssuedCoherent
<1>11. ClosedCoherent'
  <2> SUFFICES ASSUME NEW w \in closed \cup {v}
               PROVE  /\ w.gen <= generations[w.slot]
                      /\ entries'[w.slot] # NoEntry =>
                           entries'[w.slot].generation # w.gen
    BY <1>2 DEF ClosedCoherent
  <2>1. CASE w = v
    <3>1. v.slot = s /\ v.gen = generations[s]
      BY <1>1, <1>2, <1>3
    <3>2. generations[s] \in Nat
      BY <1>1, HandleTableAssumption
    <3> QED BY <1>5, <2>1, <3>1, <3>2
  <2>2. CASE w \in closed
    <3>1. w.slot \in Slots
      BY <2>2 DEF HInv, TypeOK, Values
    <3> QED BY <1>5, <2>2, <3>1 DEF HInv, ClosedCoherent
  <2> QED BY <2>1, <2>2
<1>12. Duplicating'
  BY <1>2, <1>3 DEF HInv, TypeOK, Duplicating
<1> QED BY <1>7, <1>8, <1>9, <1>10, <1>11, <1>12 DEF HInv

(* The steps that leave the table alone keep the invariant.                *)
LEMMA TableUnchangedHInv ==
  ASSUME HInv, UNCHANGED <<entries, generations, length, free, issued, closed, added>>,
         pc' \in [Threads -> {"idle", "duplicate", "notify"}],
         object' \in [Threads -> Objects \cup {NoObject}], Duplicating'
  PROVE  HInv'
<1>1. TypeOK'
  BY DEF HInv, TypeOK
<1>2. SlotAccounting' /\ SlotsCoherent'
  BY DEF HInv, SlotAccounting, SlotsCoherent
<1>3. IssuedCoherent' /\ ClosedCoherent'
  BY DEF HInv, IssuedCoherent, ClosedCoherent, Encode
<1> QED BY <1>1, <1>2, <1>3 DEF HInv

(* What resolves is a dispatcher.                                          *)
LEMMA ResolveType ==
  ASSUME HInv, NEW w \in Values, Resolve(w) # NoObject
  PROVE  Resolve(w) \in Objects
BY DEF HInv, SlotsCoherent, Resolve, Values

LEMMA NextHInv == HInv /\ [Next]_vars => HInv'
<1> SUFFICES ASSUME HInv, [Next]_vars PROVE HInv'
  OBVIOUS
<1>1. ASSUME NEW t \in Threads, Add(t) PROVE HInv'
  <2>1. added + 1 \in Objects /\ added' \in 0 .. MaxObjects
    BY <1>1, HandleTableAssumption DEF Add, HInv, TypeOK, Objects
  <2>2. /\ UNCHANGED <<closed, pc, object>> /\ NewHandle(added + 1)
        /\ pc' \in [Threads -> {"idle", "duplicate", "notify"}]
        /\ object' \in [Threads -> Objects \cup {NoObject}] /\ Duplicating'
    BY <1>1 DEF Add, HInv, TypeOK, Duplicating
  <2> QED BY <2>1, <2>2, NewHandleHInv
<1>2. ASSUME NEW t \in Threads, DuplicateAdd(t) PROVE HInv'
  <2>1. object[t] \in Objects /\ added' \in 0 .. MaxObjects
    BY <1>2 DEF DuplicateAdd, HInv, Duplicating, TypeOK
  <2>2. /\ UNCHANGED closed /\ NewHandle(object[t])
        /\ pc' \in [Threads -> {"idle", "duplicate", "notify"}]
        /\ object' \in [Threads -> Objects \cup {NoObject}] /\ Duplicating'
    BY <1>2 DEF DuplicateAdd, HInv, TypeOK, Duplicating
  <2> QED BY <2>1, <2>2, NewHandleHInv
<1>3. ASSUME NEW t \in Threads, NotifyClosed(t) PROVE HInv'
  <2>1. /\ pc' \in [Threads -> {"idle", "duplicate", "notify"}]
        /\ object' \in [Threads -> Objects \cup {NoObject}] /\ Duplicating'
    BY <1>3 DEF NotifyClosed, HInv, TypeOK, Duplicating
  <2> QED BY <1>3, <2>1, TableUnchangedHInv DEF NotifyClosed
<1>4. ASSUME NEW t \in Threads, NEW h \in issued, DuplicateGet(t, h) PROVE HInv'
  <2>0. h.value \in Values
    BY DEF HInv, TypeOK, Handles
  <2>1. Resolve(h.value) \in Objects
    BY <1>4, <2>0, ResolveType DEF DuplicateGet
  <2>2. /\ pc' \in [Threads -> {"idle", "duplicate", "notify"}]
        /\ object' \in [Threads -> Objects \cup {NoObject}] /\ Duplicating'
    BY <1>4, <2>1 DEF DuplicateGet, HInv, TypeOK, Duplicating
  <2> QED BY <1>4, <2>2, TableUnchangedHInv DEF DuplicateGet
<1>5. CASE UNCHANGED vars
  <2>1. /\ pc' \in [Threads -> {"idle", "duplicate", "notify"}]
        /\ object' \in [Threads -> Objects \cup {NoObject}] /\ Duplicating'
    BY <1>5 DEF vars, HInv, TypeOK, Duplicating
  <2> QED BY <1>5, <2>1, TableUnchangedHInv DEF vars
<1> QED BY <1>1, <1>2, <1>3, <1>4, <1>5, CloseSlotHInv DEF Next

(* The inductive invariant holds in every reachable state.                 *)
THEOREM TableInvariant == Spec => []HInv
<1>1. Init => HInv
  BY InitHInv
<1>2. HInv /\ [Next]_vars => HInv'
  BY NextHInv
<1> QED BY <1>1, <1>2, PTL DEF Spec

(* Stale handle values never name another dispatcher, for every number of  *)
(* slots and every width of the generation field.                          *)
THEOREM ValuesDoNotAlias == Spec => []NoAliasing
<1>1. HInv => NoAliasing
  <2> SUFFICES ASSUME HInv, NEW h \in issued, Resolve(h.value) # NoObject
               PROVE  Resolve(h.value) = h.object
    BY DEF NoAliasing
  <2>1. /\ h.slot \in Slots /\ h.generation \in 0 .. GenMod /\ h.generation >= 1
        /\ h.value = [gen |-> h.generation % GenMod, slot |-> h.slot]
    BY HandleTableAssumption DEF HInv, TypeOK, Handles, IssuedCoherent, Encode
  <2>2. /\ h.value.slot = h.slot /\ entries[h.slot] # NoEntry
        /\ entries[h.slot].generation = h.generation % GenMod
        /\ Resolve(h.value) = entries[h.slot].object
    BY <2>1 DEF Resolve
  <2>3. entries[h.slot].generation >= 1
    BY <2>1, <2>2 DEF HInv, SlotsCoherent
  <2>4. h.generation % GenMod = h.generation
    BY <2>1, <2>2, <2>3, EncodeGen, HandleTableAssumption
  <2> QED BY <2>1, <2>2, <2>4 DEF HInv, IssuedCoherent
<1> QED BY <1>1, TableInvariant, PTL

(* A closed handle is never resurrected.                                   *)
THEOREM ClosedStaysClosed == Spec => []NoResurrection
<1>1. HInv => NoResurrection
  BY DEF HInv, ClosedCoherent, NoResurrection, Resolve
<1> QED BY <1>1, TableInvariant, PTL

(* The free list holds every vacant slot exactly once.                     *)
THEOREM SlotsAccounted == Spec => []SlotAccounting
<1>1. HInv => SlotAccounting
  BY DEF HInv
<1> QED BY <1>1, TableInvariant, PTL
=============================================================================
