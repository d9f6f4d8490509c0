---------------------------- MODULE HandleTable ----------------------------
(***************************************************************************)
(* The handle table of mojo-rs-core (handle.rs): the registry that maps    *)
(* opaque handle values to dispatchers.  A value packs a slot and the low  *)
(* bits of the slot's generation; the generation is what keeps a value of  *)
(* a closed handle from naming whatever lives in its slot later.  `Handle` *)
(* is Clone and closes on drop, so the same value may be closed any number *)
(* of times, by any thread, long after its slot has been reused.           *)
(* Each critical section of the table's mutex is one step; duplicate takes *)
(* the mutex twice, and close_slot calls on_closed after releasing it.     *)
(***************************************************************************)
EXTENDS Integers, Sequences, FiniteSets

CONSTANTS Threads,
          MaxSlots,    \* 2^SLOT_BITS
          GenMod,      \* generations a value can tell apart, 2^(32 - SLOT_BITS)
          MaxObjects,  \* bound: dispatchers that are ever added
          MaxIssued    \* bound: handles that are ever created

ASSUME HandleTableAssumption ==
  /\ MaxSlots \in Nat \ {0}
  /\ GenMod \in Nat \ {0}
  /\ MaxObjects \in Nat
  /\ MaxIssued \in Nat

Slots == 0 .. MaxSlots - 1
Objects == 1 .. MaxObjects
NoObject == 0
Values == [gen: 0 .. GenMod - 1, slot: Slots]
InvalidValue == [gen |-> 0, slot |-> 0]

VARIABLES
  entries,      \* entries[s]: the dispatcher and generation in slot s
  generations,  \* generations[s]: the persistent counter of slot s
  length,       \* entries.len(): the slots below it have been created
  free,         \* the free slots, last in first out
  issued,       \* every handle ever created (history)
  closed,       \* the values that were closed (history)
  added,        \* how many dispatchers were added
  pc, object    \* per thread: what it does between two critical sections

vars == <<entries, generations, length, free, issued, closed, added, pc, object>>

NoEntry == [object |-> NoObject, generation |-> 0]
Entries == [object: Objects \cup {NoObject}, generation: 0 .. GenMod]
Handles == [slot: Slots, generation: 1 .. GenMod, value: Values, object: Objects]

(* Slots, generations and the values made of them stay in their ranges.    *)
TypeOK ==
  /\ entries \in [Slots -> Entries]
  /\ generations \in [Slots -> 0 .. GenMod]
  /\ length \in 0 .. MaxSlots
  /\ free \in Seq(Slots)
  /\ issued \subseteq Handles
  /\ closed \subseteq Values
  /\ added \in 0 .. MaxObjects
  /\ pc \in [Threads -> {"idle", "duplicate", "notify"}]
  /\ object \in [Threads -> Objects \cup {NoObject}]

Init ==
  /\ entries = [s \in Slots |-> NoEntry]
  /\ generations = [s \in Slots |-> 0]
  /\ length = 0
  /\ free = <<>>
  /\ issued = {} /\ closed = {} /\ added = 0
  /\ pc = [t \in Threads |-> "idle"]
  /\ object = [t \in Threads |-> NoObject]

-----------------------------------------------------------------------------
(* (generation << GENERATION_SHIFT) | slot: the high bits are shifted out. *)
Encode(slot, generation) == [gen |-> generation % GenMod, slot |-> slot]

(* Mutant: any live slot answers, whatever the generation.                 *)
ResolveBySlot(v) ==
  IF v # InvalidValue /\ v.slot < length THEN entries[v.slot].object
  ELSE NoObject

(* get: 0 is invalid, the slot must be live and of the value's generation. *)
Resolve(v) ==
  IF /\ v # InvalidValue
     /\ v.slot < length
     /\ entries[v.slot] # NoEntry
     /\ entries[v.slot].generation = v.gen
  THEN entries[v.slot].object ELSE NoObject

(* allocate: the most recently freed slot, or else a new one.  (The u32    *)
(* counter of a slot never wraps: HandleTableProofs.)                      *)
AllocateIn(s) ==
  \/ /\ free # <<>> /\ s = free[Len(free)]
     /\ free' = SubSeq(free, 1, Len(free) - 1)
     /\ UNCHANGED length
  \/ /\ free = <<>> /\ length < MaxSlots /\ s = length
     /\ length' = length + 1
     /\ UNCHANGED free

(* Mutant: a reused slot starts again at generation 1.                     *)
NewHandleSameGeneration(d) ==
  /\ Cardinality(issued) < MaxIssued
  /\ \E s \in Slots :
       /\ AllocateIn(s)
       /\ generations' = [generations EXCEPT ![s] = 1]
       /\ entries' = [entries EXCEPT ![s] = [object |-> d, generation |-> 1]]
       /\ issued' = issued \cup {[slot |-> s, generation |-> 1,
                                  value |-> Encode(s, 1), object |-> d]}

(* The common part of add and duplicate: a new handle for dispatcher d.    *)
NewHandle(d) ==
  /\ Cardinality(issued) < MaxIssued
  /\ \E s \in Slots :
       LET g == generations[s] + 1 IN
       /\ AllocateIn(s)
       /\ generations' = [generations EXCEPT ![s] = g]
       /\ entries' = [entries EXCEPT ![s] = [object |-> d, generation |-> g]]
       /\ issued' = issued \cup {[slot |-> s, generation |-> g,
                                  value |-> Encode(s, g), object |-> d]}

Add(t) ==
  /\ pc[t] = "idle" /\ added < MaxObjects
  /\ NewHandle(added + 1)
  /\ added' = added + 1
  /\ UNCHANGED <<closed, pc, object>>

(* Mutant: a stale clone frees the slot a second time.                     *)
CloseSlotUnchecked(t, h) ==
  /\ pc[t] = "idle"
  /\ object' = [object EXCEPT ![t] = entries[h.slot].object]
  /\ entries' = [entries EXCEPT ![h.slot] = NoEntry]
  /\ free' = Append(free, h.slot)
  /\ closed' = closed \cup {h.value}
  /\ pc' = [pc EXCEPT ![t] = "notify"]
  /\ UNCHANGED <<generations, length, issued, added>>

(* close_internal: the drop of some Handle, a stale clone included.        *)
CloseSlot(t, h) ==
  LET v == h.value IN
  /\ pc[t] = "idle"
  /\ entries[h.slot] # NoEntry
  /\ entries[h.slot].generation = v.gen
  /\ object' = [object EXCEPT ![t] = entries[h.slot].object]
  /\ entries' = [entries EXCEPT ![h.slot] = NoEntry]
  /\ free' = Append(free, h.slot)
  /\ closed' = closed \cup {v}
  /\ pc' = [pc EXCEPT ![t] = "notify"]
  /\ UNCHANGED <<generations, length, issued, added>>

(* on_closed of the dispatcher, with the table unlocked.                   *)
NotifyClosed(t) ==
  /\ pc[t] = "notify"
  /\ pc' = [pc EXCEPT ![t] = "idle"]
  /\ object' = [object EXCEPT ![t] = NoObject]
  /\ UNCHANGED <<entries, generations, length, free, issued, closed, added>>

(* duplicate, first half: resolve the value of a handle.                   *)
DuplicateGet(t, h) ==
  /\ pc[t] = "idle"
  /\ Resolve(h.value) # NoObject
  /\ object' = [object EXCEPT ![t] = Resolve(h.value)]
  /\ pc' = [pc EXCEPT ![t] = "duplicate"]
  /\ UNCHANGED <<entries, generations, length, free, issued, closed, added>>

(* duplicate, second half: a new slot for what was resolved.               *)
DuplicateAdd(t) ==
  /\ pc[t] = "duplicate"
  /\ NewHandle(object[t])
  /\ pc' = [pc EXCEPT ![t] = "idle"]
  /\ object' = [object EXCEPT ![t] = NoObject]
  /\ UNCHANGED <<closed, added>>

Next == \E t \in Threads :
          \/ Add(t)
          \/ NotifyClosed(t)
          \/ DuplicateAdd(t)
          \/ \E h \in issued : CloseSlot(t, h) \/ DuplicateGet(t, h)

Spec == Init /\ [][Next]_vars

-----------------------------------------------------------------------------
(* A handle value names the dispatcher it was created for, or nothing: a   *)
(* stale value "cannot alias a newly created object at the same slot".     *)
NoAliasing ==
  \A h \in issued : Resolve(h.value) \in {h.object, NoObject}

(* "A closed handle cannot be resurrected": a value that was closed does   *)
(* not resolve again, however often its slot is reused.                    *)
NoResurrection == \A v \in closed : Resolve(v) = NoObject

(* The free list holds each vacant slot exactly once, although any number  *)
(* of stale clones may have been dropped: no slot is lost or given twice.  *)
SlotAccounting ==
  /\ \A i, j \in 1 .. Len(free) : i # j => free[i] # free[j]
  /\ \A s \in 0 .. length - 1 :
       entries[s] = NoEntry <=> \E i \in 1 .. Len(free) : free[i] = s
  /\ \A i \in 1 .. Len(free) : free[i] < length
=============================================================================
