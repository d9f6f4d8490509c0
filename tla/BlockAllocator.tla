--------------------------- MODULE BlockAllocator ---------------------------
(***************************************************************************)
(* The lock-free block allocator of link_memory.rs: a free list threaded   *)
(* through the blocks themselves, in memory two processes map.  The header *)
(* of block 0 is the front of the list; it carries a version, bumped by    *)
(* every exchange, against a front that changed and changed back.  pop and *)
(* free run as their separate memory accesses: read the front, read or     *)
(* write a block's header, exchange the front.  A header that is read      *)
(* after its block was allocated holds whatever its new owner wrote.       *)
(***************************************************************************)
EXTENDS Integers, FiniteSets

CONSTANTS Users,        \* the threads of both processes that use the memory
          NumBlocks,    \* blocks of the region, block 0 included
          VersionMod,   \* the version field wraps modulo this (2^16)
          Garbage       \* what user data reads as in the `next` field

ASSUME BlockAllocatorAssumption ==
  /\ NumBlocks \in Nat \ {0}
  /\ VersionMod \in Nat \ {0}
  /\ Garbage \subseteq Int

Blocks == 1 .. NumBlocks - 1  \* block 0 is never allocable

VARIABLES
  front,     \* the header of block 0: [version, next]
  next,      \* next[b]: the `next` field in the first bytes of block b
  held,      \* held[u]: the blocks that were given to u
  pc,        \* where u is in pop_block or free_block
  known,     \* the loop variable `front` of u's call
  block,     \* the block u's call is about
  succ,      \* `next_abs` of pop_block, as read from the block's header
  age,       \* exchanges of the front since u last read it (history)
  result     \* the result of u's last pop_block

vars == <<front, next, held, pc, known, block, succ, age, result>>

(* A `next` field is relative to the block that follows its own.           *)
Absolute(b, n) == b + n + 1
Relative(b, target) == target - b - 1

FirstFree(h) == Absolute(0, h.next)

(* A fresh region: block after block, the last one back to block 0.        *)
Init ==
  /\ front = [version |-> 0,
              next |-> IF NumBlocks = 1 THEN Relative(0, 0) ELSE 0]
  /\ next = [b \in Blocks |->
               IF b = NumBlocks - 1 THEN Relative(b, 0) ELSE 0]
  /\ held = [u \in Users |-> {}]
  /\ pc = [u \in Users |-> "idle"]
  /\ known = [u \in Users |-> front]
  /\ block = [u \in Users |-> 0]
  /\ succ = [u \in Users |-> 0]
  /\ age = [u \in Users |-> 0]
  /\ result = [u \in Users |-> "freed"]

-----------------------------------------------------------------------------
Active(u) == pc[u] # "idle"

ReadFront(u) ==
  /\ known' = [known EXCEPT ![u] = front]
  /\ age' = [age EXCEPT ![u] = 0]

Goto(u, p) == pc' = [pc EXCEPT ![u] = p]
Return(u, r) == Goto(u, "idle") /\ result' = [result EXCEPT ![u] = r]

(* Mutant: the version stays, so a front that changed back looks the same. *)
UpdateFrontSameVersion(u, first) ==
  /\ front = known[u]
  /\ \A v \in Users \ {u} : Active(v) => age[v] < VersionMod - 1
  /\ front' = [version |-> known[u].version, next |-> Relative(0, first)]
  /\ age' = [v \in Users |-> IF v # u /\ Active(v) THEN age[v] + 1 ELSE 0]

(* The exchange of the front header.  No call is overtaken by a whole      *)
(* cycle of the version: the bound under which the version is a witness.   *)
UpdateFront(u, first) ==
  /\ front = known[u]
  /\ \A v \in Users \ {u} : Active(v) => age[v] < VersionMod - 1
  /\ front' = [version |-> (known[u].version + 1) % VersionMod,
               next |-> Relative(0, first)]
  /\ age' = [v \in Users |-> IF v # u /\ Active(v) THEN age[v] + 1 ELSE 0]

PopStart(u) ==
  /\ pc[u] = "idle"
  /\ ReadFront(u)
  /\ Goto(u, "pop_read")
  /\ result' = [result EXCEPT ![u] = "pending"]
  /\ UNCHANGED <<front, next, held, block, succ>>

(* The front is checked, the first block's header is read and checked.     *)
PopRead(u) ==
  LET idx == FirstFree(known[u])
      nextAbs == Absolute(idx, next[idx]) IN
  /\ pc[u] = "pop_read"
  /\ \/ /\ idx \notin Blocks
        /\ Return(u, "none")
        /\ UNCHANGED <<block, succ>>
     \/ /\ idx \in Blocks /\ nextAbs \notin 0 .. NumBlocks - 1
        /\ Return(u, "none")
        /\ UNCHANGED <<block, succ>>
     \/ /\ idx \in Blocks /\ nextAbs \in 0 .. NumBlocks - 1
        /\ block' = [block EXCEPT ![u] = idx]
        /\ succ' = [succ EXCEPT ![u] = nextAbs]
        /\ Goto(u, "pop_cas")
        /\ UNCHANGED result
  /\ UNCHANGED <<front, next, held, known, age>>

(* Mutant: the retry keeps the front of the first attempt.                 *)
PopCasStaleRetry(u) ==
  /\ pc[u] = "pop_cas"
  /\ \/ /\ UpdateFront(u, succ[u])
        /\ held' = [held EXCEPT ![u] = @ \cup {block[u]}]
        /\ Return(u, "some")
     \/ /\ Goto(u, "pop_read")
        /\ UNCHANGED <<front, held, result, age>>
  /\ UNCHANGED <<next, known, block, succ>>

PopCas(u) ==
  /\ pc[u] = "pop_cas"
  /\ \/ /\ UpdateFront(u, succ[u])
        /\ held' = [held EXCEPT ![u] = @ \cup {block[u]}]
        /\ Return(u, "some")
        /\ UNCHANGED known
     \/ /\ ReadFront(u)
        /\ Goto(u, "pop_read")
        /\ UNCHANGED <<front, held, result>>
  /\ UNCHANGED <<next, block, succ>>

(* free_block of a block u has: from now on it is not u's to write to.     *)
FreeStart(u) ==
  /\ pc[u] = "idle"
  /\ \E b \in held[u] : block' = [block EXCEPT ![u] = b]
  /\ ReadFront(u)
  /\ Goto(u, "free_write")
  /\ result' = [result EXCEPT ![u] = "pending"]
  /\ UNCHANGED <<front, next, held, succ>>

(* Mutant: the freed block keeps the header its user left in it.           *)
FreeWithoutWrite(u) ==
  /\ pc[u] = "free_write"
  /\ Goto(u, "free_cas")
  /\ UNCHANGED <<front, next, held, known, block, succ, age, result>>

(* The freed block points at the current head.  first_free is in range:    *)
(* the front never leads out of the region (FreeListIntact).               *)
FreeWrite(u) ==
  /\ pc[u] = "free_write"
  /\ next' = [next EXCEPT ![block[u]] = Relative(block[u], FirstFree(known[u]))]
  /\ Goto(u, "free_cas")
  /\ UNCHANGED <<front, held, known, block, succ, age, result>>

FreeCas(u) ==
  /\ pc[u] = "free_cas"
  /\ \/ /\ UpdateFront(u, block[u])
        /\ held' = [held EXCEPT ![u] = @ \ {block[u]}]
        /\ Return(u, "freed")
        /\ UNCHANGED known
     \/ /\ ReadFront(u)
        /\ Goto(u, "free_write")
        /\ UNCHANGED <<front, held, result>>
  /\ UNCHANGED <<next, block, succ>>

(* The owner uses its block: the header's bytes become data.               *)
WriteData(u) ==
  /\ pc[u] = "idle"
  /\ \E b \in held[u], g \in Garbage : next' = [next EXCEPT ![b] = g]
  /\ UNCHANGED <<front, held, pc, known, block, succ, age, result>>

(* A fragment travels to the other process, which will free it.            *)
Transfer(u, v) ==
  /\ pc[u] = "idle" /\ u # v
  /\ \E b \in held[u] : held' = [held EXCEPT ![u] = @ \ {b}, ![v] = @ \cup {b}]
  /\ UNCHANGED <<front, next, pc, known, block, succ, age, result>>

Call(u) == \/ PopRead(u) \/ PopCas(u) \/ FreeWrite(u) \/ FreeCas(u)

Next == \E u \in Users : \/ PopStart(u)
                         \/ FreeStart(u)
                         \/ Call(u)
                         \/ WriteData(u)
                         \/ \E v \in Users : Transfer(u, v)

Spec == Init /\ [][Next]_vars

(* A thread inside a call keeps running, and a weak exchange that could    *)
(* succeed again and again does not fail spuriously each time.             *)
Succeeds(u) == (PopCas(u) \/ FreeCas(u)) /\ front' # front
Fairness == \A u \in Users : WF_vars(Call(u)) /\ SF_vars(Succeeds(u))
FairSpec == Spec /\ Fairness

-----------------------------------------------------------------------------
(* The free list as it lies in memory, followed from the front: the block  *)
(* after k steps, 0 once the list has ended.                               *)
Walk ==
  LET walk[k \in 0 .. NumBlocks] ==
        IF k = 0 THEN FirstFree(front)
        ELSE IF walk[k - 1] \in Blocks
             THEN Absolute(walk[k - 1], next[walk[k - 1]]) ELSE 0
  IN walk

FreeBlocks == {Walk[k] : k \in 0 .. NumBlocks} \ {0}

(* The list in shared memory is always whole, whatever the users wrote and *)
(* however their calls interleave: it leads through blocks nobody holds to *)
(* block 0 without a cycle, and a block is on it or held by exactly one    *)
(* user, so that none is handed out twice and none is lost.                *)
FreeListIntact ==
  /\ FreeBlocks \subseteq Blocks
  /\ Walk[NumBlocks - 1] = 0
  /\ \A u \in Users : held[u] \cap FreeBlocks = {}
  /\ \A u, v \in Users : u # v => held[u] \cap held[v] = {}
  /\ FreeBlocks \cup UNION {held[u] : u \in Users} = Blocks

(* The memory accesses of pop_block and free_block amount to one atomic    *)
(* allocation or free each, taking effect at the exchange that succeeds.   *)
Pool == INSTANCE BlockPool WITH free <- FreeBlocks
ImplementsPool == Pool!Spec

(* The allocator is lock-free: while some call stays in its retry loop,    *)
(* calls keep returning.  pop_block and free_block must refresh `front`    *)
(* from the value a failed exchange observed, or they would spin forever.  *)
SomeCallReturns == \E u \in Users : Active(u) /\ pc'[u] = "idle"
LockFree == \A u \in Users : <>[]Active(u) => []<><<SomeCallReturns>>_vars
=============================================================================
