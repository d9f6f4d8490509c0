------------------------ MODULE BlockAllocatorProofs ------------------------
(***************************************************************************)
(* Proofs about BlockAllocator, for any number of users and blocks, any    *)
(* width of the version and any user data: the free list stays whole, and  *)
(* the memory accesses of pop_block and free_block implement BlockPool.    *)
(*                                                                         *)
(* The invariant names the list: a function from places to blocks that the *)
(* `next` fields follow, without repetition, through exactly the blocks    *)
(* that nobody holds.  An exchange that succeeds sees the version its call *)
(* has read, and the version tells how often the front was exchanged since *)
(* (age): so what the call knows of the list is still true.                *)
(***************************************************************************)
EXTENDS BlockAllocator, FiniteSetTheorems, WellFoundedInduction, TLAPS

Headers == [version : 0 .. VersionMod - 1, next : Int]

(* The types of the variables.                                             *)
TypeOK ==
  /\ front \in Headers
  /\ next \in [Blocks -> Int]
  /\ held \in [Users -> SUBSET Blocks]
  /\ pc \in [Users -> {"idle", "pop_read", "pop_cas", "free_write", "free_cas"}]
  /\ known \in [Users -> Headers]
  /\ block \in [Users -> 0 .. NumBlocks - 1]
  /\ succ \in [Users -> 0 .. NumBlocks - 1]
  /\ age \in [Users -> 0 .. VersionMod - 1]
  /\ result \in [Users -> {"none", "some", "freed", "pending"}]

AllHeld == UNION {held[u] : u \in Users}

(* f is the free list: f[0], ..., f[n - 1] are its blocks.                 *)
IsList(n, f) ==
  /\ f \in [0 .. n -> 0 .. NumBlocks - 1]
  /\ f[0] = FirstFree(front)
  /\ f[n] = 0
  /\ \A k \in 0 .. n - 1 : f[k] \in Blocks /\ f[k + 1] = Absolute(f[k], next[f[k]])
  /\ \A j, k \in 0 .. n - 1 : f[j] = f[k] => j = k
  /\ \A b \in Blocks : b \notin AllHeld <=> \E k \in 0 .. n - 1 : f[k] = b

ListOK == \E n \in Nat : \E f : IsList(n, f)

Apart == \A u, v \in Users : u # v => held[u] \cap held[v] = {}

(* What a call knows of the front, and how far it is right about it.       *)
FrontOK(u) ==
  Active(u) => /\ front.version = (known[u].version + age[u]) % VersionMod
               /\ age[u] = 0 => front = known[u]

(* A pop knows the second block of a list that has not changed since.      *)
PopOK(u) ==
  pc[u] = "pop_cas" => /\ block[u] \in Blocks
                       /\ block[u] = FirstFree(known[u])
                       /\ age[u] = 0 => succ[u] = Absolute(block[u], next[block[u]])

(* A block that is being freed is its user's until the exchange succeeds.  *)
FreeOK(u) ==
  /\ pc[u] \in {"free_write", "free_cas"} => block[u] \in held[u]
  /\ pc[u] = "free_cas" =>
       next[block[u]] = Relative(block[u], FirstFree(known[u]))

CallOK(u) == FrontOK(u) /\ PopOK(u) /\ FreeOK(u)

Inv == TypeOK /\ ListOK /\ Apart /\ \A u \in Users : CallOK(u)

-----------------------------------------------------------------------------
(* Arithmetic of the version field.                                        *)
LEMMA ModOnce ==
  ASSUME NEW x \in 0 .. 2 * VersionMod - 1
  PROVE  x % VersionMod = IF x < VersionMod THEN x ELSE x - VersionMod
<1>1. VersionMod \in Nat \ {0}
  BY BlockAllocatorAssumption
<1>2. x \in Int
  BY <1>1
<1>3. CASE x < VersionMod
  BY <1>1, <1>3
<1>4. CASE x >= VersionMod
  BY <1>1, <1>4
<1> QED BY <1>1, <1>2, <1>3, <1>4

LEMMA VersionTells ==
  ASSUME NEW a \in 0 .. VersionMod - 1, NEW b \in 0 .. VersionMod - 1
  PROVE  /\ (a + b) % VersionMod = a => b = 0
         /\ (a + 0) % VersionMod = a
         /\ (a + 1) % VersionMod \in 0 .. VersionMod - 1
         /\ (((a + b) % VersionMod) + 1) % VersionMod = (a + (b + 1)) % VersionMod
<1>1. VersionMod \in Nat \ {0} /\ VersionMod \in Nat
  BY BlockAllocatorAssumption
<1>2. /\ a + b \in 0 .. 2 * VersionMod - 1 /\ a + 0 \in 0 .. 2 * VersionMod - 1
      /\ a + 1 \in 0 .. 2 * VersionMod - 1
      /\ a + (b + 1) \in 0 .. 2 * VersionMod - 1
  BY <1>1
<1>3. /\ (a + b) % VersionMod = a => b = 0
      /\ (a + 0) % VersionMod = a
      /\ (a + 1) % VersionMod \in 0 .. VersionMod - 1
  BY <1>1, <1>2, ModOnce
<1>4. PICK c : c = ((a + b) % VersionMod)
  OBVIOUS
<1>5. c = IF a + b < VersionMod THEN a + b ELSE a + b - VersionMod
  BY <1>1, <1>2, <1>4, ModOnce
<1>6. c + 1 \in 0 .. 2 * VersionMod - 1
  BY <1>1, <1>5
<1>7. (c + 1) % VersionMod = IF c + 1 < VersionMod THEN c + 1 ELSE c + 1 - VersionMod
  BY <1>1, <1>5, <1>6, ModOnce
<1>8. (a + (b + 1)) % VersionMod = IF a + (b + 1) < VersionMod
                                   THEN a + (b + 1) ELSE a + (b + 1) - VersionMod
  BY <1>1, <1>2, ModOnce
<1>9. (c + 1) % VersionMod = (a + (b + 1)) % VersionMod
  BY <1>1, <1>5, <1>7, <1>8
<1> QED BY <1>3, <1>4, <1>9

LEMMA RelativeAbsolute ==
  ASSUME NEW b \in Int, NEW c \in Int
  PROVE  /\ Relative(b, c) \in Int
         /\ Absolute(b, Relative(b, c)) = c
BY DEF Absolute, Relative

-----------------------------------------------------------------------------
LEMMA InitInv == Init => Inv
<1> SUFFICES ASSUME Init PROVE Inv
  OBVIOUS
<1>0. NumBlocks \in Nat \ {0} /\ VersionMod \in Nat \ {0}
  BY BlockAllocatorAssumption
<1>1. TypeOK
  BY <1>0 DEF TypeOK, Init, Headers, Relative, Blocks
<1>2. Apart
  BY DEF Apart, Init
<1>3. \A u \in Users : CallOK(u)
  BY DEF Init, CallOK, FrontOK, PopOK, FreeOK, Active
<1>4. ListOK
  <2> DEFINE n == NumBlocks - 1
             f == [k \in 0 .. n |-> IF k = n THEN 0 ELSE k + 1]
  <2>1. n \in Nat /\ f \in [0 .. n -> 0 .. NumBlocks - 1]
    BY <1>0
  <2>2. f[0] = FirstFree(front)
    BY <1>0 DEF Init, FirstFree, Absolute, Relative
  <2>3. ASSUME NEW k \in 0 .. n - 1
        PROVE  f[k] \in Blocks /\ f[k + 1] = Absolute(f[k], next[f[k]])
    <3>1. f[k] = k + 1 /\ k + 1 \in Blocks
      BY <1>0 DEF Blocks
    <3>2. next[k + 1] = IF k + 1 = NumBlocks - 1 THEN Relative(k + 1, 0) ELSE 0
      BY <3>1 DEF Init
    <3>3. f[k + 1] = IF k + 1 = n THEN 0 ELSE k + 2
      BY <1>0
    <3> QED BY <3>1, <3>2, <3>3, <1>0 DEF Absolute, Relative
  <2>4. \A j, k \in 0 .. n - 1 : f[j] = f[k] => j = k
    BY <1>0
  <2>5. AllHeld = {}
    BY DEF Init, AllHeld
  <2>6. ASSUME NEW b \in Blocks
        PROVE  \E k \in 0 .. n - 1 : f[k] = b
    <3>1. b - 1 \in 0 .. n - 1 /\ f[b - 1] = b
      BY <1>0 DEF Blocks
    <3> QED BY <3>1
  <2>7. f[n] = 0
    BY <1>0
  <2> HIDE DEF n, f
  <2>8. IsList(n, f)
    BY <2>1, <2>2, <2>3, <2>4, <2>5, <2>6, <2>7 DEF IsList
  <2> QED BY <2>1, <2>8 DEF ListOK
<1> QED BY <1>1, <1>2, <1>3, <1>4 DEF Inv

(* Memory is written in held blocks only: the list stays.                  *)
LEMMA ListKept ==
  ASSUME Inv, front' = front, AllHeld' = AllHeld,
         \A b \in Blocks : b \notin AllHeld => next'[b] = next[b]
  PROVE  ListOK'
<1>1. PICK n \in Nat : \E f : IsList(n, f)
  BY DEF Inv, ListOK
<1>1a. PICK f : IsList(n, f)
  BY <1>1
<1>2. \A k \in 0 .. n - 1 : f[k] \in Blocks /\ f[k] \notin AllHeld
  BY <1>1a DEF IsList
<1>3. IsList(n, f)'
  BY <1>1a, <1>2 DEF IsList, FirstFree
<1> QED BY <1>3 DEF ListOK

(* A call that sees the front it knows has not been overtaken.             *)
LEMMA NotOvertaken ==
  ASSUME Inv, NEW u \in Users, Active(u), front = known[u]
  PROVE  age[u] = 0
<1>1. front.version = (front.version + age[u]) % VersionMod
  BY DEF Inv, CallOK, FrontOK
<1>2. front.version \in 0 .. VersionMod - 1 /\ age[u] \in 0 .. VersionMod - 1
  BY DEF Inv, TypeOK, Headers
<1> QED BY <1>1, <1>2, VersionTells

(* An exchange keeps the other calls right about how old their front is.   *)
LEMMA ExchangeFront ==
  ASSUME Inv, NEW u \in Users, NEW first \in 0 .. NumBlocks - 1,
         UpdateFront(u, first), Active(u), Goto(u, "idle"), known' = known
  PROVE  /\ front' \in Headers
         /\ FirstFree(front') = first
         /\ age' \in [Users -> 0 .. VersionMod - 1]
         /\ \A v \in Users : FrontOK(v)'
         /\ \A v \in Users \ {u} : Active(v) => age'[v] # 0
<1>0. VersionMod \in Nat \ {0} /\ NumBlocks \in Nat \ {0}
  BY BlockAllocatorAssumption
<1>1. front' = [version |-> (known[u].version + 1) % VersionMod,
                next |-> Relative(0, first)]
  BY DEF UpdateFront
<1>2. known[u].version \in 0 .. VersionMod - 1 /\ front = known[u]
  BY DEF Inv, TypeOK, Headers, UpdateFront
<1>2a. 0 \in 0 .. VersionMod - 1
  BY <1>0
<1>3. (known[u].version + 1) % VersionMod \in 0 .. VersionMod - 1
  BY <1>2, <1>2a, VersionTells
<1>4. first \in Int
  OBVIOUS
<1>5. front' \in Headers /\ FirstFree(front') = first
  BY <1>1, <1>3, <1>4, RelativeAbsolute DEF Headers, FirstFree
<1>6. \A v \in Users : age[v] \in 0 .. VersionMod - 1
  BY DEF Inv, TypeOK
<1>7. \A v \in Users \ {u} : Active(v) => age[v] < VersionMod - 1
  BY DEF UpdateFront
<1>8. age' = [v \in Users |-> IF v # u /\ Active(v) THEN age[v] + 1 ELSE 0]
  BY DEF UpdateFront
<1>9. age' \in [Users -> 0 .. VersionMod - 1]
  BY <1>0, <1>6, <1>7, <1>8
<1>10. ASSUME NEW v \in Users
       PROVE  /\ FrontOK(v)'
              /\ v # u /\ Active(v) => age'[v] # 0
  <2>1. CASE v = u
    BY <2>1 DEF Inv, TypeOK, Goto, FrontOK, Active
  <2>2. CASE v # u
    <3>1. Active(v)' <=> Active(v)
      BY <2>2 DEF Inv, TypeOK, Goto, Active
    <3>2. SUFFICES ASSUME Active(v) PROVE FrontOK(v)' /\ age'[v] # 0
      BY <2>2, <3>1 DEF FrontOK
    <3>3. age'[v] = age[v] + 1 /\ age'[v] # 0
      BY <2>2, <3>2, <1>6, <1>8
    <3>4. front.version = (known[v].version + age[v]) % VersionMod
      BY <3>2 DEF Inv, CallOK, FrontOK
    <3>5. known[v].version \in 0 .. VersionMod - 1
      BY DEF Inv, TypeOK, Headers
    <3>6. front'.version = (front.version + 1) % VersionMod
      BY <1>1, <1>2
    <3>7. front'.version = (known[v].version + (age[v] + 1)) % VersionMod
      BY <3>4, <3>5, <3>6, <1>6, VersionTells
    <3> QED BY <3>3, <3>7 DEF FrontOK
  <2> QED BY <2>1, <2>2
<1> QED BY <1>5, <1>9, <1>10

-----------------------------------------------------------------------------
(* The actions.  Every step is taken with Inv and the types at hand.       *)
LEMMA Types ==
  ASSUME Inv, NEW u \in Users
  PROVE  /\ front \in Headers /\ known[u] \in Headers
         /\ block[u] \in 0 .. NumBlocks - 1 /\ succ[u] \in 0 .. NumBlocks - 1
         /\ age[u] \in 0 .. VersionMod - 1 /\ 0 \in 0 .. VersionMod - 1
         /\ held[u] \subseteq Blocks
         /\ Blocks \subseteq 0 .. NumBlocks - 1 /\ Blocks \subseteq Int
         /\ \A b \in Blocks : next[b] \in Int
BY BlockAllocatorAssumption DEF Inv, TypeOK, Blocks

(* The front of the list is a block or 0, and free if it is a block.       *)
LEMMA FirstIsFree ==
  ASSUME Inv
  PROVE  /\ FirstFree(front) \in 0 .. NumBlocks - 1
         /\ FirstFree(front) \in Blocks => FirstFree(front) \notin AllHeld
<1>1. PICK n \in Nat : \E f : IsList(n, f)
  BY DEF Inv, ListOK
<1>2. PICK f : IsList(n, f)
  BY <1>1
<1>3. f[0] \in 0 .. NumBlocks - 1
  BY <1>2 DEF IsList
<1>4. ASSUME f[0] \in Blocks PROVE f[0] \notin AllHeld
  <2>1. n # 0
    BY <1>2, <1>4 DEF IsList, Blocks
  <2>2. 0 \in 0 .. n - 1
    BY <2>1
  <2> QED BY <1>2, <1>4, <2>2 DEF IsList
<1> QED BY <1>2, <1>3, <1>4 DEF IsList

(* A read of the front, which is where every call begins and begins again. *)
LEMMA ReadFrontOK ==
  ASSUME Inv, NEW u \in Users, ReadFront(u), front' = front, NEW p, Goto(u, p)
  PROVE  /\ known' \in [Users -> Headers]
         /\ age' \in [Users -> 0 .. VersionMod - 1]
         /\ known'[u] = front /\ age'[u] = 0
         /\ \A v \in Users : FrontOK(v)'
<1>1. /\ known' \in [Users -> Headers] /\ age' \in [Users -> 0 .. VersionMod - 1]
      /\ known'[u] = front /\ age'[u] = 0
      /\ \A v \in Users \ {u} : known'[v] = known[v] /\ age'[v] = age[v]
  BY Types DEF ReadFront, Inv, TypeOK
<1>2. \A v \in Users \ {u} : FrontOK(v)'
  <2>1. \A v \in Users \ {u} : Active(v)' <=> Active(v)
    BY DEF Goto, Active, Inv, TypeOK
  <2> QED BY <1>1, <2>1 DEF FrontOK, Inv, CallOK
<1>3. front.version = (front.version + 0) % VersionMod
  <2>1. front.version \in 0 .. VersionMod - 1 /\ 0 \in 0 .. VersionMod - 1
    BY Types DEF Headers
  <2> QED BY <2>1, VersionTells
<1> QED BY <1>1, <1>2, <1>3 DEF FrontOK

LEMMA PopStartStep ==
  ASSUME Inv, NEW u \in Users, PopStart(u)
  PROVE  Inv'
<1>1. TypeOK' /\ \A v \in Users : FrontOK(v)'
  BY ReadFrontOK DEF PopStart, Inv, TypeOK, Goto
<1>2. ListOK' /\ Apart'
  BY ListKept DEF PopStart, Inv, Apart, AllHeld
<1>3. \A v \in Users : PopOK(v)' /\ FreeOK(v)'
  BY DEF PopStart, Inv, TypeOK, Goto, ReadFront, CallOK, PopOK, FreeOK, FirstFree
<1> QED BY <1>1, <1>2, <1>3 DEF Inv, CallOK

LEMMA FreeStartStep ==
  ASSUME Inv, NEW u \in Users, FreeStart(u)
  PROVE  Inv'
<1>1. TypeOK' /\ \A v \in Users : FrontOK(v)'
  BY ReadFrontOK, Types DEF FreeStart, Inv, TypeOK, Goto
<1>2. ListOK' /\ Apart'
  BY ListKept DEF FreeStart, Inv, Apart, AllHeld
<1>3. \A v \in Users : PopOK(v)' /\ FreeOK(v)'
  BY DEF FreeStart, Inv, TypeOK, Goto, ReadFront, CallOK, PopOK, FreeOK, FirstFree
<1> QED BY <1>1, <1>2, <1>3 DEF Inv, CallOK

LEMMA PopReadStep ==
  ASSUME Inv, NEW u \in Users, PopRead(u)
  PROVE  Inv'
<1> DEFINE idx == FirstFree(known[u])
           nextAbs == Absolute(idx, next[idx])
<1>1. ListOK' /\ Apart'
  BY ListKept DEF PopRead, Inv, Apart, AllHeld
<1>2. \A v \in Users \ {u} : CallOK(v)'
  BY DEF PopRead, Inv, TypeOK, Goto, Return, CallOK, FrontOK, Active, PopOK, FreeOK, FirstFree
<1>3. CASE Return(u, "none") /\ UNCHANGED <<block, succ>>
  <2>1. TypeOK' /\ CallOK(u)'
    BY <1>3 DEF PopRead, Inv, TypeOK, Goto, Return, CallOK, FrontOK, Active, PopOK, FreeOK
  <2> QED BY <1>1, <1>2, <2>1 DEF Inv
<1>4. CASE /\ idx \in Blocks /\ nextAbs \in 0 .. NumBlocks - 1
           /\ block' = [block EXCEPT ![u] = idx]
           /\ succ' = [succ EXCEPT ![u] = nextAbs]
           /\ Goto(u, "pop_cas") /\ UNCHANGED result
  <2>1. idx \in 0 .. NumBlocks - 1
    BY <1>4, Types
  <2>2. TypeOK' /\ PopOK(u)' /\ FreeOK(u)'
    <3> HIDE DEF nextAbs
    <3>1. PICK m : m = nextAbs
      OBVIOUS
    <3>2. block'[u] = idx /\ succ'[u] = m /\ pc'[u] = "pop_cas"
      BY <1>4, <3>1 DEF Inv, TypeOK, Goto
    <3>3. TypeOK'
      BY <1>4, <2>1 DEF PopRead, Inv, TypeOK, Goto
    <3>4. m = Absolute(idx, next[idx])
      BY <3>1 DEF nextAbs
    <3> QED BY <1>4, <3>2, <3>3, <3>4 DEF PopRead, PopOK, FreeOK, FirstFree
  <2>3. FrontOK(u)'
    BY <1>4 DEF PopRead, Inv, TypeOK, Goto, CallOK, FrontOK, Active
  <2> QED BY <1>1, <1>2, <2>2, <2>3 DEF Inv, CallOK
<1> QED BY <1>3, <1>4 DEF PopRead

(* A failed exchange: the front is read again.                             *)
LEMMA RetryStep ==
  ASSUME Inv, NEW u \in Users, ReadFront(u), NEW p \in {"pop_read", "free_write"},
         Goto(u, p), UNCHANGED <<front, held, result, next, block, succ>>,
         p = "free_write" => pc[u] = "free_cas"
  PROVE  Inv'
<1>1. TypeOK' /\ \A v \in Users : FrontOK(v)'
  BY ReadFrontOK DEF Inv, TypeOK, Goto
<1>2. ListOK' /\ Apart'
  BY ListKept DEF Inv, Apart, AllHeld
<1>3. \A v \in Users : PopOK(v)' /\ FreeOK(v)'
  BY DEF Inv, TypeOK, Goto, ReadFront, CallOK, PopOK, FreeOK, FirstFree
<1> QED BY <1>1, <1>2, <1>3 DEF Inv, CallOK

(* A user writes into a block that it holds and no other call writes to.   *)
LEMMA MemoryWritten ==
  ASSUME Inv, NEW u \in Users, NEW b \in held[u], NEW g \in Int,
         next' = [next EXCEPT ![b] = g],
         UNCHANGED <<front, held, known, block, succ, age>>,
         \A v \in Users \ {u} : pc'[v] = pc[v]
  PROVE  /\ next' \in [Blocks -> Int]
         /\ ListOK' /\ Apart'
         /\ \A v \in Users \ {u} : CallOK(v)'
<1>1. b \in Blocks /\ b \in AllHeld /\ next \in [Blocks -> Int]
  BY Types DEF AllHeld, Inv, TypeOK
<1>2. \A c \in Blocks : c # b => next'[c] = next[c]
  BY <1>1
<1>3. ListOK'
  BY <1>1, <1>2, ListKept DEF AllHeld
<1>4. ASSUME NEW v \in Users \ {u}
      PROVE  CallOK(v)'
  <2>1. FrontOK(v)'
    BY DEF Inv, CallOK, FrontOK, Active
  <2>2. PopOK(v)'
    <3> SUFFICES ASSUME pc[v] = "pop_cas" PROVE PopOK(v)'
      BY DEF PopOK
    <3>1. /\ block[v] \in Blocks /\ block[v] = FirstFree(known[v])
          /\ age[v] = 0 => succ[v] = Absolute(block[v], next[block[v]])
      BY DEF Inv, CallOK, PopOK
    <3>2. age[v] = 0 => block[v] # b
      BY <1>1, <3>1, FirstIsFree DEF Inv, CallOK, FrontOK, Active
    <3> QED BY <3>1, <3>2, <1>2 DEF PopOK, FirstFree
  <2>3. FreeOK(v)'
    <3>1. FreeOK(v) /\ held[u] \cap held[v] = {} /\ held[v] \subseteq Blocks
      BY Types DEF Inv, CallOK, Apart
    <3>2. block[v] \in held[v] => next'[block[v]] = next[block[v]]
      BY <1>2, <3>1
    <3> QED BY <3>1, <3>2 DEF FreeOK, FirstFree
  <2> QED BY <2>1, <2>2, <2>3 DEF CallOK
<1> QED BY <1>1, <1>3, <1>4 DEF Inv, Apart

LEMMA WriteDataStep ==
  ASSUME Inv, NEW u \in Users, WriteData(u)
  PROVE  Inv'
<1>1. PICK b \in held[u] : \E g \in Garbage : next' = [next EXCEPT ![b] = g]
  BY DEF WriteData
<1>2. PICK g \in Garbage : next' = [next EXCEPT ![b] = g]
  BY <1>1
<1>3. g \in Int
  BY BlockAllocatorAssumption
<1>4. /\ next' \in [Blocks -> Int] /\ ListOK' /\ Apart'
      /\ \A v \in Users \ {u} : CallOK(v)'
  BY <1>2, <1>3, MemoryWritten DEF WriteData
<1>5. TypeOK' /\ CallOK(u)'
  BY <1>4 DEF WriteData, Inv, TypeOK, CallOK, FrontOK, PopOK, FreeOK, Active
<1> QED BY <1>4, <1>5 DEF Inv

LEMMA FreeWriteStep ==
  ASSUME Inv, NEW u \in Users, FreeWrite(u)
  PROVE  Inv'
<1>1. PICK g : g = Relative(block[u], FirstFree(known[u]))
  OBVIOUS
<1>2. g \in Int /\ block[u] \in held[u] /\ block[u] \in Blocks
  BY <1>1, Types DEF Relative, FirstFree, Absolute, Headers, FreeWrite, Inv, CallOK, FreeOK
<1>3. next' = [next EXCEPT ![block[u]] = g]
  BY <1>1 DEF FreeWrite
<1>4. pc'[u] = "free_cas" /\ \A v \in Users \ {u} : pc'[v] = pc[v]
  BY DEF FreeWrite, Goto, Inv, TypeOK
<1>5. /\ next' \in [Blocks -> Int] /\ ListOK' /\ Apart'
      /\ \A v \in Users \ {u} : CallOK(v)'
  <2>1. PICK b \in held[u] : b = block[u]
    BY <1>2
  <2>2. next' = [next EXCEPT ![b] = g]
    BY <1>3, <2>1
  <2>3. UNCHANGED <<front, held, known, block, succ, age>>
    BY DEF FreeWrite
  <2> QED BY <1>2, <1>4, <2>2, <2>3, MemoryWritten
<1>6. TypeOK'
  BY <1>5 DEF FreeWrite, Inv, TypeOK, Goto
<1>7. CallOK(u)'
  <2>1. FrontOK(u)' /\ PopOK(u)'
    BY <1>4 DEF FreeWrite, Inv, CallOK, FrontOK, PopOK, Active
  <2>2. next'[block[u]] = g
    BY <1>2, <1>3 DEF Inv, TypeOK
  <2>3. FreeOK(u)'
    BY <1>1, <1>2, <2>2 DEF FreeWrite, FreeOK, FirstFree
  <2> QED BY <2>1, <2>3 DEF CallOK
<1> QED BY <1>5, <1>6, <1>7 DEF Inv

LEMMA TransferStep ==
  ASSUME Inv, NEW u \in Users, NEW w \in Users, Transfer(u, w)
  PROVE  Inv' /\ AllHeld' = AllHeld
<1>1. PICK b \in held[u] : held' = [held EXCEPT ![u] = @ \ {b}, ![w] = @ \cup {b}]
  BY DEF Transfer
<1>2. /\ held'[u] = held[u] \ {b} /\ held'[w] = held[w] \cup {b}
      /\ \A v \in Users \ {u, w} : held'[v] = held[v]
      /\ held' \in [Users -> SUBSET Blocks] /\ u # w
  BY <1>1, Types DEF Transfer, Inv, TypeOK
<1>3. AllHeld' = AllHeld
  BY <1>2 DEF AllHeld
<1>4. ListOK'
  BY <1>3, ListKept DEF Transfer
<1>5. Apart'
  BY <1>2 DEF Inv, Apart
<1>6. TypeOK'
  BY <1>2 DEF Transfer, Inv, TypeOK
<1>7. ASSUME NEW v \in Users
      PROVE  CallOK(v)'
  <2>1. FrontOK(v)' /\ PopOK(v)'
    BY DEF Transfer, Inv, CallOK, FrontOK, PopOK, Active, FirstFree
  <2>2. v # u => held[v] \subseteq held'[v]
    BY <1>2
  <2>3. FreeOK(v)'
    BY <2>2 DEF Transfer, Inv, CallOK, FreeOK, FirstFree
  <2> QED BY <2>1, <2>3 DEF CallOK
<1> QED BY <1>3, <1>4, <1>5, <1>6, <1>7 DEF Inv

(* The exchange of pop_block takes the first block off the list.           *)
LEMMA PopSucceeds ==
  ASSUME Inv, NEW u \in Users, pc[u] = "pop_cas", UpdateFront(u, succ[u]),
         held' = [held EXCEPT ![u] = @ \cup {block[u]}],
         Return(u, "some"), UNCHANGED <<known, next, block, succ>>
  PROVE  Inv' /\ block[u] \in Blocks \ AllHeld /\ AllHeld' = AllHeld \cup {block[u]}
<1>1. Active(u) /\ front = known[u]
  BY DEF Active, UpdateFront
<1>2. /\ block[u] \in Blocks /\ block[u] = FirstFree(front)
      /\ succ[u] = Absolute(block[u], next[block[u]])
  BY <1>1, NotOvertaken DEF Inv, CallOK, PopOK
<1>3. /\ front' \in Headers /\ FirstFree(front') = succ[u]
      /\ age' \in [Users -> 0 .. VersionMod - 1]
      /\ \A v \in Users : FrontOK(v)'
      /\ \A v \in Users \ {u} : Active(v) => age'[v] # 0
  BY <1>1, Types, ExchangeFront DEF Return
<1>4. /\ held'[u] = held[u] \cup {block[u]}
      /\ \A v \in Users \ {u} : held'[v] = held[v]
  BY DEF Inv, TypeOK
<1>5. block[u] \notin AllHeld /\ AllHeld' = AllHeld \cup {block[u]}
  BY <1>2, <1>4, FirstIsFree DEF AllHeld
<1>6. TypeOK'
  BY <1>2, <1>3, Types DEF Inv, TypeOK, Return, Goto
<1>7. Apart'
  BY <1>4, <1>5 DEF Inv, Apart, AllHeld
<1>8. ASSUME NEW v \in Users
      PROVE  CallOK(v)'
  <2>1. CASE v = u
    <3>1. pc'[u] = "idle"
      BY DEF Return, Goto, Inv, TypeOK
    <3> QED BY <2>1, <3>1, <1>3 DEF CallOK, PopOK, FreeOK
  <2>2. CASE v # u
    <3>1. pc'[v] = pc[v] /\ held'[v] = held[v]
      BY <1>4, <2>2 DEF Return, Goto, Inv, TypeOK
    <3>2. PopOK(v)'
      BY <3>1, <2>2, <1>3 DEF Inv, CallOK, PopOK, Active, FirstFree
    <3>3. FreeOK(v)'
      BY <3>1 DEF Inv, CallOK, FreeOK, FirstFree
    <3> QED BY <3>2, <3>3, <1>3 DEF CallOK
  <2> QED BY <2>1, <2>2
<1>9. ListOK'
  <2>1. PICK n \in Nat : \E f : IsList(n, f)
    BY DEF Inv, ListOK
  <2>2. PICK f : IsList(n, f)
    BY <2>1
  <2>3. n # 0 /\ n - 1 \in Nat
    BY <1>2, <2>2 DEF IsList, Blocks
  <2>4. PICK m \in Nat : n = m + 1
    BY <2>3
  <2> DEFINE h == [k \in 0 .. m |-> f[k + 1]]
  <2>5. h \in [0 .. m -> 0 .. NumBlocks - 1] /\ h[m] = 0
    BY <2>2, <2>4 DEF IsList
  <2>6. \A k \in 0 .. m - 1 : /\ k \in 0 .. n - 1 /\ k + 1 \in 0 .. n - 1
                               /\ h[k] = f[k + 1] /\ h[k + 1] = f[k + 1 + 1]
    BY <2>4
  <2>7. 0 \in 0 .. n - 1 /\ f[0] = block[u] /\ f[1] = succ[u] /\ h[0] = f[1]
    BY <2>2, <2>4, <1>2 DEF IsList
  <2>8. \A k \in 1 .. n - 1 : f[k] # f[0]
    BY <2>2, <2>7 DEF IsList
  <2>9. \A k \in 0 .. n - 1 : k = 0 \/ (k - 1 \in 0 .. m - 1 /\ h[k - 1] = f[k])
    BY <2>4
  <2> HIDE DEF h
  <2>10. \A k \in 0 .. m - 1 : h[k] \in Blocks /\ h[k + 1] = Absolute(h[k], next[h[k]])
    BY <2>2, <2>6 DEF IsList
  <2>11. \A j, k \in 0 .. m - 1 : h[j] = h[k] => j = k
    <3> SUFFICES ASSUME NEW j \in 0 .. m - 1, NEW k \in 0 .. m - 1, h[j] = h[k] PROVE j = k
      OBVIOUS
    <3>1. j + 1 = k + 1
      BY <2>2, <2>6 DEF IsList
    <3> QED BY <3>1
  <2>12. \A b \in Blocks : b \notin AllHeld' <=> \E k \in 0 .. m - 1 : h[k] = b
    <3> SUFFICES ASSUME NEW b \in Blocks
                 PROVE  b \notin AllHeld' <=> \E k \in 0 .. m - 1 : h[k] = b
      OBVIOUS
    <3>1. b \notin AllHeld <=> \E k \in 0 .. n - 1 : f[k] = b
      BY <2>2 DEF IsList
    <3>2. ASSUME b \notin AllHeld' PROVE \E k \in 0 .. m - 1 : h[k] = b
      BY <3>1, <3>2, <1>5, <2>7, <2>9
    <3>3. ASSUME NEW k \in 0 .. m - 1, h[k] = b PROVE b \notin AllHeld'
      <4>1. k + 1 \in 1 .. n - 1 /\ k + 1 \in 0 .. n - 1 /\ f[k + 1] = b
        BY <3>3, <2>6, <2>4
      <4> QED BY <4>1, <3>1, <2>7, <2>8, <1>5
    <3> QED BY <3>2, <3>3
  <2>13. IsList(m, h)'
    BY <2>5, <2>7, <2>10, <2>11, <2>12, <1>3 DEF IsList
  <2> QED BY <2>13 DEF ListOK
<1> QED BY <1>2, <1>5, <1>6, <1>7, <1>8, <1>9 DEF Inv

(* The exchange of free_block puts the block in front of the list.         *)
LEMMA FreeSucceeds ==
  ASSUME Inv, NEW u \in Users, pc[u] = "free_cas", UpdateFront(u, block[u]),
         held' = [held EXCEPT ![u] = @ \ {block[u]}],
         Return(u, "freed"), UNCHANGED <<known, next, block, succ>>
  PROVE  Inv' /\ block[u] \in held[u] /\ AllHeld' = AllHeld \ {block[u]}
<1>1. Active(u) /\ front = known[u]
  BY DEF Active, UpdateFront
<1>2. /\ block[u] \in Blocks /\ block[u] \in held[u]
      /\ next[block[u]] = Relative(block[u], FirstFree(front))
  BY <1>1, Types DEF Inv, CallOK, FreeOK
<1>3. /\ front' \in Headers /\ FirstFree(front') = block[u]
      /\ age' \in [Users -> 0 .. VersionMod - 1]
      /\ \A v \in Users : FrontOK(v)'
      /\ \A v \in Users \ {u} : Active(v) => age'[v] # 0
  BY <1>1, Types, ExchangeFront DEF Return
<1>4. /\ held'[u] = held[u] \ {block[u]}
      /\ \A v \in Users \ {u} : held'[v] = held[v]
  BY DEF Inv, TypeOK
<1>5. AllHeld' = AllHeld \ {block[u]} /\ block[u] \in AllHeld
  BY <1>2, <1>4 DEF Inv, Apart, AllHeld
<1>6. TypeOK'
  BY <1>2, <1>3, Types DEF Inv, TypeOK, Return, Goto
<1>7. Apart'
  BY <1>4 DEF Inv, Apart
<1>8. ASSUME NEW v \in Users
      PROVE  CallOK(v)'
  <2>1. CASE v = u
    <3>1. pc'[u] = "idle"
      BY DEF Return, Goto, Inv, TypeOK
    <3> QED BY <2>1, <3>1, <1>3 DEF CallOK, PopOK, FreeOK
  <2>2. CASE v # u
    <3>1. pc'[v] = pc[v] /\ held'[v] = held[v]
      BY <1>4, <2>2 DEF Return, Goto, Inv, TypeOK
    <3>2. PopOK(v)'
      BY <3>1, <2>2, <1>3 DEF Inv, CallOK, PopOK, Active, FirstFree
    <3>3. FreeOK(v)'
      BY <3>1 DEF Inv, CallOK, FreeOK, FirstFree
    <3> QED BY <3>2, <3>3, <1>3 DEF CallOK
  <2> QED BY <2>1, <2>2
<1>9. ListOK'
  <2>1. PICK n \in Nat : \E f : IsList(n, f)
    BY DEF Inv, ListOK
  <2>2. PICK f : IsList(n, f)
    BY <2>1
  <2>3. PICK b : b = block[u]
    OBVIOUS
  <2>4. b \in Blocks /\ b \in 0 .. NumBlocks - 1 /\ b \in AllHeld
    BY <1>2, <1>5, <2>3, Types
  <2> DEFINE h == [k \in 0 .. n + 1 |-> IF k = 0 THEN b ELSE f[k - 1]]
  <2>5. h \in [0 .. n + 1 -> 0 .. NumBlocks - 1] /\ h[n + 1] = 0 /\ h[0] = b /\ n + 1 \in Nat
    <3>1. \A k \in 0 .. n + 1 : k = 0 \/ k - 1 \in 0 .. n
      OBVIOUS
    <3>2. \A k \in 0 .. n : f[k] \in 0 .. NumBlocks - 1
      BY <2>2 DEF IsList
    <3>3. n + 1 # 0 /\ (n + 1) - 1 = n /\ n + 1 \in 0 .. n + 1 /\ f[n] = 0
      BY <2>2 DEF IsList
    <3> QED BY <3>1, <3>2, <3>3, <2>4
  <2>6. \A k \in 1 .. n : k - 1 \in 0 .. n - 1 /\ k - 1 + 1 = k
                            /\ h[k] = f[k - 1] /\ h[k + 1] = f[k]
    OBVIOUS
  <2>7. h[1] = f[0]
    OBVIOUS
  <2>8. \A k \in 0 .. n - 1 : k + 1 \in 0 .. (n + 1) - 1 /\ h[k + 1] = f[k]
    OBVIOUS
  <2>9. \A k \in 0 .. (n + 1) - 1 : k = 0 \/ k \in 1 .. n
    OBVIOUS
  <2> HIDE DEF h
  <2>10. ASSUME NEW k \in 0 .. (n + 1) - 1
         PROVE  h[k] \in Blocks /\ h[k + 1] = Absolute(h[k], next[h[k]])
    <3>1. CASE k = 0
      <4>1. f[0] \in Int /\ b \in Int /\ f[0] = FirstFree(front)
        BY <2>2, <2>4, Types DEF IsList
      <4>2. next[b] = Relative(b, f[0])
        BY <4>1, <1>2, <2>3
      <4>3. Absolute(b, Relative(b, f[0])) = f[0]
        BY <4>1, RelativeAbsolute
      <4> QED BY <3>1, <4>2, <4>3, <2>4, <2>5, <2>7
    <3>2. CASE k \in 1 .. n
      <4>1. PICK j \in 0 .. n - 1 : j = k - 1 /\ j + 1 = k
        BY <3>2
      <4>2. h[k] = f[j] /\ h[k + 1] = f[j + 1]
        BY <3>2, <4>1, <2>6
      <4> QED BY <4>2, <2>2 DEF IsList
    <3> QED BY <2>9, <3>1, <3>2
  <2>11. \A k \in 1 .. n : h[k] # b
    BY <2>2, <2>4, <2>6 DEF IsList
  <2>12. ASSUME NEW j \in 0 .. (n + 1) - 1, NEW k \in 0 .. (n + 1) - 1, h[j] = h[k]
         PROVE  j = k
    <3>1. CASE j \in 1 .. n /\ k \in 1 .. n
      <4>1. j - 1 = k - 1
        BY <3>1, <2>2, <2>6, <2>12 DEF IsList
      <4> QED BY <4>1
    <3> QED BY <3>1, <2>5, <2>9, <2>11, <2>12
  <2>13. ASSUME NEW c \in Blocks
         PROVE  c \notin AllHeld' <=> \E k \in 0 .. (n + 1) - 1 : h[k] = c
    <3>1. c \notin AllHeld <=> \E k \in 0 .. n - 1 : f[k] = c
      BY <2>2 DEF IsList
    <3>2. c \notin AllHeld' <=> c \notin AllHeld \/ c = b
      BY <1>5, <2>3
    <3>3. ASSUME NEW k \in 0 .. (n + 1) - 1, h[k] = c
          PROVE  c = b \/ \E j \in 0 .. n - 1 : f[j] = c
      BY <3>3, <2>5, <2>6, <2>9
    <3>4. 0 \in 0 .. (n + 1) - 1
      OBVIOUS
    <3> QED BY <3>1, <3>2, <3>3, <3>4, <2>5, <2>8
  <2>14. IsList(n + 1, h)'
    BY <2>3, <2>5, <2>10, <2>12, <2>13, <1>3 DEF IsList
  <2> QED BY <2>5, <2>14 DEF ListOK
<1> QED BY <1>2, <1>5, <1>6, <1>7, <1>8, <1>9 DEF Inv

LEMMA PopCasStep ==
  ASSUME Inv, NEW u \in Users, PopCas(u)
  PROVE  Inv'
BY PopSucceeds, RetryStep DEF PopCas

LEMMA FreeCasStep ==
  ASSUME Inv, NEW u \in Users, FreeCas(u)
  PROVE  Inv'
BY FreeSucceeds, RetryStep DEF FreeCas

LEMMA NextInv ==
  ASSUME Inv, [Next]_vars
  PROVE  Inv'
<1>1. CASE UNCHANGED vars
  <2>1. ListOK'
    BY <1>1, ListKept DEF vars, AllHeld
  <2>2. TypeOK' /\ Apart' /\ \A u \in Users : CallOK(u)'
    BY <1>1 DEF vars, Inv, TypeOK, Apart, CallOK, FrontOK, PopOK, FreeOK, Active, FirstFree
  <2> QED BY <2>1, <2>2 DEF Inv
<1>2. CASE Next
  BY <1>2, PopStartStep, FreeStartStep, PopReadStep, PopCasStep, FreeWriteStep,
     FreeCasStep, WriteDataStep, TransferStep DEF Next, Call
<1> QED BY <1>1, <1>2

(* The invariant: the list runs through the blocks nobody holds, and what  *)
(* a call of pop_block or free_block (link_memory.rs) knows of it is true  *)
(* unless the exchange of the call will fail.                              *)
THEOREM InvAlways == Spec => []Inv
<1>1. Init => Inv
  BY InitInv
<1>2. Inv /\ [Next]_vars => Inv'
  BY NextInv
<1> QED BY <1>1, <1>2, PTL DEF Spec

-----------------------------------------------------------------------------
(* From the list of the invariant to the list that a walk along the `next` *)
(* fields finds.                                                           *)
LEMMA LeastNumber ==
  ASSUME NEW T \in SUBSET Nat, T # {}
  PROVE  \E m \in T : \A k \in T : m <= k
<1> DEFINE R == OpToRel(<, Nat)
<1>1. IsWellFoundedOn(R, Nat)
  BY NatLessThanWellFounded
<1>2. \A x, y \in Nat : <<x, y>> \in R <=> x < y
  BY DEF OpToRel
<1> HIDE DEF R
<1>3. PICK m \in T : \A y \in T : <<y, m>> \notin R
  BY <1>1, WFMin
<1>4. ASSUME NEW k \in T PROVE m <= k
  <2>1. k \in Nat /\ m \in Nat /\ <<k, m>> \notin R
    BY <1>3
  <2>2. ~(k < m)
    BY <1>2, <2>1
  <2> QED BY <2>1, <2>2
<1> QED BY <1>4

(* The equation that defines Walk.                                         *)
Walks(w) ==
  w = [k \in 0 .. NumBlocks |->
         IF k = 0 THEN FirstFree(front)
         ELSE IF w[k - 1] \in Blocks
              THEN Absolute(w[k - 1], next[w[k - 1]]) ELSE 0]

(* A list without repetition is no longer than there are blocks.           *)
LEMMA ListFits ==
  ASSUME NEW n \in Nat, NEW f, IsList(n, f)
  PROVE  n <= NumBlocks - 1
<1>1. NumBlocks \in Nat \ {0}
  BY BlockAllocatorAssumption
<1> SUFFICES ASSUME n > NumBlocks - 1 PROVE FALSE
  BY <1>1
<1>2. /\ IsFiniteSet(0 .. n - 1) /\ Cardinality(0 .. n - 1) = n
      /\ IsFiniteSet(Blocks) /\ Cardinality(Blocks) = NumBlocks - 1
  <2>1. /\ IsFiniteSet(0 .. n - 1) /\ Cardinality(0 .. n - 1) = n
    BY <1>1, FS_Interval
  <2>2. /\ IsFiniteSet(Blocks) /\ Cardinality(Blocks) = NumBlocks - 1
    BY <1>1, FS_Interval DEF Blocks
  <2> QED BY <2>1, <2>2
<1> DEFINE g == [k \in 0 .. n - 1 |-> f[k]]
<1>3. g \in [0 .. n - 1 -> Blocks]
  BY DEF IsList
<1>4. Cardinality(Blocks) < Cardinality(0 .. n - 1)
  BY <1>1, <1>2
<1>5. \A x \in 0 .. n - 1 : g[x] = f[x]
  OBVIOUS
<1> HIDE DEF g
<1>6. \E x, y \in 0 .. n - 1 : x # y /\ g[x] = g[y]
  <2>1. PICK S : S = 0 .. n - 1
    OBVIOUS
  <2>2. /\ IsFiniteSet(S) /\ IsFiniteSet(Blocks)
        /\ Cardinality(Blocks) < Cardinality(S) /\ g \in [S -> Blocks]
    BY <1>2, <1>3, <1>4, <2>1
  <2>3. \E x, y \in S : x # y /\ g[x] = g[y]
    BY <2>2, FS_PigeonHole, Zenon
  <2> QED BY <2>1, <2>3
<1> QED BY <1>5, <1>6 DEF IsList

(* The walk finds the list and ends with it.                               *)
LEMMA WalkIsList ==
  ASSUME NEW n \in Nat, NEW f, IsList(n, f)
  PROVE  \A k \in 0 .. NumBlocks : Walk[k] = IF k <= n THEN f[k] ELSE 0
<1>0. NumBlocks \in Nat \ {0} /\ n <= NumBlocks - 1
  BY BlockAllocatorAssumption, ListFits
<1> DEFINE g == [k \in 0 .. NumBlocks |-> IF k <= n THEN f[k] ELSE 0]
           w == CHOOSE v : Walks(v)
<1>1. Walk = w
  BY DEF Walk, Walks
<1>2. \A k \in 0 .. NumBlocks : g[k] = IF k <= n THEN f[k] ELSE 0
  OBVIOUS
<1>3. ASSUME NEW k \in 0 .. NumBlocks
      PROVE  g[k] = IF k = 0 THEN FirstFree(front)
                    ELSE IF g[k - 1] \in Blocks
                         THEN Absolute(g[k - 1], next[g[k - 1]]) ELSE 0
  <2>1. CASE k = 0
    BY <2>1 DEF IsList
  <2>2. CASE k # 0
    <3>1. PICK j \in 0 .. NumBlocks : j = k - 1 /\ j + 1 = k
      BY <1>0, <2>2
    <3>2. 0 \notin Blocks /\ f[n] = 0
      BY DEF Blocks, IsList
    <3>3. CASE k <= n
      <4>1. j \in 0 .. n - 1 /\ g[j] = f[j] /\ g[k] = f[j + 1]
        BY <3>1, <3>3, <1>2
      <4>2. f[j] \in Blocks /\ f[j + 1] = Absolute(f[j], next[f[j]])
        BY <4>1 DEF IsList
      <4> QED BY <2>2, <3>1, <4>1, <4>2
    <3>4. CASE k > n
      <4>1. g[k] = 0 /\ g[j] = 0
        <5>1. CASE j = n
          BY <5>1, <3>1, <3>2, <3>4, <1>2
        <5>2. CASE j # n
          <6>1. ~(j <= n) /\ ~(k <= n)
            BY <5>2, <3>1, <3>4
          <6> QED BY <6>1, <1>2
        <5> QED BY <5>1, <5>2
      <4> QED BY <2>2, <3>1, <3>2, <4>1
    <3> QED BY <3>3, <3>4
  <2> QED BY <2>1, <2>2
<1>4. g = [k \in 0 .. NumBlocks |-> g[k]]
  OBVIOUS
<1> HIDE DEF g
<1>5. Walks(g)
  BY <1>3, <1>4 DEF Walks
<1>6. Walks(w)
  BY <1>5
<1> HIDE DEF w
<1>7. \A k \in 0 .. NumBlocks :
        /\ w[k] = IF k = 0 THEN FirstFree(front)
                  ELSE IF w[k - 1] \in Blocks
                       THEN Absolute(w[k - 1], next[w[k - 1]]) ELSE 0
  BY <1>6 DEF Walks
<1> DEFINE T == {k \in 0 .. NumBlocks : w[k] # g[k]}
<1>8. T = {}
  <2> SUFFICES ASSUME T # {} PROVE FALSE
    OBVIOUS
  <2>1. T \in SUBSET Nat
    OBVIOUS
  <2>2. PICK m \in T : \A k \in T : m <= k
    BY <2>1, LeastNumber
  <2>3. m # 0
    BY <1>3, <1>7
  <2>4. PICK j \in 0 .. NumBlocks : j = m - 1
    BY <1>0, <2>3
  <2>5. j \notin T
    BY <2>2, <2>4
  <2>6. w[j] = g[j]
    BY <2>5
  <2> QED BY <2>3, <2>4, <2>6, <1>3, <1>7
<1> QED BY <1>1, <1>2, <1>8

LEMMA ListIsFree ==
  ASSUME Inv
  PROVE  /\ FreeBlocks = Blocks \ AllHeld
         /\ Walk[NumBlocks - 1] = 0
<1>0. NumBlocks \in Nat \ {0}
  BY BlockAllocatorAssumption
<1>1. PICK n \in Nat : \E f : IsList(n, f)
  BY DEF Inv, ListOK
<1>2. PICK f : IsList(n, f)
  BY <1>1
<1>3. n <= NumBlocks - 1 /\ f[n] = 0
  BY <1>2, ListFits DEF IsList
<1>4. \A k \in 0 .. NumBlocks : Walk[k] = IF k <= n THEN f[k] ELSE 0
  BY <1>2, WalkIsList
<1>5. NumBlocks - 1 \in 0 .. NumBlocks
  BY <1>0
<1>6. Walk[NumBlocks - 1] = 0
  BY <1>3, <1>4, <1>5, <1>0
<1>7. 0 \notin Blocks
  BY DEF Blocks
<1>8. ASSUME NEW b
      PROVE  b \in FreeBlocks <=> b \in Blocks \ AllHeld
  <2>1. ASSUME b \in FreeBlocks PROVE b \in Blocks \ AllHeld
    <3>1. PICK k \in 0 .. NumBlocks : b = Walk[k] /\ b # 0
      BY <2>1 DEF FreeBlocks
    <3>2. k <= n /\ b = f[k] /\ k # n
      BY <3>1, <1>3, <1>4
    <3>3. k \in 0 .. n - 1
      BY <3>2
    <3> QED BY <3>2, <3>3, <1>2 DEF IsList
  <2>2. ASSUME b \in Blocks \ AllHeld PROVE b \in FreeBlocks
    <3>1. PICK k \in 0 .. n - 1 : f[k] = b
      BY <2>2, <1>2 DEF IsList
    <3>2. k \in 0 .. NumBlocks /\ k <= n
      BY <1>0, <1>3
    <3> QED BY <2>2, <3>1, <3>2, <1>4, <1>7 DEF FreeBlocks
  <2> QED BY <2>1, <2>2
<1> QED BY <1>6, <1>8

(* The free list in shared memory is whole at every moment, for any number *)
(* of threads of both processes, of blocks and of versions, whatever they  *)
(* write into their blocks: it ends, no block is lost, and none is free    *)
(* and held, or held twice (pop_block, free_block of link_memory.rs).      *)
THEOREM ListStaysIntact == Spec => []FreeListIntact
<1>1. Inv => FreeListIntact
  BY ListIsFree DEF Inv, TypeOK, Apart, FreeListIntact, AllHeld
<1> QED BY <1>1, InvAlways, PTL

Unheld == FreeBlocks = Blocks \ AllHeld

(* Each step of a call, a user or the network is a step of the pool.       *)
LEMMA StepRefines ==
  ASSUME Inv, Inv', Unheld, Unheld', [Next]_vars
  PROVE  [Pool!Next]_Pool!vars
<1>1. ASSUME AllHeld' = AllHeld, held' = held
      PROVE  UNCHANGED Pool!vars
  BY <1>1 DEF Unheld, Pool!vars
<1>2. ASSUME NEW u \in Users, PopCas(u)
      PROVE  [Pool!Next]_Pool!vars
  <2>1. CASE held' = held
    BY <2>1, <1>1 DEF AllHeld
  <2>2. CASE held' # held
    <3>1. /\ block[u] \in Blocks \ AllHeld /\ AllHeld' = AllHeld \cup {block[u]}
          /\ held' = [held EXCEPT ![u] = @ \cup {block[u]}]
      BY <1>2, <2>2, PopSucceeds DEF PopCas
    <3>2. Pool!Allocate(u, block[u])
      BY <3>1 DEF Unheld, Pool!Allocate
    <3> QED BY <3>1, <3>2 DEF Pool!Next
  <2> QED BY <2>1, <2>2
<1>3. ASSUME NEW u \in Users, FreeCas(u)
      PROVE  [Pool!Next]_Pool!vars
  <2>1. CASE held' = held
    BY <2>1, <1>1 DEF AllHeld
  <2>2. CASE held' # held
    <3>1. /\ block[u] \in held[u] /\ AllHeld' = AllHeld \ {block[u]}
          /\ held' = [held EXCEPT ![u] = @ \ {block[u]}]
      BY <1>3, <2>2, FreeSucceeds DEF FreeCas
    <3>2. block[u] \in Blocks
      BY <3>1, Types
    <3>3. Pool!Free(u, block[u])
      BY <3>1, <3>2 DEF Unheld, Pool!Free, AllHeld
    <3> QED BY <3>2, <3>3 DEF Pool!Next
  <2> QED BY <2>1, <2>2
<1>4. ASSUME NEW u \in Users, NEW v \in Users, Transfer(u, v)
      PROVE  [Pool!Next]_Pool!vars
  <2>1. PICK b \in held[u] : held' = [held EXCEPT ![u] = @ \ {b}, ![v] = @ \cup {b}]
    BY <1>4 DEF Transfer
  <2>2. b \in Blocks /\ u # v /\ AllHeld' = AllHeld
    BY <1>4, Types, TransferStep DEF Transfer
  <2>3. Pool!Transfer(u, v, b)
    BY <2>1, <2>2 DEF Unheld, Pool!Transfer
  <2> QED BY <2>2, <2>3 DEF Pool!Next
<1>5. CASE held' = held
  BY <1>5, <1>1 DEF AllHeld
<1>6. CASE held' # held
  <2>1. PICK u \in Users : PopCas(u) \/ FreeCas(u) \/ \E v \in Users : Transfer(u, v)
    BY <1>6 DEF Next, vars, Call, PopStart, FreeStart, PopRead, FreeWrite, WriteData
  <2> QED BY <2>1, <1>2, <1>3, <1>4
<1> QED BY <1>5, <1>6

(* The separate memory accesses of pop_block and free_block amount to one  *)
(* atomic allocation or free each, at the exchange that succeeds, for      *)
(* every value of the constants.                                           *)
THEOREM RefinesPool == Spec => ImplementsPool
<1>1. Init => Pool!Init
  <2> SUFFICES ASSUME Init PROVE Pool!Init
    OBVIOUS
  <2>1. FreeBlocks = Blocks \ AllHeld
    BY InitInv, ListIsFree
  <2> QED BY <2>1 DEF Init, AllHeld, Pool!Init
<1>2. Inv => Unheld
  BY ListIsFree DEF Unheld
<1>3. Inv /\ Inv' /\ Unheld /\ Unheld' /\ [Next]_vars => [Pool!Next]_Pool!vars
  BY StepRefines
<1> QED BY <1>1, <1>2, <1>3, InvAlways, PTL DEF Spec, ImplementsPool, Pool!Spec

=============================================================================
