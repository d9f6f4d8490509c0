----------------------------- MODULE BlockPool -----------------------------
(***************************************************************************)
(* What a block allocator of a link's shared memory promises its users:    *)
(* a pool of blocks from which each allocation takes one for itself alone  *)
(* and to which a free returns it, each in a single atomic step.           *)
(***************************************************************************)
CONSTANTS Users, Blocks

VARIABLES free,  \* the blocks nobody has
          held   \* held[u]: the blocks user u may write to

vars == <<free, held>>

Init == free = Blocks /\ held = [u \in Users |-> {}]

Allocate(u, b) ==
  /\ b \in free
  /\ free' = free \ {b}
  /\ held' = [held EXCEPT ![u] = @ \cup {b}]

Free(u, b) ==
  /\ b \in held[u]
  /\ held' = [held EXCEPT ![u] = @ \ {b}]
  /\ free' = free \cup {b}

(* A block may change hands: fragments are passed to the peer in parcels.  *)
Transfer(u, v, b) ==
  /\ b \in held[u] /\ u # v
  /\ held' = [held EXCEPT ![u] = @ \ {b}, ![v] = @ \cup {b}]
  /\ UNCHANGED free

Next == \E u \in Users, b \in Blocks :
          \/ Allocate(u, b)
          \/ Free(u, b)
          \/ \E v \in Users : Transfer(u, v, b)

Spec == Init /\ [][Next]_vars
=============================================================================
