-------------------------- MODULE MCBlockAllocator --------------------------
(* Two users, three blocks of which one is the front, and user data that   *)
(* reads as a plausible list header or as nonsense.                        *)
EXTENDS BlockAllocator

CONSTANTS u1, u2

TwoUsers == {u1, u2}
SomeGarbage == {-2, 9}
=============================================================================
