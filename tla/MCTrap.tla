------------------------------ MODULE MCTrap ------------------------------
(* Triggers for data and for no signals at all: READABLE is satisfied by a *)
(* write, and unsatisfiable after a closure or the last read after one.    *)
EXTENDS Trap, TLC

MCInterests == {{"READABLE"}, {}}
MCReadable == {{"READABLE"}}

MCSymmetry == Permutations(Threads) \cup Permutations(Watches)
                \cup Permutations(Contexts)
=============================================================================
