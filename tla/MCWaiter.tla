------------------------------ MODULE MCWaiter ------------------------------
(* One wait, with a Waiter of its own, for data.                           *)
EXTENDS Waiter

MCOne == {"w1"}
MCOwn == [w \in Waiting |-> w]
MCEndOf == [w \in Waiting |-> "A"]
MCSignalsOf == [w \in Waiting |-> {"READABLE"}]
MCInterests == {{"READABLE"}, {"PEER_CLOSED"}}
=============================================================================
