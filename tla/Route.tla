-------------------------------- MODULE Route --------------------------------
(***************************************************************************)
(* What a route promises to the portals at its two ends, wherever they are *)
(* and however often they move: each end gets what the other end has sent, *)
(* in that order, without a gap and without a repetition, and an end that  *)
(* is closed sends no more. The i-th message of an end is the number i.    *)
(***************************************************************************)
EXTENDS Naturals, Sequences

CONSTANT Ends     \* two of them

VARIABLES sent,       \* how many messages each end has sent
          received,   \* what each end has got
          closed      \* which ends are closed

vars == <<sent, received, closed>>

Other(e) == CHOOSE d \in Ends : d # e

Init ==
  /\ sent = [e \in Ends |-> 0]
  /\ received = [e \in Ends |-> <<>>]
  /\ closed = [e \in Ends |-> FALSE]

\* An end gets some of the messages that are due next, or none.
Deliver(e) ==
  \E n \in Len(received[e]) .. sent[Other(e)] :
    received' = [received EXCEPT ![e] = [i \in 1 .. n |-> i]]

Send(e) ==
  /\ ~closed[e]
  /\ sent' = [sent EXCEPT ![e] = @ + 1]
  /\ UNCHANGED closed

Close(e) ==
  /\ ~closed[e]
  /\ closed' = [closed EXCEPT ![e] = TRUE]
  /\ UNCHANGED sent

\* One node acts at a time, and a call of a portal may also deliver to it.
Next == \E e \in Ends : Deliver(e) /\ (Send(e) \/ Close(e) \/ UNCHANGED <<sent, closed>>)

Spec == Init /\ [][Next]_vars

=============================================================================
