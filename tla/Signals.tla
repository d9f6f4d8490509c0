------------------------------ MODULE Signals ------------------------------
(* Signal sets and signal states of dispatchers (signal.rs): a set of      *)
(* signals is a set of names, a state says which are satisfied now and     *)
(* which could still become satisfied.                                     *)

AllSignals == {"READABLE", "WRITABLE", "PEER_CLOSED", "NEW_DATA_READABLE",
               "PEER_REMOTE", "QUOTA_EXCEEDED"}

NoSignals == [satisfied |-> {}, satisfiable |-> {}]

IsSatisfied(state, trigger) == trigger \subseteq state.satisfied

IsUnsatisfiable(state, trigger) ==
  ~IsSatisfied(state, trigger) /\ ~(trigger \subseteq state.satisfiable)

(* The condition under which a watch for `trigger` is notified.            *)
Fires(state, trigger) ==
  IsSatisfied(state, trigger) \/ IsUnsatisfiable(state, trigger)
=============================================================================
