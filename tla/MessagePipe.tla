---------------------------- MODULE MessagePipe ----------------------------
(***************************************************************************)
(* A message pipe of mojo-rs-core (pipe.rs): two endpoints behind one      *)
(* mutex, each with a FIFO queue and a list of watchers.  A critical       *)
(* section of the mutex is one step.  The callbacks an operation must make *)
(* are collected inside it with the signal state of that moment, and made  *)
(* one by one after the mutex is released, so operations of other threads  *)
(* come in between.                                                        *)
(*                                                                         *)
(* What a callback does is up to the watcher: modules Trap and Waiter      *)
(* extend this one and say.                                                *)
(***************************************************************************)
EXTENDS Naturals, Sequences, Signals

CONSTANTS Threads,     \* threads that use the pipe
          MaxMessages, \* bound: messages written from each endpoint
          Watches,     \* bound: identities of the registrations ever made
          Interests    \* signal sets that watchers ask for

ASSUME MessagePipeAssumption ==
  /\ MaxMessages \in Nat
  /\ Interests \subseteq SUBSET AllSignals

Ends == {"A", "B"}
Peer(e) == IF e = "A" THEN "B" ELSE "A"

VARIABLES
  localClosed, peerClosed, \* the flags of each endpoint
  queue,                   \* the messages waiting at each endpoint
  watchers,                \* active registrations, oldest first
  calls,                   \* per thread: callbacks collected, not yet made
  sent                     \* per endpoint: how many messages (history)

pipeVars == <<localClosed, peerClosed, queue, watchers, calls, sent>>

PipeInit ==
  /\ localClosed = [e \in Ends |-> FALSE]
  /\ peerClosed = [e \in Ends |-> FALSE]
  /\ queue = [e \in Ends |-> <<>>]
  /\ watchers = [e \in Ends |-> <<>>]
  /\ calls = [t \in Threads |-> <<>>]
  /\ sent = [e \in Ends |-> 0]

-----------------------------------------------------------------------------
(* signals_of: the state of an endpoint, as far as pipes have one.         *)
StateOf(local, peer, q) ==
  IF local THEN NoSignals
  ELSE [satisfied |->
          (IF peer THEN {"PEER_CLOSED"} ELSE {"WRITABLE"})
            \cup (IF q # <<>> THEN {"READABLE"} ELSE {}),
        satisfiable |->
          {"PEER_CLOSED", "QUOTA_EXCEEDED"}
            \cup (IF peer THEN {} ELSE {"WRITABLE", "PEER_REMOTE"})
            \cup (IF peer /\ q = <<>> THEN {} ELSE {"READABLE"})]

QuerySignals(e) == StateOf(localClosed[e], peerClosed[e], queue[e])

(* The registrations that a watch and a set of signals make.               *)
Registrations == [watch : Watches, signals : Interests]

(* The elements of a sequence that are in S, in their order: SelectSeq for *)
(* a set, written out so that it can be reasoned about.                    *)
Keep(seq, S) ==
  LET kept[i \in 0..Len(seq)] ==
        IF i = 0 THEN <<>>
        ELSE IF seq[i] \in S THEN Append(kept[i - 1], seq[i]) ELSE kept[i - 1]
  IN  kept[Len(seq)]

CallsFor(ws, state, kind) ==
  [i \in DOMAIN ws |-> [watch |-> ws[i].watch, state |-> state, kind |-> kind]]

(* collect_notifications: the watchers of e that `state` concerns.         *)
Notifications(e, state) ==
  CallsFor(Keep(watchers[e], {r \in Registrations : Fires(state, r.signals)}),
           state, "Changed")

Free(t) == calls[t] = <<>>

Collect(t, cs) == calls' = [calls EXCEPT ![t] = @ \o cs]

(* write from e; it fails on a closed endpoint or a closed peer.           *)
Write(t, e) ==
  LET p == Peer(e)
      q == Append(queue[p], sent[e] + 1) IN
  /\ Free(t) /\ sent[e] < MaxMessages
  /\ ~localClosed[e] /\ ~peerClosed[e]
  /\ queue' = [queue EXCEPT ![p] = q]
  /\ sent' = [sent EXCEPT ![e] = @ + 1]
  /\ Collect(t, Notifications(p, StateOf(localClosed[p], peerClosed[p], q)))
  /\ UNCHANGED <<localClosed, peerClosed, watchers>>

(* read at e of a message that fits (one that does not is put back in      *)
(* front within the same critical section): the state of e itself changes. *)
Read(t, e) ==
  /\ Free(t) /\ ~localClosed[e] /\ queue[e] # <<>>
  /\ queue' = [queue EXCEPT ![e] = Tail(@)]
  /\ Collect(t, Notifications(e, StateOf(FALSE, peerClosed[e], Tail(queue[e]))))
  /\ UNCHANGED <<localClosed, peerClosed, watchers, sent>>

(* Mutant: the endpoint's own watchers vanish without a word.              *)
CloseCancelsNobody(t, e) ==
  LET p == Peer(e) IN
  /\ Free(t) /\ ~localClosed[e]
  /\ localClosed' = [localClosed EXCEPT ![e] = TRUE]
  /\ peerClosed' = [peerClosed EXCEPT ![p] = TRUE]
  /\ watchers' = [watchers EXCEPT ![e] = <<>>]
  /\ Collect(t, Notifications(p, StateOf(localClosed[p], TRUE, queue[p])))
  /\ UNCHANGED <<queue, sent>>

(* close of e: its watchers are cancelled, then the peer's are notified.   *)
Close(t, e) ==
  LET p == Peer(e) IN
  /\ Free(t) /\ ~localClosed[e]
  /\ localClosed' = [localClosed EXCEPT ![e] = TRUE]
  /\ peerClosed' = [peerClosed EXCEPT ![p] = TRUE]
  /\ watchers' = [watchers EXCEPT ![e] = <<>>]
  /\ Collect(t, CallsFor(watchers[e], NoSignals, "Cancelled")
                  \o Notifications(p, StateOf(localClosed[p], TRUE, queue[p])))
  /\ UNCHANGED <<queue, sent>>

(* register_watch: a closed endpoint takes no watcher and says nothing.    *)
Register(e, w, signals) ==
  /\ watchers' = IF localClosed[e] THEN watchers
                 ELSE [watchers EXCEPT ![e] =
                         Append(@, [watch |-> w, signals |-> signals])]
  /\ UNCHANGED <<localClosed, peerClosed, queue, calls, sent>>

(* cancel_registered_watch: a cancelled registration is never looked at    *)
(* again; callbacks that were already collected are not called back.       *)
Unregister(w) ==
  /\ watchers' = [e \in Ends |->
                    Keep(watchers[e], {r \in Registrations : r.watch # w})]
  /\ UNCHANGED <<localClosed, peerClosed, queue, calls, sent>>

(* The next callback of t is made.                                         *)
TakeCall(t) ==
  /\ calls[t] # <<>>
  /\ calls' = [calls EXCEPT ![t] = Tail(@)]
  /\ UNCHANGED <<localClosed, peerClosed, queue, watchers, sent>>

(* What a thread may do to the pipe between two callbacks.                 *)
PipeUse(t) == \E e \in Ends : Write(t, e) \/ Read(t, e) \/ Close(t, e)
=============================================================================
