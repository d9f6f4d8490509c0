------------------------------- MODULE Waiter -------------------------------
(***************************************************************************)
(* Blocking waits on an endpoint of a message pipe (wait.rs).  A waiting   *)
(* thread goes round: query the state; register a watch; query again; take *)
(* the mutex of its Waiter object and park on the condition variable       *)
(* unless `woken` is set; clear `woken`; cancel the watch.  The watch's    *)
(* callback, in the thread that changed the pipe, sets `woken` under the   *)
(* mutex and notifies the condition variable after it.                     *)
(*                                                                         *)
(* A Waiter is Clone, and wait takes &self: Object says which object each  *)
(* waiting thread uses.  One registration per waiting thread exists at a   *)
(* time, so the thread also serves as its identity (Waiting == Watches).   *)
(***************************************************************************)
EXTENDS MessagePipe

CONSTANTS
  Object,   \* the Waiter object of each thread that waits
  EndOf,    \* the endpoint each of them waits on
  SignalsOf, \* and for which signals
  Deadlined \* those that wait with a deadline

(* The threads that wait, apart from the ones that use the pipe.           *)
Waiting == Watches

Objects == {Object[w] : w \in Waiting}
NoObject == "none"

ASSUME WaiterAssumption ==
  /\ EndOf \in [Waiting -> Ends]
  /\ SignalsOf \in [Waiting -> Interests]
  /\ Deadlined \subseteq Waiting
  /\ NoObject \notin Objects

VARIABLES
  pc,       \* per waiting thread: where it is in wait
  woken,    \* per Waiter object: inner.woken
  notified, \* waiting threads the condition variable has released
  expired,  \* deadlines that have passed
  notifying \* per thread: the object it is about to notify, if any

waiterVars == <<pipeVars, pc, woken, notified, expired, notifying>>

WaiterInit ==
  /\ PipeInit
  /\ pc = [w \in Waiting |-> "idle"]
  /\ woken = [o \in Objects |-> FALSE]
  /\ notified = {}
  /\ expired = {}
  /\ notifying = [t \in Threads |-> NoObject]

-----------------------------------------------------------------------------
State(w) == QuerySignals(EndOf[w])

Outcome(w) == IF IsSatisfied(State(w), SignalsOf[w]) THEN "OK"
              ELSE "FAILED_PRECONDITION"

Goto(w, place) == pc' = [pc EXCEPT ![w] = place]

BeginWait(w) ==
  /\ pc[w] = "idle"
  /\ Goto(w, "query")
  /\ UNCHANGED <<pipeVars, woken, notified, expired, notifying>>

(* The fast path, and the deadline.                                        *)
Query(w) ==
  /\ pc[w] = "query"
  /\ Goto(w, IF Fires(State(w), SignalsOf[w]) THEN Outcome(w)
             ELSE IF w \in expired THEN "DEADLINE_EXCEEDED" ELSE "register")
  /\ UNCHANGED <<pipeVars, woken, notified, expired, notifying>>

StartWatch(w) ==
  /\ pc[w] = "register"
  /\ Register(EndOf[w], w, SignalsOf[w])
  /\ Goto(w, "requery")
  /\ UNCHANGED <<woken, notified, expired, notifying>>

(* Mutant: no second look.                                                 *)
RequerySkipped(w) ==
  /\ pc[w] = "requery"
  /\ Goto(w, "lock")
  /\ UNCHANGED <<pipeVars, woken, notified, expired, notifying>>

(* Mutant: the early return forgets the watch.                             *)
RequeryLeaks(w) ==
  /\ pc[w] = "requery"
  /\ Goto(w, IF Fires(State(w), SignalsOf[w]) THEN Outcome(w) ELSE "lock")
  /\ UNCHANGED <<pipeVars, woken, notified, expired, notifying>>

(* The second look closes the window between query and register.  The      *)
(* watch is cancelled on the way out, before the result is returned.       *)
Requery(w) ==
  /\ pc[w] = "requery"
  /\ IF Fires(State(w), SignalsOf[w])
     THEN Unregister(w) /\ Goto(w, Outcome(w))
     ELSE UNCHANGED pipeVars /\ Goto(w, "lock")
  /\ UNCHANGED <<woken, notified, expired, notifying>>

(* The mutex is taken and, with `woken` clear, given up again by parking.  *)
Park(w) ==
  /\ pc[w] = "lock" /\ ~woken[Object[w]]
  /\ IF w \in expired
     THEN Unregister(w) /\ Goto(w, "DEADLINE_EXCEEDED")
     ELSE UNCHANGED pipeVars /\ Goto(w, "parked")
  /\ UNCHANGED <<woken, notified, expired, notifying>>

(* The wakeup was there first: no parking.                                 *)
SkipPark(w) ==
  /\ pc[w] = "lock" /\ woken[Object[w]]
  /\ woken' = [woken EXCEPT ![Object[w]] = FALSE]
  /\ Goto(w, "cancel")
  /\ UNCHANGED <<pipeVars, notified, expired, notifying>>

(* Back from the condition variable, notified or spuriously.               *)
Resume(w) ==
  /\ pc[w] = "parked"
  /\ notified' = notified \ {w}
  /\ woken' = [woken EXCEPT ![Object[w]] = FALSE]
  /\ Goto(w, "cancel")
  /\ UNCHANGED <<pipeVars, expired, notifying>>

(* Mutant: the timeout of the condition variable is not acted upon.        *)
TimeOutIgnored(w) ==
  /\ pc[w] = "parked" /\ w \in expired /\ woken[Object[w]]
  /\ woken' = [woken EXCEPT ![Object[w]] = FALSE]
  /\ Goto(w, "cancel")
  /\ notified' = notified \ {w}
  /\ UNCHANGED <<pipeVars, expired, notifying>>

(* Back because of the deadline; a wakeup that came too counts.            *)
TimeOut(w) ==
  /\ pc[w] = "parked" /\ w \in expired
  /\ IF woken[Object[w]]
     THEN /\ woken' = [woken EXCEPT ![Object[w]] = FALSE]
          /\ Goto(w, "cancel")
          /\ UNCHANGED pipeVars
     ELSE Unregister(w) /\ Goto(w, "DEADLINE_EXCEEDED") /\ UNCHANGED woken
  /\ notified' = notified \ {w}
  /\ UNCHANGED <<expired, notifying>>

(* cancel_watch, and round again.                                          *)
CancelWatch(w) ==
  /\ pc[w] = "cancel"
  /\ Unregister(w)
  /\ Goto(w, "query")
  /\ UNCHANGED <<woken, notified, expired, notifying>>

(* A deadline passes.                                                      *)
Expire(w) ==
  /\ w \in Deadlined \ expired
  /\ expired' = expired \cup {w}
  /\ UNCHANGED <<pipeVars, pc, woken, notified, notifying>>

(* watch_callback, under the mutex: set `woken`.                           *)
SetWoken(t) ==
  /\ notifying[t] = NoObject
  /\ TakeCall(t)
  /\ LET o == Object[Head(calls[t]).watch] IN
       /\ woken' = [woken EXCEPT ![o] = TRUE]
       /\ notifying' = [notifying EXCEPT ![t] = o]
  /\ UNCHANGED <<pc, notified, expired>>

(* watch_callback, after it: notify_all.                                   *)
NotifyAll(t) ==
  /\ notifying[t] # NoObject
  /\ notified' = notified \cup
       {w \in Waiting : Object[w] = notifying[t] /\ pc[w] = "parked"}
  /\ notifying' = [notifying EXCEPT ![t] = NoObject]
  /\ UNCHANGED <<pipeVars, pc, woken, expired>>

ChangePipe(t) == /\ notifying[t] = NoObject /\ PipeUse(t)
                 /\ UNCHANGED <<pc, woken, notified, expired, notifying>>

(* What the waiting thread does by itself: it does not leave the condition *)
(* variable without a notification or a deadline.                          *)
WaitStep(w) == \/ Query(w) \/ StartWatch(w) \/ Requery(w)
               \/ Park(w) \/ SkipPark(w)
               \/ w \in notified /\ Resume(w)
               \/ TimeOut(w) \/ CancelWatch(w)

CallbackStep(t) == SetWoken(t) \/ NotifyAll(t)

WaiterNext == \/ \E w \in Waiting : \/ BeginWait(w) \/ WaitStep(w) \/ Expire(w)
                                    \/ Resume(w)
              \/ \E t \in Threads : ChangePipe(t) \/ CallbackStep(t)

WaiterSpec == WaiterInit /\ [][WaiterNext]_waiterVars

(* Threads inside wait or inside a callback keep running; the mutexes are  *)
(* held within one step each.  Nothing makes the pipe change, a deadline   *)
(* pass or a spurious wakeup happen.                                       *)
FairSpec == /\ WaiterSpec
            /\ \A w \in Waiting : WF_waiterVars(WaitStep(w))
            /\ \A t \in Threads : WF_waiterVars(CallbackStep(t))

-----------------------------------------------------------------------------
Inside(w) == pc[w] \in {"query", "register", "requery", "lock", "parked", "cancel"}

(* Wakeups are not lost: a parked thread whose condition holds, or that    *)
(* waits on a closed endpoint, is released already or has a callback on    *)
(* the way, in front of the mutex or between `woken` and notify_all.       *)
NoLostWakeup ==
  \A w \in Waiting :
    pc[w] = "parked" /\ Fires(State(w), SignalsOf[w]) =>
      \/ w \in notified
      \/ \E t \in Threads : \/ notifying[t] = Object[w]
                            \/ \E i \in DOMAIN calls[t] : calls[t][i].watch = w

(* A watch exists from start_watch to the return: no wait that returned,   *)
(* by any of its exits, leaves an active registration on the endpoint.     *)
NoLeakedWatch ==
  \A w \in Waiting :
    (\E i \in DOMAIN watchers[EndOf[w]] : watchers[EndOf[w]][i].watch = w) =>
      pc[w] \in {"requery", "lock", "parked", "cancel"}

(* A wait whose condition holds for good returns: it cannot be inside and  *)
(* the condition true from some moment on.  So does one whose deadline has *)
(* passed, whatever callbacks are on their way.                            *)
WaitReturns ==
  /\ \A w \in Waiting :
       Inside(w) /\ Fires(State(w), SignalsOf[w])
         ~> ~Inside(w) \/ ~Fires(State(w), SignalsOf[w])
  /\ \A w \in Deadlined : Inside(w) /\ w \in expired ~> ~Inside(w)
=============================================================================
