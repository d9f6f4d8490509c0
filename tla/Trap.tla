-------------------------------- MODULE Trap --------------------------------
(***************************************************************************)
(* A trap of mojo-rs-core (trap.rs) over the two endpoints of a message    *)
(* pipe.  The trap has a mutex of its own.  Every critical section of it   *)
(* is one step, except arm's: arm queries the triggers' endpoints one by   *)
(* one with the trap locked, while the pipe goes on changing.  Callbacks   *)
(* of the pipe enter through on_watch, which finds its trigger by context; *)
(* the client's own callback is invoked after the trap is unlocked, as a   *)
(* step of its own.  What that callback calls in turn is what any other    *)
(* thread may call at that point.                                          *)
(***************************************************************************)
EXTENDS MessagePipe

CONSTANT Contexts \* bound: the trigger contexts that clients use

NoThread == "none"
NoContext == "none"

ASSUME TrapAssumption ==
  /\ NoThread \notin Threads
  /\ NoContext \notin Contexts

VARIABLES
  triggers,   \* inner.triggers: removed ones stay until the trap is closed
  armed,      \* inner.armed
  open,       \* clients still have a handle to the trap (external)
  arming,     \* the thread that holds the mutex in arm, if any
  position,   \* arm: triggers evaluated so far
  immediate,  \* arm: events found so far
  adding,     \* per thread: add_trigger between start_watch and push
  cancelling, \* per thread: triggers whose watches remain to be cancelled
  events,     \* per thread: client callbacks to make, in order
  contextOf,  \* the context that each watch's callback has captured
  covered,    \* watches of the triggers the last successful arm saw (history)
  listening,  \* watches that began on an open endpoint (history)
  settled,    \* ... and whose add_trigger had returned before it was closed
  cancels,    \* CANCELLED events delivered, per watch (history)
  late        \* watches with an event delivered after CANCELLED (history)

history == <<covered, listening, settled, cancels, late>>
armVars == <<armed, arming, position, immediate>>
taskVars == <<adding, cancelling, events>>
vars == <<pipeVars, triggers, open, armVars, taskVars, contextOf, history>>

(* An event for the client; `watch` is the trigger it was made for, kept   *)
(* to state properties.                                                    *)
Event(trigger, result) ==
  [context |-> trigger.context, watch |-> trigger.watch, result |-> result]

Triggers == [watch : Watches, end : Ends, signals : Interests,
             context : Contexts, removed : BOOLEAN]

Init ==
  /\ PipeInit
  /\ triggers = <<>>
  /\ armed = FALSE
  /\ open = TRUE
  /\ arming = NoThread
  /\ position = 0
  /\ immediate = <<>>
  /\ adding = [t \in Threads |-> <<>>]
  /\ cancelling = [t \in Threads |-> <<>>]
  /\ events = [t \in Threads |-> <<>>]
  /\ contextOf = [w \in Watches |-> NoContext]
  /\ covered = {}
  /\ listening = {}
  /\ settled = {}
  /\ cancels = [w \in Watches |-> 0]
  /\ late = {}

-----------------------------------------------------------------------------
Live == {i \in DOMAIN triggers : ~triggers[i].removed}

Idle(t) == /\ Free(t) /\ arming # t
           /\ adding[t] = <<>> /\ cancelling[t] = <<>> /\ events[t] = <<>>

(* A client begins a call on the trap: its handle must still be there.     *)
Begin(t) == Idle(t) /\ open

Unlocked == arming = NoThread

(* Clients keep the contexts of triggers apart: a context is free again    *)
(* when the CANCELLED event of its last trigger has been delivered.        *)
UsedContexts == {contextOf[w] : w \in {v \in Watches : cancels[v] = 0}}

(* add_trigger begins: start_watch on the endpoint, with a callback that   *)
(* captures the context.                                                   *)
AddTrigger(t) ==
  /\ Begin(t)
  /\ \E w \in Watches, e \in Ends, s \in Interests, c \in Contexts \ UsedContexts :
       /\ contextOf[w] = NoContext
       /\ Register(e, w, s)
       /\ contextOf' = [contextOf EXCEPT ![w] = c]
       /\ listening' = IF localClosed[e] THEN listening ELSE listening \cup {w}
       /\ adding' = [adding EXCEPT ![t] =
            <<[watch |-> w, end |-> e, signals |-> s, context |-> c,
               removed |-> FALSE]>>]
  /\ UNCHANGED <<triggers, open, armVars, cancelling, events, covered, settled,
                 cancels, late>>

(* add_trigger ends: the trigger joins the list.                           *)
PushTrigger(t) ==
  /\ Unlocked /\ adding[t] # <<>>
  /\ triggers' = triggers \o adding[t]
  /\ adding' = [adding EXCEPT ![t] = <<>>]
  /\ settled' = IF localClosed[adding[t][1].end] THEN settled
                ELSE settled \cup {adding[t][1].watch}
  /\ UNCHANGED <<pipeVars, open, armVars, cancelling, events, contextOf,
                 covered, listening, cancels, late>>

(* remove_trigger, up to its unlock.                                       *)
RemoveTrigger(t) ==
  /\ Begin(t) /\ Unlocked
  /\ \E i \in Live :
       /\ triggers' = [triggers EXCEPT ![i].removed = TRUE]
       /\ cancelling' = [cancelling EXCEPT ![t] = <<triggers[i]>>]
  /\ UNCHANGED <<pipeVars, open, armVars, adding, events, contextOf, history>>

(* close of the trap, up to its unlock; `armed` keeps its value.           *)
CloseTrap(t) ==
  /\ Begin(t) /\ Unlocked
  /\ open' = FALSE
  /\ triggers' = <<>>
  /\ cancelling' = [cancelling EXCEPT ![t] =
                      Keep(triggers, {r \in Triggers : ~r.removed})]
  /\ UNCHANGED <<pipeVars, armVars, adding, events, contextOf, history>>

(* The rest of remove_trigger and close, once per trigger: cancel_watch,   *)
(* then (a step of its own, Deliver) fire_cancelled.                       *)
CancelNext(t) ==
  /\ cancelling[t] # <<>> /\ events[t] = <<>>
  /\ Unregister(Head(cancelling[t]).watch)
  /\ events' = [events EXCEPT ![t] =
                  <<Event(Head(cancelling[t]), "CANCELLED")>>]
  /\ cancelling' = [cancelling EXCEPT ![t] = Tail(@)]
  /\ UNCHANGED <<triggers, open, armVars, adding, contextOf, history>>

(* arm takes the mutex; of an armed trap it returns at once.               *)
ArmBegin(t) ==
  /\ Begin(t) /\ Unlocked /\ ~armed
  /\ arming' = t
  /\ UNCHANGED <<pipeVars, triggers, open, armed, position, immediate, taskVars,
                 contextOf, history>>

ResultOf(state, signals) ==
  IF IsSatisfied(state, signals) THEN "OK" ELSE "FAILED_PRECONDITION"

(* arm evaluates its next trigger against the endpoint's current state; a  *)
(* trigger on no signals can never be armed.                               *)
ImmediateEvents(trigger, state) ==
  IF trigger.removed \/ ~Fires(state, trigger.signals) THEN <<>>
  ELSE <<Event(trigger, IF trigger.signals = {} THEN "FAILED_PRECONDITION"
                        ELSE ResultOf(state, trigger.signals))>>

ArmQuery(t) ==
  /\ arming = t /\ position < Len(triggers)
  /\ LET r == triggers[position + 1] IN
       immediate' = immediate \o ImmediateEvents(r, QuerySignals(r.end))
  /\ position' = position + 1
  /\ UNCHANGED <<pipeVars, triggers, open, armed, arming, taskVars, contextOf, history>>

(* Mutant: the trap is armed although triggers were ready.                 *)
ArmEndAlways(t) ==
  /\ arming = t /\ position = Len(triggers)
  /\ arming' = NoThread
  /\ position' = 0
  /\ immediate' = <<>>
  /\ events' = [events EXCEPT ![t] = immediate]
  /\ armed' = TRUE
  /\ covered' = {triggers[i].watch : i \in Live}
  /\ UNCHANGED <<pipeVars, triggers, open, adding, cancelling, contextOf,
                 listening, settled, cancels, late>>

(* arm ends: it delivers the immediate events, or the trap is armed.       *)
ArmEnd(t) ==
  /\ arming = t /\ position = Len(triggers)
  /\ arming' = NoThread
  /\ position' = 0
  /\ immediate' = <<>>
  /\ events' = [events EXCEPT ![t] = immediate]
  /\ armed' = (immediate = <<>>)
  /\ covered' = IF immediate = <<>> THEN {triggers[i].watch : i \in Live}
                ELSE covered
  /\ UNCHANGED <<pipeVars, triggers, open, adding, cancelling, contextOf, listening,
                 settled, cancels, late>>

-----------------------------------------------------------------------------
(* Mutant: the first live trigger, of whatever context.                    *)
MatchingAny(w) == {i \in Live : \A j \in Live : i <= j}

(* on_watch looks for the first live trigger with the context its watch    *)
(* has captured.                                                           *)
Matching(w) ==
  LET S == {i \in Live : triggers[i].context = contextOf[w]} IN
  {i \in S : \A j \in S : i <= j}

(* on_watch, Cancelled: the trigger goes, armed or not.                    *)
OnCancelled(t, call) ==
  /\ call.kind = "Cancelled"
  /\ \E i \in Matching(call.watch) :
       /\ triggers' = [triggers EXCEPT ![i].removed = TRUE]
       /\ events' = [events EXCEPT ![t] = <<Event(triggers[i], "CANCELLED")>>]
  /\ UNCHANGED armed

(* on_watch, Changed: an armed trap is disarmed and the event delivered.   *)
OnChanged(t, call) ==
  /\ call.kind = "Changed" /\ armed
  /\ \E i \in Matching(call.watch) :
       events' = [events EXCEPT ![t] =
         <<Event(triggers[i], ResultOf(call.state, triggers[i].signals))>>]
  /\ armed' = FALSE
  /\ UNCHANGED triggers

(* on_watch, the early returns.                                            *)
OnNothing(call) ==
  /\ Matching(call.watch) # {} => call.kind = "Changed" /\ ~armed
  /\ UNCHANGED <<triggers, armed, events>>

OnWatch(t) ==
  /\ Unlocked /\ events[t] = <<>>
  /\ TakeCall(t)
  /\ LET call == Head(calls[t]) IN
       OnCancelled(t, call) \/ OnChanged(t, call) \/ OnNothing(call)
  /\ UNCHANGED <<open, arming, position, immediate, adding, cancelling,
                 contextOf, history>>

(* The client's callback is invoked with the next event.                   *)
Deliver(t) ==
  /\ events[t] # <<>>
  /\ events' = [events EXCEPT ![t] = Tail(@)]
  /\ LET e == Head(events[t]) IN
       /\ cancels' = IF e.result = "CANCELLED"
                     THEN [cancels EXCEPT ![e.watch] = @ + 1] ELSE cancels
       /\ late' = IF cancels[e.watch] > 0 THEN late \cup {e.watch} ELSE late
  /\ UNCHANGED <<pipeVars, triggers, open, armVars, adding, cancelling, contextOf,
                 covered, listening, settled>>

UsePipe(t) == /\ Idle(t) /\ PipeUse(t)
              /\ UNCHANGED <<triggers, open, armVars, taskVars, contextOf, history>>

(* What a thread that has begun something does next.                       *)
Continue(t) == \/ PushTrigger(t) \/ CancelNext(t)
               \/ ArmQuery(t) \/ ArmEnd(t)
               \/ OnWatch(t) \/ Deliver(t)

Next == \E t \in Threads :
          \/ UsePipe(t)
          \/ AddTrigger(t) \/ RemoveTrigger(t) \/ CloseTrap(t) \/ ArmBegin(t)
          \/ Continue(t)

Spec == Init /\ [][Next]_vars

-----------------------------------------------------------------------------
PendingCalls == UNION {{calls[t][i] : i \in DOMAIN calls[t]} : t \in Threads}

PendingEvents == UNION {{events[t][i] : i \in DOMAIN events[t]} : t \in Threads}

FiresNow(i) == Fires(QuerySignals(triggers[i].end), triggers[i].signals)

(* No event is lost: while the trap is armed, a trigger that arm saw and   *)
(* whose condition now holds has a callback on its way to on_watch.  The   *)
(* window is arm's: it looks at one endpoint after the other, and sets     *)
(* `armed` only at the end.                                                *)
NoLostEvent ==
  armed => \A i \in Live :
    triggers[i].watch \in covered /\ FiresNow(i) =>
      \E c \in PendingCalls : c.watch = triggers[i].watch

(* A trigger that was in place before its endpoint was closed does not     *)
(* outlive it: it is gone, or its Cancelled callback is on the way.        *)
CloseReachesSettled ==
  \A i \in Live :
    localClosed[triggers[i].end] /\ triggers[i].watch \in settled =>
      \E c \in PendingCalls :
        c.watch = triggers[i].watch /\ c.kind = "Cancelled"

(* Every trigger hears at most one CANCELLED, whatever mix of removal,     *)
(* closed endpoint and closed trap races to give it.                       *)
CancelledAtMostOnce ==
  \A w \in Watches :
    /\ cancels[w] <= 1
    /\ cancels[w] = 1 => ~ \E e \in PendingEvents :
                            e.watch = w /\ e.result = "CANCELLED"

(* The trigger has its context from an earlier one, whose CANCELLED event  *)
(* the client has had.                                                     *)
Reused(trigger) ==
  \E w \in Watches :
    w # trigger.watch /\ contextOf[w] = trigger.context /\ cancels[w] > 0

(* And only when it is due: the client has removed it or its endpoint was  *)
(* closed.  on_watch never takes away the trigger of an open endpoint,     *)
(* except one with the context of an earlier trigger: on_watch knows no    *)
(* more than the context, so a late callback of the earlier trigger's      *)
(* closed endpoint takes the later trigger for its own.                    *)
CancelledOnce ==
  /\ []CancelledAtMostOnce
  /\ [][\A t \in Threads, i \in DOMAIN triggers :
          OnWatch(t) /\ i \in Live /\ triggers'[i].removed =>
            localClosed[triggers[i].end] \/ Reused(triggers[i])]_vars

(* "Cancellation can never produce a use-after-free callback" (trap.rs):   *)
(* a client frees a context when its CANCELLED event arrives, so no event  *)
(* for that trigger comes after it.                                        *)
NothingAfterCancelled == late = {}
=============================================================================
