-------------------------- MODULE RouterLinkState --------------------------
(***************************************************************************)
(* The status word of a RouterLinkState: 64 bytes of shared memory through *)
(* which the two routers at the ends of a central link, in two processes,  *)
(* agree on who may lock the link (to propagate a closure or to bypass a   *)
(* proxy) and wake each other when a lock attempt had to wait.             *)
(*                                                                         *)
(* link_memory.rs implements every operation on the word as a              *)
(* compare_exchange_weak loop: here each iteration of a loop is one step,  *)
(* a weak exchange may fail spuriously, and steps of the two sides         *)
(* interleave freely.  What a side does with the word is the order of      *)
(* calls in router_flush (routing.rs): mark stable, lock for closure, lock *)
(* for a bridge bypass, and the tail that wakes the other side; a router   *)
(* that is sent to another node locks the link outside of a flush.         *)
(***************************************************************************)
EXTENDS Naturals, Sequences, FiniteSets

CONSTANT Bridges  \* the sides whose router has a bridge edge

Sides == {"A", "B"}

ASSUME RouterLinkStateAssumption == Bridges \subseteq Sides

VARIABLES
  status,    \* the shared word: the stable, waiting and locked bits
  source,    \* allowed_bypass_request_source, written by the lock's owner
  pc,        \* where each side is in router_flush
  expected,  \* the loop variable `expected` of the side's current operation
  mode,      \* the loop variable `desired_bit` of try_lock_link_state
  proxy,     \* the side's portal was sent to another node
  decaying,  \* the side still has decaying links
  closing,   \* the side's outbound sequence is complete and consumed
  force,     \* the `force` argument of the side's current flush
  dropped,   \* `dropped_last_decaying_link` of the current flush
  gone,      \* the side has released this link
  chan,      \* link messages on their way to each side
  outcome    \* how the side's last lock attempt ended (history)

vars == <<status, source, pc, expected, mode, proxy, decaying, closing, force,
          dropped, gone, chan, outcome>>

Other(s) == IF s = "A" THEN "B" ELSE "A"

Words == [stable: SUBSET Sides, waiting: SUBSET Sides, locked: SUBSET Sides]
Word(st, w, l) == [stable |-> st, waiting |-> w, locked |-> l]
UNSTABLE == Word({}, {}, {})
STABLE   == Word(Sides, {}, {})

Points == {"idle", "mark", "closure", "bypass", "proxying", "source", "unlock", "tail"}
Messages == {"FlushRouter", "RouteClosed", "Bypass"}
Outcomes == {"none", "locked", "waiting", "refused", "unstable", "unlocked"}

(* The word has only bits of the two sides, and no loop variable, message  *)
(* or result leaves its range.                                             *)
TypeOK ==
  /\ status \in Words
  /\ source \in Sides \cup {"invalid"}
  /\ pc \in [Sides -> Points]
  /\ expected \in [Sides -> Words]
  /\ mode \in [Sides -> {"lock", "wait"}]
  /\ proxy \in [Sides -> BOOLEAN]
  /\ decaying \in [Sides -> BOOLEAN]
  /\ closing \in [Sides -> BOOLEAN]
  /\ force \in [Sides -> BOOLEAN]
  /\ dropped \in [Sides -> BOOLEAN]
  /\ gone \in [Sides -> BOOLEAN]
  /\ chan \in [Sides -> Seq(Messages)]
  /\ outcome \in [Sides -> Outcomes]

(***************************************************************************)
(* A link starts with the stable bit of every side that has no decaying    *)
(* link: a fresh fragment is all zeros and set_outward_link marks the side *)
(* that is already stable before the link is used.                         *)
(***************************************************************************)
Init ==
  /\ decaying \in [Sides -> BOOLEAN]
  /\ status = Word({s \in Sides : ~decaying[s]}, {}, {})
  /\ source = "invalid"
  /\ pc = [s \in Sides |-> "idle"]
  /\ expected = [s \in Sides |-> UNSTABLE]
  /\ mode = [s \in Sides |-> "lock"]
  /\ proxy = [s \in Sides |-> FALSE]
  /\ closing = [s \in Sides |-> FALSE]
  /\ force = [s \in Sides |-> FALSE]
  /\ dropped = [s \in Sides |-> FALSE]
  /\ gone = [s \in Sides |-> FALSE]
  /\ chan = [s \in Sides |-> <<>>]
  /\ outcome = [s \in Sides |-> "none"]

-----------------------------------------------------------------------------
(* The order of router_flush: the next point at which side s touches the   *)
(* word, and the value `expected` has when the loop at that point begins.  *)

FirstExpected(s, p) ==
  CASE p \in {"closure", "bypass"} -> STABLE
    [] p = "unlock" -> Word(Sides, {}, {s})
    [] p = "tail" -> Word(Sides, {Other(s)}, {})
    [] OTHER -> UNSTABLE

(* Mutant: the tail runs only when the flush was forced.                   *)
AfterBridgeForcedOnly(drop, frc) == IF frc THEN "tail" ELSE "idle"

AfterBridge(drop, frc) == IF drop \/ frc THEN "tail" ELSE "idle"

AfterClosure(s, dec, drop, frc) ==
  IF s \in Bridges /\ ~dec THEN "bypass" ELSE AfterBridge(drop, frc)

AfterMark(s, cl, dec, drop, frc) ==
  IF cl THEN "closure" ELSE AfterClosure(s, dec, drop, frc)

Goto(s, p) ==
  /\ pc' = [pc EXCEPT ![s] = p]
  /\ expected' = [expected EXCEPT ![s] = FirstExpected(s, p)]
  /\ mode' = [mode EXCEPT ![s] = "lock"]

Send(s, m) == chan' = [chan EXCEPT ![s] = Append(@, m)]

(* router_flush(rid, frc) of the router at side s begins; `done` says      *)
(* whether its last decaying link is dropped by this flush.                *)
Flush(s, cl, frc, done) ==
  /\ done => decaying[s]
  /\ decaying' = [decaying EXCEPT ![s] = @ /\ ~done]
  /\ closing' = [closing EXCEPT ![s] = cl]
  /\ force' = [force EXCEPT ![s] = frc]
  /\ dropped' = [dropped EXCEPT ![s] = done]
  /\ Goto(s, IF done THEN "mark"
             ELSE AfterMark(s, cl, decaying[s], FALSE, frc))

Ready(s) == pc[s] = "idle" /\ ~gone[s]

(* A parcel arrives or is sent: the side flushes for a reason of its own.  *)
SpontaneousFlush(s) ==
  /\ Ready(s)
  /\ Flush(s, closing[s], FALSE, FALSE)
  /\ UNCHANGED <<status, source, proxy, gone, chan, outcome>>

(* The last decaying link of the side has carried its last parcel.         *)
FinishDecay(s) ==
  /\ Ready(s) /\ decaying[s]
  /\ Flush(s, closing[s], FALSE, TRUE)
  /\ UNCHANGED <<status, source, proxy, gone, chan, outcome>>

(* close_route: the outbound sequence is complete; flush.                  *)
CloseRoute(s) ==
  /\ Ready(s) /\ ~closing[s]
  /\ Flush(s, TRUE, FALSE, FALSE)
  /\ UNCHANGED <<status, source, proxy, gone, chan, outcome>>

(* serialize_router: the portal of the side travels to another node in a   *)
(* parcel, and the side tries to lock the link for the bypass of itself.   *)
(* When it cannot, begin_proxying follows in the same handler.             *)
SerializeRouter(s) ==
  /\ Ready(s) /\ s \notin Bridges /\ ~proxy[s] /\ ~closing[s]
  /\ proxy' = [proxy EXCEPT ![s] = TRUE]
  /\ force' = [force EXCEPT ![s] = FALSE]
  /\ dropped' = [dropped EXCEPT ![s] = FALSE]
  /\ Goto(s, "bypass")
  /\ UNCHANGED <<status, source, decaying, closing, gone, chan, outcome>>

(* OnFlushRouter: the wakeup of a waiting side forces a flush; the side    *)
(* does not count as asleep any more.                                      *)
OnFlushRouter(s) ==
  /\ Ready(s) /\ chan[s] # <<>> /\ Head(chan[s]) = "FlushRouter"
  /\ chan' = [chan EXCEPT ![s] = Tail(@)]
  /\ Flush(s, closing[s], TRUE, FALSE)
  /\ outcome' = [outcome EXCEPT ![s] = IF @ = "waiting" THEN "none" ELSE @]
  /\ UNCHANGED <<status, source, proxy, gone>>

(* RouteClosed or an accepted bypass: the side gives this link up.         *)
OnLinkSuperseded(s) ==
  /\ Ready(s) /\ chan[s] # <<>> /\ Head(chan[s]) \in {"RouteClosed", "Bypass"}
  /\ chan' = [chan EXCEPT ![s] = Tail(@)]
  /\ gone' = [gone EXCEPT ![s] = TRUE]
  /\ UNCHANGED <<status, source, pc, expected, mode, proxy, decaying, closing,
                 force, dropped, outcome>>

-----------------------------------------------------------------------------
(* The compare_exchange_weak loops.                                        *)

Fails(s) == expected' = [expected EXCEPT ![s] = status]

(* set_side_stable: OR in a stable bit; give up when it is already set.    *)
MarkStable(s, side, next) ==
  \/ /\ status = expected[s]
     /\ status' = [status EXCEPT !.stable = @ \cup {side}]
     /\ Goto(s, next)
  \/ /\ side \in status.stable
     /\ UNCHANGED status
     /\ Goto(s, next)
  \/ /\ side \notin status.stable
     /\ Fails(s)
     /\ UNCHANGED <<status, pc, mode>>

SetSideStable(s) ==
  /\ pc[s] = "mark"
  /\ MarkStable(s, s, AfterMark(s, closing[s], decaying[s], dropped[s], force[s]))
  /\ UNCHANGED <<source, proxy, decaying, closing, force, dropped, gone, chan,
                 outcome>>

(* begin_proxying of a router that could not lock its link: with both of   *)
(* its edges stable it marks side A of the link, whichever side it has     *)
(* itself, and wakes nobody. The flush that follows has no tail.           *)
BeginProxying(s) ==
  /\ pc[s] = "proxying"
  /\ MarkStable(s, "A", AfterBridge(dropped[s], force[s]))
  /\ UNCHANGED <<source, proxy, decaying, closing, force, dropped, gone, chan,
                 outcome>>

(* What try_lock_link_state writes when its exchange succeeds.             *)
Desired(s) ==
  IF mode[s] = "lock" THEN [expected[s] EXCEPT !.locked = @ \cup {s}]
                      ELSE [expected[s] EXCEPT !.waiting = @ \cup {s}]

(* Mutant: the lock bit is stored, not exchanged.                          *)
LockStored(s) ==
  /\ mode[s] = "lock"
  /\ status' = Desired(s)
  /\ outcome' = [outcome EXCEPT ![s] = "locked"]

LockAcquired(s) ==
  /\ status = expected[s] /\ mode[s] = "lock"
  /\ status' = Desired(s)
  /\ outcome' = [outcome EXCEPT ![s] = "locked"]

WaitingBitSet(s) ==
  /\ status = expected[s] /\ mode[s] = "wait"
  /\ status' = Desired(s)
  /\ outcome' = [outcome EXCEPT ![s] = "waiting"]

(* The early return: the word is locked, by either side, or this side is   *)
(* not stable.                                                             *)
LockRefused(s) ==
  /\ status.locked # {} \/ s \notin status.stable
  /\ outcome' = [outcome EXCEPT ![s] =
                   CASE s \in status.locked -> @
                     [] status.locked = {Other(s)} -> "refused"
                     [] OTHER -> "unstable"]
  /\ UNCHANGED status

(* A failed exchange, spurious or not, picks the bit to try next.          *)
LockRetry(s) ==
  /\ status.locked = {} /\ s \in status.stable
  /\ Fails(s)
  /\ mode' = [mode EXCEPT ![s] =
                IF Other(s) \notin status.stable THEN "wait" ELSE "lock"]
  /\ UNCHANGED <<status, pc, outcome>>

(* try_lock_link_for_closure and what router_flush does with its answer.   *)
LockForClosure(s) ==
  /\ pc[s] = "closure"
  /\ \/ /\ LockAcquired(s)
        /\ gone' = [gone EXCEPT ![s] = TRUE]
        /\ Send(Other(s), "RouteClosed")
        /\ Goto(s, "idle")
     \/ /\ WaitingBitSet(s) \/ LockRefused(s)
        /\ Goto(s, AfterClosure(s, decaying[s], dropped[s], force[s]))
        /\ UNCHANGED <<gone, chan>>
     \/ /\ LockRetry(s)
        /\ UNCHANGED <<gone, chan>>
  /\ UNCHANGED <<source, proxy, decaying, closing, force, dropped>>

(* Mutant: the bypass goes on although the lock was refused.               *)
BypassWithoutLock(s) ==
  /\ pc[s] = "bypass"
  /\ \/ /\ LockAcquired(s) \/ WaitingBitSet(s) \/ LockRefused(s)
        /\ Goto(s, "source")
     \/ LockRetry(s)
  /\ UNCHANGED <<source, proxy, decaying, closing, force, dropped, gone, chan>>

(* How the handler goes on without the lock: the rest of a bridge's flush, *)
(* or begin_proxying.                                                      *)
AfterRefusal(s) ==
  IF s \in Bridges \/ decaying[s] THEN AfterBridge(dropped[s], force[s])
  ELSE "proxying"

(* try_lock_link_for_bypass, from maybe_start_bridge_bypass or from        *)
(* serialize_router: the lock.                                             *)
LockForBypass(s) ==
  /\ pc[s] = "bypass"
  /\ \/ /\ LockAcquired(s)
        /\ Goto(s, "source")
     \/ /\ WaitingBitSet(s) \/ LockRefused(s)
        /\ Goto(s, AfterRefusal(s))
     \/ LockRetry(s)
  /\ UNCHANGED <<source, proxy, decaying, closing, force, dropped, gone, chan>>

(* write_allowed_bypass_source, after the lock and as a step of its own;   *)
(* then the bypass starts.  A bridge gives it up when its other link could *)
(* not be locked, and unlocks this one again; or defers it, with its links *)
(* still locked, when the pool has no block for a new link state.          *)
WriteAllowedSource(s) ==
  /\ pc[s] = "source"
  /\ source' = s
  /\ \/ /\ gone' = [gone EXCEPT ![s] = TRUE]
        /\ Send(Other(s), "Bypass")
        /\ Goto(s, "idle")
     \/ /\ s \in Bridges
        /\ Goto(s, "unlock")
        /\ UNCHANGED <<gone, chan>>
     \/ /\ s \in Bridges
        /\ Goto(s, AfterBridge(dropped[s], force[s]))
        /\ UNCHANGED <<gone, chan>>
  /\ UNCHANGED <<status, proxy, decaying, closing, force, dropped, outcome>>

(* unlock_link_state: clear the lock bit, whatever else changed meanwhile. *)
Unlock(s) ==
  /\ pc[s] = "unlock"
  /\ LET next == AfterBridge(dropped[s], force[s]) IN
     \/ /\ status = expected[s]
        /\ status' = [status EXCEPT !.locked = @ \ {s}]
        /\ outcome' = [outcome EXCEPT ![s] = "unlocked"]
        /\ Goto(s, next)
     \/ /\ s \in status.locked
        /\ Fails(s)
        /\ UNCHANGED <<status, pc, mode, outcome>>
     \/ /\ s \notin status.locked
        /\ UNCHANGED <<status, outcome>>
        /\ Goto(s, next)
  /\ UNCHANGED <<source, proxy, decaying, closing, force, dropped, gone, chan>>

(* Mutant: the waiting bit is reset and nobody is woken.                   *)
ResetWithoutWakeup(s) ==
  LET o == Other(s) IN
  /\ pc[s] = "tail"
  /\ status' = [status EXCEPT !.waiting = @ \ {o}]
  /\ Goto(s, "idle")
  /\ UNCHANGED <<source, proxy, decaying, closing, force, dropped, gone, chan,
                 outcome>>

(* Mutant: the word with the waiting bit reset is stored, not exchanged.   *)
ResetByStore(s) ==
  LET o == Other(s) IN
  /\ pc[s] = "tail"
  /\ \/ /\ status' = [expected[s] EXCEPT !.waiting = @ \ {o}]
        /\ Send(o, "FlushRouter")
        /\ Goto(s, "idle")
     \/ /\ o \notin status.waiting
        /\ UNCHANGED <<status, chan>>
        /\ Goto(s, "idle")
  /\ UNCHANGED <<source, proxy, decaying, closing, force, dropped, gone, outcome>>

(* flush_other_side_if_waiting: reset_waiting_bit and the wakeup message.  *)
FlushOtherSideIfWaiting(s) ==
  LET o == Other(s)
      nothing == status.stable # Sides \/ o \notin status.waiting
                   \/ status.locked # {} IN
  /\ pc[s] = "tail"
  /\ \/ /\ status = expected[s]
        /\ status' = [status EXCEPT !.waiting = @ \ {o}]
        /\ Send(o, "FlushRouter")
        /\ Goto(s, "idle")
     \/ /\ nothing
        /\ UNCHANGED <<status, chan>>
        /\ Goto(s, "idle")
     \/ /\ ~nothing
        /\ Fails(s)
        /\ UNCHANGED <<status, chan, pc, mode>>
  /\ UNCHANGED <<source, proxy, decaying, closing, force, dropped, gone, outcome>>

-----------------------------------------------------------------------------
Loop(s) == \/ SetSideStable(s)
           \/ BeginProxying(s)
           \/ LockForClosure(s)
           \/ LockForBypass(s)
           \/ WriteAllowedSource(s)
           \/ Unlock(s)
           \/ FlushOtherSideIfWaiting(s)

Receive(s) == OnFlushRouter(s) \/ OnLinkSuperseded(s)

Next == \E s \in Sides : \/ SpontaneousFlush(s)
                         \/ FinishDecay(s)
                         \/ CloseRoute(s)
                         \/ SerializeRouter(s)
                         \/ Receive(s)
                         \/ Loop(s)

Spec == Init /\ [][Next]_vars

(***************************************************************************)
(* Fairness.  A node runs its handlers to completion, one at a time, and   *)
(* reads its link messages in order, so neither a loop nor a message is    *)
(* left behind; a weak exchange does not fail spuriously forever, nor      *)
(* always lose against the other side; decays finish because parcels flow. *)
(* Nothing makes a side flush on its own account or close its route.       *)
(***************************************************************************)
LeavesLoop(s) == Loop(s) /\ pc' # pc

Fairness ==
  \A s \in Sides : /\ WF_vars(Loop(s))
                   /\ SF_vars(LeavesLoop(s))
                   /\ SF_vars(Receive(s))
                   /\ SF_vars(FinishDecay(s))

FairSpec == Spec /\ Fairness

-----------------------------------------------------------------------------
(* At most one side owns the link at a time, and the lock bits in shared   *)
(* memory are exactly what the owners believe: a try_lock_link_state that  *)
(* returned true has its bit set until the same side unlocks it.           *)
LockOwnership ==
  /\ status.locked = {s \in Sides : outcome[s] = "locked"}
  /\ status.locked # Sides

(* A lock bit disappears only by unlock_link_state of its owner: no stale  *)
(* `expected` of a stable mark, of a wakeup or of the peer erases it.      *)
LockReleasedByOwner ==
  [][\A s \in Sides :
       s \in status.locked /\ s \notin status'.locked => pc[s] = "unlock"]_vars

(* No wakeup is lost: a side that went to sleep on its waiting bit, and    *)
(* whose link nobody has locked, is owed one. The other side still has a   *)
(* decaying link, or is on its way from the end of its last decay to the   *)
(* tail of that flush, or the wakeup is on its way, or the sleeper is      *)
(* trying again. The word alone does not tell: a proxy may have marked the *)
(* other side stable before its decay has ended.                           *)
NoLostWakeup ==
  \A s \in Sides :
    outcome[s] = "waiting" /\ ~gone[s] =>
      \/ decaying[Other(s)]
      \/ pc[Other(s)] # "idle" /\ dropped[Other(s)]
      \/ \E i \in DOMAIN chan[s] : chan[s][i] = "FlushRouter"
      \/ pc[s] \in {"closure", "bypass"}
      \/ status.locked # {}

(* When a bypass reaches the other side, allowed_bypass_request_source     *)
(* still names the source that the side which locked the link wrote: the   *)
(* authorisation check of the bypass does not refuse a genuine one.        *)
BypassSourceIntact ==
  \A s \in Sides :
    (\E i \in DOMAIN chan[s] : chan[s][i] = "Bypass") => source = Other(s)

(* A route that was closed gives the link up in the end: its side locks    *)
(* the link and propagates the closure, or the other side supersedes it.   *)
(* router_flush relies for this on the waiting bit and its wakeup alone.   *)
(* The promise ends where a bridge does not go through with a bypass: if   *)
(* it unlocks again, nobody is woken (a refused attempt leaves no waiting  *)
(* bit), and if it defers the bypass, the link stays locked for good.      *)
Deferred(s) == s \in status.locked /\ ~gone[s] /\ pc[s] = "idle"

ClosureCompletes ==
  \A s \in Sides :
    closing[s] ~> \/ gone[s]
                  \/ \E t \in Sides : outcome[t] = "unlocked" \/ Deferred(t)
=============================================================================
