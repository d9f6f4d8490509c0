----------------------- MODULE RouterLinkStateProofs -----------------------
(***************************************************************************)
(* Proofs about RouterLinkState, however the loops of the two sides        *)
(* interleave and whatever kind of routers they belong to: type            *)
(* correctness; the lock bits of the shared word are owned by at most one  *)
(* side; a bypass finds the source that its sender wrote; and a side that  *)
(* went to sleep on its waiting bit is woken.                              *)
(***************************************************************************)
EXTENDS RouterLinkState, TLAPS

(* Where each side is tells whether it owns the lock, and a side that is   *)
(* about to write a lock bit expects a word without any.                   *)
Ownership ==
  \A s \in Sides :
    /\ pc[s] \in {"source", "unlock"} => outcome[s] = "locked"
    /\ gone[s] => pc[s] = "idle"
    /\ pc[s] \in {"closure", "bypass"} => expected[s].locked = {}

(* The inductive strengthening of LockOwnership.                           *)
IInv == TypeOK /\ LockOwnership /\ Ownership

Loops == {"idle", "closure", "bypass", "tail"}

(* The points at which router_flush can continue after each of its parts.  *)
LEMMA NextPoints ==
  ASSUME NEW s \in Sides, NEW cl \in BOOLEAN, NEW dec \in BOOLEAN,
         NEW drop \in BOOLEAN, NEW frc \in BOOLEAN
  PROVE  /\ AfterMark(s, cl, dec, drop, frc) \in Loops
         /\ AfterClosure(s, dec, drop, frc) \in Loops \ {"closure"}
         /\ AfterBridge(drop, frc) \in {"idle", "tail"}
BY DEF AfterMark, AfterClosure, AfterBridge, Loops

(* Every loop starts from a well-formed word, a lock loop from STABLE.     *)
LEMMA FirstWords ==
  ASSUME NEW s \in Sides, NEW p \in Points
  PROVE  /\ FirstExpected(s, p) \in Words
         /\ p \in {"closure", "bypass"} => FirstExpected(s, p).locked = {}
BY DEF FirstExpected, Words, Word, STABLE, UNSTABLE, Sides, Other, Points

LEMMA OtherSide == \A s \in Sides : Other(s) \in Sides /\ Other(s) # s
BY DEF Sides, Other

(* Entering a point keeps the types of the loop variables.                 *)
LEMMA GotoType ==
  ASSUME TypeOK, NEW s \in Sides, NEW p \in Points, Goto(s, p)
  PROVE  /\ pc' \in [Sides -> Points]
         /\ expected' \in [Sides -> Words]
         /\ mode' \in [Sides -> {"lock", "wait"}]
         /\ pc'[s] = p
         /\ p \in {"closure", "bypass"} => expected'[s].locked = {}
         /\ \A t \in Sides \ {s} : pc'[t] = pc[t] /\ expected'[t] = expected[t]
BY FirstWords DEF Goto, TypeOK

LEMMA InitIInv == Init => IInv
<1> SUFFICES ASSUME Init PROVE IInv
  OBVIOUS
<1>1. TypeOK
  BY DEF Init, TypeOK, Words, Word, UNSTABLE, Points, Outcomes, Messages
<1>2. LockOwnership
  BY DEF Init, LockOwnership, Word, Sides
<1>3. Ownership
  BY DEF Init, Ownership
<1> QED BY <1>1, <1>2, <1>3 DEF IInv

(* The beginning of a flush by an idle side keeps the invariant.           *)
LEMMA FlushIInv ==
  ASSUME IInv, NEW s \in Sides, Ready(s),
         NEW cl \in BOOLEAN, NEW frc \in BOOLEAN, NEW done \in BOOLEAN,
         Flush(s, cl, frc, done), UNCHANGED <<status, source, proxy, gone>>,
         chan' \in [Sides -> Seq(Messages)], outcome' \in [Sides -> Outcomes],
         \A t \in Sides : outcome'[t] = "locked" <=> outcome[t] = "locked"
  PROVE  IInv'
<1> DEFINE p == IF done THEN "mark" ELSE AfterMark(s, cl, decaying[s], FALSE, frc)
<1>1. decaying[s] \in BOOLEAN
  BY DEF IInv, TypeOK
<1>2. p \in Points /\ p \notin {"source", "unlock"}
  <2>1. AfterMark(s, cl, decaying[s], FALSE, frc) \in Loops
    BY <1>1, NextPoints
  <2> QED BY <2>1 DEF Loops, Points
<1>3. Goto(s, p)
  BY DEF Flush
<1> HIDE DEF p
<1>4. /\ pc' \in [Sides -> Points] /\ expected' \in [Sides -> Words]
      /\ mode' \in [Sides -> {"lock", "wait"}] /\ pc'[s] = p
      /\ p \in {"closure", "bypass"} => expected'[s].locked = {}
      /\ \A t \in Sides \ {s} : pc'[t] = pc[t] /\ expected'[t] = expected[t]
  BY <1>2, <1>3, GotoType DEF IInv
<1>5. /\ decaying' \in [Sides -> BOOLEAN] /\ closing' \in [Sides -> BOOLEAN]
      /\ force' \in [Sides -> BOOLEAN] /\ dropped' \in [Sides -> BOOLEAN]
  BY DEF Flush, IInv, TypeOK
<1>6. TypeOK'
  BY <1>4, <1>5 DEF IInv, TypeOK
<1>7. LockOwnership'
  BY DEF IInv, LockOwnership
<1>8. Ownership'
  BY <1>2, <1>4 DEF IInv, Ownership, Ready
<1> QED BY <1>6, <1>7, <1>8 DEF IInv

(* A failed exchange only refreshes `expected` with a well-formed word.    *)
LEMMA FailsType ==
  ASSUME TypeOK, NEW s \in Sides, Fails(s)
  PROVE  /\ expected' \in [Sides -> Words]
         /\ expected'[s] = status
         /\ \A t \in Sides \ {s} : expected'[t] = expected[t]
BY DEF Fails, TypeOK

(* A mark of either loop, of the side itself or of side A.                 *)
LEMMA MarkStableIInv ==
  ASSUME IInv, NEW s \in Sides, NEW side \in Sides, NEW p \in Loops,
         pc[s] \in {"mark", "proxying"}, MarkStable(s, side, p),
         UNCHANGED <<source, proxy, decaying, closing, force, dropped, gone, chan,
                     outcome>>
  PROVE  IInv'
<1>2. CASE /\ status = expected[s]
           /\ status' = [status EXCEPT !.stable = @ \cup {side}]
           /\ Goto(s, p)
  <2>1. status' \in Words /\ status'.locked = status.locked
    BY <1>2 DEF IInv, TypeOK, Words
  <2>2. TypeOK'
    BY <1>2, <2>1, GotoType DEF IInv, TypeOK, Loops, Points
  <2>3. LockOwnership'
    BY <2>1 DEF IInv, LockOwnership
  <2>4. Ownership'
    BY <1>2, GotoType DEF IInv, Ownership, Loops, Points
  <2> QED BY <2>2, <2>3, <2>4 DEF IInv
<1>3. CASE UNCHANGED status /\ Goto(s, p)
  <2>2. TypeOK'
    BY <1>3, GotoType DEF IInv, TypeOK, Loops, Points
  <2>3. LockOwnership'
    BY <1>3 DEF IInv, LockOwnership
  <2>4. Ownership'
    BY <1>3, GotoType DEF IInv, Ownership, Loops, Points
  <2> QED BY <2>2, <2>3, <2>4 DEF IInv
<1>4. CASE Fails(s) /\ UNCHANGED <<status, pc, mode>>
  <2>2. TypeOK'
    BY <1>4, FailsType DEF IInv, TypeOK
  <2>3. LockOwnership'
    BY <1>4 DEF IInv, LockOwnership
  <2>4. Ownership'
    BY <1>4, FailsType DEF IInv, Ownership
  <2> QED BY <2>2, <2>3, <2>4 DEF IInv
<1> QED BY <1>2, <1>3, <1>4 DEF MarkStable

LEMMA SetSideStableIInv ==
  ASSUME IInv, NEW s \in Sides, SetSideStable(s)
  PROVE  IInv'
<1> DEFINE p == AfterMark(s, closing[s], decaying[s], dropped[s], force[s])
<1>1. p \in Loops
  BY NextPoints DEF IInv, TypeOK
<1>2. /\ pc[s] = "mark" /\ MarkStable(s, s, p)
      /\ UNCHANGED <<source, proxy, decaying, closing, force, dropped, gone, chan,
                     outcome>>
  BY DEF SetSideStable
<1> HIDE DEF p
<1> QED BY <1>1, <1>2, MarkStableIInv

LEMMA BeginProxyingIInv ==
  ASSUME IInv, NEW s \in Sides, BeginProxying(s)
  PROVE  IInv'
<1> DEFINE p == AfterBridge(dropped[s], force[s])
<1>1. p \in Loops
  BY DEF AfterBridge, Loops
<1>2. /\ pc[s] = "proxying" /\ MarkStable(s, "A", p) /\ "A" \in Sides
      /\ UNCHANGED <<source, proxy, decaying, closing, force, dropped, gone, chan,
                     outcome>>
  BY DEF BeginProxying, Sides
<1> HIDE DEF p
<1> QED BY <1>1, <1>2, MarkStableIInv

(* The outcomes of an iteration of try_lock_link_state.                    *)
LEMMA LockAcquiredIsExclusive ==
  ASSUME IInv, NEW s \in Sides, pc[s] \in {"closure", "bypass"}, LockAcquired(s)
  PROVE  /\ status' \in Words
         /\ status.locked = {} /\ status'.locked = {s}
         /\ outcome' \in [Sides -> Outcomes]
         /\ outcome'[s] = "locked"
         /\ \A t \in Sides \ {s} : outcome'[t] = outcome[t]
         /\ LockOwnership'
<1>1. status.locked = {}
  BY DEF IInv, Ownership, LockAcquired
<1>2. status' \in Words /\ status'.locked = {s}
  BY <1>1 DEF IInv, TypeOK, Words, LockAcquired, Desired
<1>3. /\ outcome' \in [Sides -> Outcomes]
      /\ outcome'[s] = "locked"
      /\ \A t \in Sides \ {s} : outcome'[t] = outcome[t]
  BY DEF IInv, TypeOK, LockAcquired, Outcomes
<1>4. \A t \in Sides : outcome[t] # "locked"
  BY <1>1 DEF IInv, LockOwnership
<1>5. LockOwnership'
  BY <1>2, <1>3, <1>4, OtherSide DEF LockOwnership
<1> QED BY <1>1, <1>2, <1>3, <1>5

LEMMA LockNotAcquired ==
  ASSUME IInv, NEW s \in Sides, pc[s] \in {"closure", "bypass"},
         WaitingBitSet(s) \/ LockRefused(s)
  PROVE  /\ status' \in Words
         /\ outcome' \in [Sides -> Outcomes]
         /\ \A t \in Sides : outcome'[t] = "locked" <=> outcome[t] = "locked"
         /\ LockOwnership'
<1>1. status' \in Words /\ status'.locked = status.locked
  <2>1. CASE LockRefused(s)
    BY <2>1 DEF IInv, TypeOK, LockRefused
  <2>2. CASE WaitingBitSet(s)
    <3>1. status' = [status EXCEPT !.waiting = @ \cup {s}]
      BY <2>2 DEF WaitingBitSet, Desired
    <3> QED BY <3>1 DEF IInv, TypeOK, Words
  <2> QED BY <2>1, <2>2
<1>2. /\ outcome' \in [Sides -> Outcomes]
      /\ \A t \in Sides : outcome'[t] = "locked" <=> outcome[t] = "locked"
  <2>1. s \in status.locked <=> outcome[s] = "locked"
    BY DEF IInv, LockOwnership
  <2>2. CASE WaitingBitSet(s)
    <3>1. status.locked = {}
      BY <2>2 DEF WaitingBitSet, IInv, Ownership
    <3> QED BY <2>1, <2>2, <3>1 DEF IInv, TypeOK, WaitingBitSet, Outcomes
  <2>3. CASE LockRefused(s)
    <3> DEFINE o == CASE s \in status.locked -> outcome[s]
                      [] status.locked = {Other(s)} -> "refused"
                      [] OTHER -> "unstable"
    <3>1. outcome' = [outcome EXCEPT ![s] = o]
      BY <2>3 DEF LockRefused
    <3>2. o = outcome[s] \/ (o \in {"refused", "unstable"} /\ s \notin status.locked)
      BY OtherSide
    <3> HIDE DEF o
    <3> QED BY <2>1, <3>1, <3>2 DEF IInv, TypeOK, Outcomes
  <2> QED BY <2>2, <2>3
<1>4. LockOwnership'
  BY <1>1, <1>2 DEF IInv, LockOwnership
<1> QED BY <1>1, <1>2, <1>4

LEMMA LockRetryIInv ==
  ASSUME IInv, NEW s \in Sides, pc[s] \in {"closure", "bypass"}, LockRetry(s),
         UNCHANGED <<source, proxy, decaying, closing, force, dropped, gone, chan>>
  PROVE  IInv'
<1>1. TypeOK'
  BY FailsType DEF IInv, TypeOK, LockRetry
<1>2. LockOwnership'
  BY DEF IInv, LockOwnership, LockRetry
<1>3. Ownership'
  BY FailsType DEF IInv, Ownership, LockRetry
<1> QED BY <1>1, <1>2, <1>3 DEF IInv

(* Sending a link message keeps the channels well typed.                   *)
LEMMA SendType ==
  ASSUME TypeOK, NEW s \in Sides, NEW m \in Messages, Send(s, m)
  PROVE  chan' \in [Sides -> Seq(Messages)]
<1>1. chan[s] \in Seq(Messages)
  BY DEF TypeOK
<1>2. Append(chan[s], m) \in Seq(Messages)
  BY <1>1
<1> QED BY <1>2 DEF TypeOK, Send

LEMMA LockForClosureIInv ==
  ASSUME IInv, NEW s \in Sides, LockForClosure(s)
  PROVE  IInv'
<1> DEFINE p == AfterClosure(s, decaying[s], dropped[s], force[s])
<1>1. p \in Loops
  BY NextPoints DEF IInv, TypeOK
<1> HIDE DEF p
<1>2. pc[s] \in {"closure", "bypass"}
  BY DEF LockForClosure
<1>3. CASE /\ LockAcquired(s) /\ gone' = [gone EXCEPT ![s] = TRUE]
           /\ Send(Other(s), "RouteClosed") /\ Goto(s, "idle")
  <2>1. chan' \in [Sides -> Seq(Messages)]
    BY <1>3, SendType, OtherSide DEF IInv, Messages
  <2>2. TypeOK'
    BY <1>2, <1>3, <2>1, GotoType, LockAcquiredIsExclusive
    DEF IInv, TypeOK, LockForClosure, Points
  <2>3. LockOwnership'
    BY <1>2, <1>3, LockAcquiredIsExclusive
  <2>4. Ownership'
    BY <1>2, <1>3, GotoType, LockAcquiredIsExclusive
    DEF IInv, TypeOK, Ownership, Points
  <2> QED BY <2>2, <2>3, <2>4 DEF IInv
<1>4. CASE /\ WaitingBitSet(s) \/ LockRefused(s)
           /\ Goto(s, p) /\ UNCHANGED <<gone, chan>>
  <2>1. /\ pc'[s] = p
        /\ p \in {"closure", "bypass"} => expected'[s].locked = {}
        /\ \A t \in Sides \ {s} : pc'[t] = pc[t] /\ expected'[t] = expected[t]
        /\ \A t \in Sides : outcome'[t] = "locked" <=> outcome[t] = "locked"
    BY <1>1, <1>2, <1>4, GotoType, LockNotAcquired DEF IInv, Points, Loops
  <2>2. TypeOK'
    BY <1>1, <1>2, <1>4, GotoType, LockNotAcquired
    DEF IInv, TypeOK, LockForClosure, Points, Loops
  <2>3. LockOwnership'
    BY <1>2, <1>4, LockNotAcquired
  <2>4. Ownership'
    BY <1>1, <1>2, <1>4, <2>1 DEF IInv, Ownership, Loops
  <2> QED BY <2>2, <2>3, <2>4 DEF IInv
<1>5. CASE LockRetry(s) /\ UNCHANGED <<gone, chan>>
  BY <1>2, <1>5, LockRetryIInv DEF LockForClosure
<1> QED BY <1>3, <1>4, <1>5 DEF LockForClosure, p

LEMMA LockForBypassIInv ==
  ASSUME IInv, NEW s \in Sides, LockForBypass(s)
  PROVE  IInv'
<1> DEFINE p == AfterRefusal(s)
<1>1. p \in {"idle", "tail", "proxying"}
  BY DEF AfterRefusal, AfterBridge
<1> HIDE DEF p
<1>2. pc[s] \in {"closure", "bypass"}
  BY DEF LockForBypass
<1>3. CASE LockAcquired(s) /\ Goto(s, "source")
  <2>2. TypeOK'
    BY <1>2, <1>3, GotoType, LockAcquiredIsExclusive
    DEF IInv, TypeOK, LockForBypass, Points
  <2>3. LockOwnership'
    BY <1>2, <1>3, LockAcquiredIsExclusive
  <2>1. /\ pc'[s] = "source" /\ outcome'[s] = "locked" /\ gone' = gone
        /\ \A t \in Sides \ {s} : /\ pc'[t] = pc[t] /\ outcome'[t] = outcome[t]
                                 /\ expected'[t] = expected[t]
    BY <1>2, <1>3, GotoType, LockAcquiredIsExclusive
    DEF IInv, Points, LockForBypass
  <2>4. Ownership'
    BY <1>2, <2>1 DEF IInv, Ownership
  <2> QED BY <2>2, <2>3, <2>4 DEF IInv
<1>4. CASE (WaitingBitSet(s) \/ LockRefused(s)) /\ Goto(s, p)
  <2>1. /\ pc'[s] = p
        /\ p \in {"closure", "bypass"} => expected'[s].locked = {}
        /\ \A t \in Sides \ {s} : pc'[t] = pc[t] /\ expected'[t] = expected[t]
        /\ \A t \in Sides : outcome'[t] = "locked" <=> outcome[t] = "locked"
    BY <1>1, <1>2, <1>4, GotoType, LockNotAcquired DEF IInv, Points
  <2>2. TypeOK'
    BY <1>1, <1>2, <1>4, GotoType, LockNotAcquired
    DEF IInv, TypeOK, LockForBypass, Points
  <2>3. LockOwnership'
    BY <1>2, <1>4, LockNotAcquired
  <2>4. Ownership'
    BY <1>1, <1>2, <2>1 DEF IInv, Ownership, LockForBypass
  <2> QED BY <2>2, <2>3, <2>4 DEF IInv
<1>5. CASE LockRetry(s)
  BY <1>2, <1>5, LockRetryIInv DEF LockForBypass
<1> QED BY <1>3, <1>4, <1>5 DEF LockForBypass, p

LEMMA WriteAllowedSourceIInv ==
  ASSUME IInv, NEW s \in Sides, WriteAllowedSource(s)
  PROVE  IInv'
<1> DEFINE p == AfterBridge(dropped[s], force[s])
<1>0. p \in {"idle", "tail"}
  BY DEF AfterBridge
<1> HIDE DEF p
<1>1. source' \in Sides \cup {"invalid"} /\ pc[s] = "source" /\ outcome[s] = "locked"
  BY DEF WriteAllowedSource, IInv, Ownership
<1>2. CASE /\ gone' = [gone EXCEPT ![s] = TRUE]
           /\ Send(Other(s), "Bypass") /\ Goto(s, "idle")
  <2>1. chan' \in [Sides -> Seq(Messages)]
    BY <1>2, SendType, OtherSide DEF IInv, Messages
  <2>2. TypeOK'
    BY <1>1, <1>2, <2>1, GotoType DEF IInv, TypeOK, WriteAllowedSource, Points
  <2>3. LockOwnership'
    BY DEF IInv, LockOwnership, WriteAllowedSource
  <2>4. Ownership'
    BY <1>1, <1>2, GotoType DEF IInv, TypeOK, Ownership, Points, WriteAllowedSource
  <2> QED BY <2>2, <2>3, <2>4 DEF IInv
<1>3. CASE Goto(s, "unlock") /\ UNCHANGED <<gone, chan>>
  <2>2. TypeOK'
    BY <1>1, <1>3, GotoType DEF IInv, TypeOK, WriteAllowedSource, Points
  <2>3. LockOwnership'
    BY DEF IInv, LockOwnership, WriteAllowedSource
  <2>4. Ownership'
    BY <1>1, <1>3, GotoType DEF IInv, TypeOK, Ownership, Points, WriteAllowedSource
  <2> QED BY <2>2, <2>3, <2>4 DEF IInv
<1>4. CASE Goto(s, p) /\ UNCHANGED <<gone, chan>>
  <2>2. TypeOK'
    BY <1>1, <1>4, <1>0, GotoType DEF IInv, TypeOK, WriteAllowedSource, Points
  <2>3. LockOwnership'
    BY DEF IInv, LockOwnership, WriteAllowedSource
  <2>1. /\ pc'[s] \in {"idle", "tail"} /\ gone' = gone /\ outcome' = outcome
        /\ \A t \in Sides \ {s} : pc'[t] = pc[t] /\ expected'[t] = expected[t]
    BY <1>4, <1>0, GotoType DEF IInv, Points, WriteAllowedSource
  <2>4. Ownership'
    BY <1>1, <2>1 DEF IInv, Ownership
  <2> QED BY <2>2, <2>3, <2>4 DEF IInv
<1> QED BY <1>2, <1>3, <1>4 DEF WriteAllowedSource, p

LEMMA UnlockIInv ==
  ASSUME IInv, NEW s \in Sides, Unlock(s)
  PROVE  IInv'
<1> DEFINE p == AfterBridge(dropped[s], force[s])
<1>1. p \in {"idle", "tail"}
  BY DEF AfterBridge
<1> HIDE DEF p
<1>2. pc[s] = "unlock" /\ outcome[s] = "locked" /\ s \in status.locked
  BY DEF Unlock, IInv, Ownership, LockOwnership
<1>3. CASE /\ status' = [status EXCEPT !.locked = @ \ {s}]
           /\ outcome' = [outcome EXCEPT ![s] = "unlocked"] /\ Goto(s, p)
  <2>1. status' \in Words /\ status'.locked = status.locked \ {s}
    BY <1>3 DEF IInv, TypeOK, Words
  <2>2. TypeOK'
    BY <1>1, <1>3, <2>1, GotoType DEF IInv, TypeOK, Unlock, Points, Outcomes
  <2>3. LockOwnership'
    BY <1>2, <1>3, <2>1 DEF IInv, TypeOK, LockOwnership
  <2>4. Ownership'
    BY <1>1, <1>2, <1>3, GotoType DEF IInv, TypeOK, Ownership, Points, Unlock
  <2> QED BY <2>2, <2>3, <2>4 DEF IInv
<1>4. CASE Fails(s) /\ UNCHANGED <<status, pc, mode, outcome>>
  <2>2. TypeOK'
    BY <1>4, FailsType DEF IInv, TypeOK, Unlock
  <2>3. LockOwnership'
    BY <1>4 DEF IInv, LockOwnership
  <2>4. Ownership'
    BY <1>2, <1>4, FailsType DEF IInv, Ownership, Unlock
  <2> QED BY <2>2, <2>3, <2>4 DEF IInv
<1> QED BY <1>2, <1>3, <1>4 DEF Unlock, p

LEMMA FlushOtherSideIfWaitingIInv ==
  ASSUME IInv, NEW s \in Sides, FlushOtherSideIfWaiting(s)
  PROVE  IInv'
<1>1. pc[s] = "tail" /\ outcome' = outcome /\ gone' = gone
  BY DEF FlushOtherSideIfWaiting
<1>2. CASE /\ status' = [status EXCEPT !.waiting = @ \ {Other(s)}]
           /\ Send(Other(s), "FlushRouter") /\ Goto(s, "idle")
  <2>1. status' \in Words /\ status'.locked = status.locked
    BY <1>2 DEF IInv, TypeOK, Words
  <2>2. chan' \in [Sides -> Seq(Messages)]
    BY <1>2, SendType, OtherSide DEF IInv, Messages
  <2>3. TypeOK'
    BY <1>2, <2>1, <2>2, GotoType
    DEF IInv, TypeOK, FlushOtherSideIfWaiting, Points
  <2>4. LockOwnership'
    BY <1>1, <2>1 DEF IInv, LockOwnership
  <2>5. Ownership'
    BY <1>1, <1>2, GotoType DEF IInv, Ownership, Points
  <2> QED BY <2>3, <2>4, <2>5 DEF IInv
<1>3. CASE UNCHANGED <<status, chan>> /\ Goto(s, "idle")
  <2>3. TypeOK'
    BY <1>3, GotoType DEF IInv, TypeOK, FlushOtherSideIfWaiting, Points
  <2>4. LockOwnership'
    BY <1>1, <1>3 DEF IInv, LockOwnership
  <2>5. Ownership'
    BY <1>1, <1>3, GotoType DEF IInv, Ownership, Points
  <2> QED BY <2>3, <2>4, <2>5 DEF IInv
<1>4. CASE Fails(s) /\ UNCHANGED <<status, chan, pc, mode>>
  <2>3. TypeOK'
    BY <1>4, FailsType DEF IInv, TypeOK, FlushOtherSideIfWaiting
  <2>4. LockOwnership'
    BY <1>1, <1>4 DEF IInv, LockOwnership
  <2>5. Ownership'
    BY <1>1, <1>4, FailsType DEF IInv, Ownership
  <2> QED BY <2>3, <2>4, <2>5 DEF IInv
<1> QED BY <1>2, <1>3, <1>4 DEF FlushOtherSideIfWaiting

(* Taking the first message of a channel keeps it well typed.              *)
LEMMA ReceiveType ==
  ASSUME TypeOK, NEW s \in Sides, chan[s] # <<>>,
         chan' = [chan EXCEPT ![s] = Tail(@)]
  PROVE  chan' \in [Sides -> Seq(Messages)]
<1>1. chan[s] \in Seq(Messages)
  BY DEF TypeOK
<1>2. Tail(chan[s]) \in Seq(Messages)
  BY <1>1
<1> QED BY <1>2 DEF TypeOK

LEMMA NextIInv == IInv /\ [Next]_vars => IInv'
<1> SUFFICES ASSUME IInv, [Next]_vars PROVE IInv'
  OBVIOUS
<1>1. CASE UNCHANGED vars
  BY <1>1 DEF IInv, TypeOK, LockOwnership, Ownership, vars
<1>2. ASSUME NEW s \in Sides,
             SpontaneousFlush(s) \/ FinishDecay(s) \/ CloseRoute(s)
      PROVE  IInv'
  <2>1. /\ Ready(s) /\ UNCHANGED <<status, source, proxy, gone, outcome>>
        /\ outcome' \in [Sides -> Outcomes]
        /\ chan' \in [Sides -> Seq(Messages)] /\ closing[s] \in BOOLEAN
        /\ \/ Flush(s, closing[s], FALSE, FALSE)
           \/ Flush(s, closing[s], FALSE, TRUE)
           \/ Flush(s, TRUE, FALSE, FALSE)
    BY <1>2 DEF SpontaneousFlush, FinishDecay, CloseRoute, IInv, TypeOK
  <2> QED BY <2>1, FlushIInv
<1>3. ASSUME NEW s \in Sides, OnFlushRouter(s) PROVE IInv'
  <2>1. /\ Ready(s) /\ UNCHANGED <<status, source, proxy, gone>>
        /\ outcome' \in [Sides -> Outcomes]
        /\ \A t \in Sides : outcome'[t] = "locked" <=> outcome[t] = "locked"
        /\ closing[s] \in BOOLEAN /\ Flush(s, closing[s], TRUE, FALSE)
    BY <1>3 DEF OnFlushRouter, IInv, TypeOK, Outcomes
  <2>2. chan' \in [Sides -> Seq(Messages)]
    BY <1>3, ReceiveType DEF OnFlushRouter, IInv
  <2> QED BY <2>1, <2>2, FlushIInv
<1>4. ASSUME NEW s \in Sides, OnLinkSuperseded(s) PROVE IInv'
  <2>1. chan' \in [Sides -> Seq(Messages)]
    BY <1>4, ReceiveType DEF OnLinkSuperseded, IInv
  <2>2. TypeOK'
    BY <1>4, <2>1 DEF IInv, TypeOK, OnLinkSuperseded
  <2>3. LockOwnership'
    BY <1>4 DEF IInv, LockOwnership, OnLinkSuperseded
  <2>4. Ownership'
    BY <1>4 DEF IInv, TypeOK, Ownership, OnLinkSuperseded, Ready
  <2> QED BY <2>2, <2>3, <2>4 DEF IInv
<1>5. ASSUME NEW s \in Sides, Loop(s) PROVE IInv'
  BY <1>5, SetSideStableIInv, BeginProxyingIInv, LockForClosureIInv,
     LockForBypassIInv, WriteAllowedSourceIInv, UnlockIInv, FlushOtherSideIfWaitingIInv
  DEF Loop
<1>6. ASSUME NEW s \in Sides, SerializeRouter(s) PROVE IInv'
  <2>1. /\ Ready(s) /\ Goto(s, "bypass")
        /\ UNCHANGED <<status, source, decaying, closing, gone, chan, outcome>>
        /\ force' \in [Sides -> BOOLEAN] /\ dropped' \in [Sides -> BOOLEAN]
        /\ proxy' \in [Sides -> BOOLEAN]
    BY <1>6 DEF SerializeRouter, IInv, TypeOK
  <2>2. /\ pc' \in [Sides -> Points] /\ expected' \in [Sides -> Words]
        /\ mode' \in [Sides -> {"lock", "wait"}] /\ pc'[s] = "bypass"
        /\ expected'[s].locked = {}
        /\ \A t \in Sides \ {s} : pc'[t] = pc[t] /\ expected'[t] = expected[t]
    BY <2>1, GotoType DEF IInv, Points
  <2>3. TypeOK'
    BY <2>1, <2>2 DEF IInv, TypeOK
  <2>4. LockOwnership'
    BY <2>1 DEF IInv, LockOwnership
  <2>5. Ownership'
    BY <2>1, <2>2 DEF IInv, Ownership, Ready
  <2> QED BY <2>3, <2>4, <2>5 DEF IInv
<1> QED BY <1>1, <1>2, <1>3, <1>4, <1>5, <1>6 DEF Next, Receive

(* The inductive invariant holds in every reachable state.                 *)
THEOREM LinkInvariant == Spec => []IInv
<1>1. Init => IInv
  BY InitIInv
<1>2. IInv /\ [Next]_vars => IInv'
  BY NextIInv
<1> QED BY <1>1, <1>2, PTL DEF Spec

(* Type correctness of the link-state model.                               *)
THEOREM TypeCorrect == Spec => []TypeOK
<1>1. IInv => TypeOK
  BY DEF IInv
<1> QED BY <1>1, LinkInvariant, PTL

(* Mutual exclusion of the link lock, for every kind of routers: the lock  *)
(* bits are those of the sides whose try_lock_link_state returned true and *)
(* have not unlocked, and never those of both sides.                       *)
THEOREM LockIsExclusive == Spec => []LockOwnership
<1>1. IInv => LockOwnership
  BY DEF IInv
<1> QED BY <1>1, LinkInvariant, PTL

(* What a step may do to the lock bits.                                    *)
OwnerReleases ==
  \A s \in Sides :
    s \in status.locked /\ s \notin status'.locked => pc[s] = "unlock"

LEMMA NextOwnerReleases == IInv /\ [Next]_vars => OwnerReleases
<1> SUFFICES ASSUME IInv, [Next]_vars PROVE OwnerReleases
  OBVIOUS
<1> USE DEF OwnerReleases
<1>1. CASE UNCHANGED vars
  BY <1>1 DEF vars
<1>2. ASSUME NEW s \in Sides,
             \/ SpontaneousFlush(s) \/ FinishDecay(s) \/ CloseRoute(s)
             \/ SerializeRouter(s) \/ Receive(s) \/ WriteAllowedSource(s)
      PROVE  OwnerReleases
  BY <1>2 DEF SpontaneousFlush, FinishDecay, CloseRoute, SerializeRouter, Receive,
              OnFlushRouter, OnLinkSuperseded, WriteAllowedSource
<1>3. ASSUME NEW s \in Sides,
             SetSideStable(s) \/ BeginProxying(s) \/ FlushOtherSideIfWaiting(s)
      PROVE  OwnerReleases
  <2>1. status'.locked = status.locked
    BY <1>3 DEF SetSideStable, BeginProxying, MarkStable, FlushOtherSideIfWaiting,
                IInv, TypeOK, Words
  <2> QED BY <2>1
<1>4. ASSUME NEW s \in Sides, LockForClosure(s) \/ LockForBypass(s)
      PROVE  OwnerReleases
  <2>1. pc[s] \in {"closure", "bypass"}
    BY <1>4 DEF LockForClosure, LockForBypass
  <2>2. CASE LockAcquired(s)
    BY <2>1, <2>2, LockAcquiredIsExclusive
  <2>3. CASE WaitingBitSet(s)
    <3>1. status' = [status EXCEPT !.waiting = @ \cup {s}]
      BY <2>3 DEF WaitingBitSet, Desired
    <3>2. status'.locked = status.locked
      BY <3>1 DEF IInv, TypeOK, Words
    <3> QED BY <3>2
  <2>4. CASE LockRefused(s) \/ LockRetry(s)
    BY <2>4 DEF LockRefused, LockRetry
  <2> QED BY <1>4, <2>2, <2>3, <2>4 DEF LockForClosure, LockForBypass
<1>5. ASSUME NEW s \in Sides, Unlock(s) PROVE OwnerReleases
  BY <1>5 DEF Unlock, IInv, TypeOK, Words
<1> QED BY <1>1, <1>2, <1>3, <1>4, <1>5 DEF Next, Loop

(* A lock bit is cleared by unlock_link_state of its owner and by nothing  *)
(* else: the exchanges of the other operations never write a stale word.   *)
THEOREM LockReleased == Spec => LockReleasedByOwner
<1>1. IInv /\ [Next]_vars =>
        [\A s \in Sides :
           s \in status.locked /\ s \notin status'.locked => pc[s] = "unlock"]_vars
  BY NextOwnerReleases DEF OwnerReleases
<1> QED BY <1>1, LinkInvariant, PTL DEF Spec, LockReleasedByOwner

-----------------------------------------------------------------------------
(* What travels over the link.                                             *)

Holds(q, m) == \E i \in DOMAIN q : q[i] = m

(* Sending adds one message to a channel and takes none away.              *)
LEMMA AppendHolds ==
  ASSUME NEW q \in Seq(Messages), NEW m \in Messages, NEW n
  PROVE  Holds(Append(q, m), n) <=> Holds(q, n) \/ m = n
<1>1. /\ DOMAIN q = 1..Len(q) /\ Len(q) \in Nat
      /\ DOMAIN Append(q, m) = 1..(Len(q) + 1)
      /\ \A i \in 1..Len(q) : Append(q, m)[i] = q[i]
      /\ Append(q, m)[Len(q) + 1] = m
  OBVIOUS
<1>2. \A i \in 1..(Len(q) + 1) : i \in 1..Len(q) \/ i = Len(q) + 1
  BY <1>1
<1>3. 1..Len(q) \subseteq 1..(Len(q) + 1) /\ Len(q) + 1 \in 1..(Len(q) + 1)
  BY <1>1
<1> QED BY <1>1, <1>2, <1>3 DEF Holds

(* What is left of a channel whose first message was taken was in it.      *)
LEMMA TailHolds ==
  ASSUME NEW q \in Seq(Messages), q # <<>>, NEW n, Holds(Tail(q), n)
  PROVE  Holds(q, n)
<1>1. PICK i \in DOMAIN Tail(q) : Tail(q)[i] = n
  BY DEF Holds
<1>2. i \in 1..(Len(q) - 1) /\ q[i + 1] = n
  BY <1>1
<1>3. i + 1 \in DOMAIN q
  BY <1>2
<1> QED BY <1>2, <1>3 DEF Holds

(* The messages of a channel after its side received one.                  *)
LEMMA ReceivedHolds ==
  ASSUME TypeOK, NEW s \in Sides, chan[s] # <<>>,
         chan' = [chan EXCEPT ![s] = Tail(@)]
  PROVE  /\ \A n : \A t \in Sides : Holds(chan'[t], n) => Holds(chan[t], n)
         /\ \A t \in Sides \ {s} : chan'[t] = chan[t]
<1>1. \A t \in Sides \ {s} : chan'[t] = chan[t]
  BY DEF TypeOK
<1>2. chan[s] \in Seq(Messages) /\ chan'[s] = Tail(chan[s])
  BY DEF TypeOK
<1> QED BY <1>1, <1>2, TailHolds

(* The messages of the channels after one was sent.                        *)
LEMMA SentHolds ==
  ASSUME TypeOK, NEW s \in Sides, NEW m \in Messages, Send(s, m)
  PROVE  /\ \A n : Holds(chan'[s], n) <=> Holds(chan[s], n) \/ m = n
         /\ \A t \in Sides \ {s} : chan'[t] = chan[t]
<1>1. \A t \in Sides \ {s} : chan'[t] = chan[t]
  BY DEF TypeOK, Send
<1>2. chan[s] \in Seq(Messages) /\ chan'[s] = Append(chan[s], m)
  BY DEF TypeOK, Send
<1> QED BY <1>1, <1>2, AppendHolds

-----------------------------------------------------------------------------
(* The link is locked for good by a side that sent a bypass and left.      *)
BypassInFlight ==
  \A s \in Sides : Holds(chan[s], "Bypass") =>
    /\ source = Other(s)
    /\ gone[Other(s)]
    /\ outcome[Other(s)] = "locked"

(* A step that sends no bypass, writes no source and neither revives nor   *)
(* unlocks a side keeps what is known of a bypass in flight.               *)
LEMMA NoBypassSent ==
  ASSUME BypassInFlight, UNCHANGED source,
         \A s \in Sides : Holds(chan'[s], "Bypass") => Holds(chan[s], "Bypass"),
         \A s \in Sides : gone[s] => gone'[s] /\ outcome'[s] = outcome[s]
  PROVE  BypassInFlight'
BY OtherSide DEF BypassInFlight

(* A side that touches the word has not given the link up, and the         *)
(* outcome of the other side's last attempt is not its business.           *)
LEMMA LoopOutcome ==
  ASSUME IInv, NEW s \in Sides, Loop(s)
  PROVE  /\ ~gone[s] /\ pc[s] # "idle"
         /\ \A t \in Sides \ {s} : outcome'[t] = outcome[t] /\ gone'[t] = gone[t]
<1>1. pc[s] # "idle"
  BY DEF Loop, SetSideStable, BeginProxying, MarkStable, LockForClosure, LockForBypass,
         WriteAllowedSource, Unlock, FlushOtherSideIfWaiting
<1>2. ~gone[s]
  BY <1>1 DEF IInv, Ownership
<1>3. \A t \in Sides \ {s} : gone'[t] = gone[t]
  BY DEF Loop, SetSideStable, BeginProxying, MarkStable, LockForClosure, LockForBypass,
         WriteAllowedSource, Unlock, FlushOtherSideIfWaiting, IInv, TypeOK
<1>4. \A t \in Sides \ {s} : outcome'[t] = outcome[t]
  BY DEF Loop, SetSideStable, BeginProxying, MarkStable, LockForClosure, LockForBypass,
         WriteAllowedSource, Unlock, FlushOtherSideIfWaiting, LockAcquired, WaitingBitSet, LockRefused,
         LockRetry, IInv, TypeOK
<1> QED BY <1>1, <1>2, <1>3, <1>4

LEMMA NextBypassInFlight == IInv /\ BypassInFlight /\ [Next]_vars => BypassInFlight'
<1> SUFFICES ASSUME IInv, BypassInFlight, [Next]_vars PROVE BypassInFlight'
  OBVIOUS
<1>0. TypeOK
  BY DEF IInv
<1>1. CASE UNCHANGED vars
  BY <1>1 DEF BypassInFlight, vars
<1>2. ASSUME NEW s \in Sides,
             \/ SpontaneousFlush(s) \/ FinishDecay(s) \/ CloseRoute(s)
             \/ SerializeRouter(s)
      PROVE  BypassInFlight'
  BY <1>2 DEF BypassInFlight, SpontaneousFlush, FinishDecay, CloseRoute,
              SerializeRouter
<1>3. ASSUME NEW s \in Sides, Receive(s) PROVE BypassInFlight'
  <2>1. /\ chan[s] # <<>> /\ chan' = [chan EXCEPT ![s] = Tail(@)]
        /\ UNCHANGED source /\ ~gone[s]
        /\ \A t \in Sides \ {s} : outcome'[t] = outcome[t] /\ gone'[t] = gone[t]
    BY <1>0, <1>3
    DEF Receive, OnFlushRouter, OnLinkSuperseded, Ready, TypeOK
  <2>2. \A t \in Sides : Holds(chan'[t], "Bypass") => Holds(chan[t], "Bypass")
    BY <1>0, <2>1, ReceivedHolds
  <2> QED BY <2>1, <2>2, NoBypassSent
<1>4. ASSUME NEW s \in Sides, Loop(s), UNCHANGED source,
             \/ UNCHANGED chan
             \/ \E m \in Messages \ {"Bypass"} : Send(Other(s), m)
      PROVE  BypassInFlight'
  <2>1. \A t \in Sides : Holds(chan'[t], "Bypass") => Holds(chan[t], "Bypass")
    <3>1. CASE UNCHANGED chan
      BY <3>1
    <3>2. CASE \E m \in Messages \ {"Bypass"} : Send(Other(s), m)
      <4>1. PICK m \in Messages \ {"Bypass"} : Send(Other(s), m)
        BY <3>2
      <4> QED BY <1>0, <4>1, SentHolds, OtherSide
    <3> QED BY <1>4, <3>1, <3>2
  <2>2. \A t \in Sides : gone[t] => gone'[t] /\ outcome'[t] = outcome[t]
    BY <1>4, LoopOutcome
  <2> QED BY <1>4, <2>1, <2>2, NoBypassSent
<1>5. ASSUME NEW s \in Sides,
             \/ SetSideStable(s) \/ BeginProxying(s) \/ LockForClosure(s)
             \/ LockForBypass(s) \/ Unlock(s) \/ FlushOtherSideIfWaiting(s)
      PROVE  BypassInFlight'
  <2>1. Loop(s) /\ UNCHANGED source
    BY <1>5 DEF Loop, SetSideStable, BeginProxying, MarkStable, LockForClosure,
                LockForBypass, Unlock,
                FlushOtherSideIfWaiting
  <2>2. \/ UNCHANGED chan
        \/ \E m \in Messages \ {"Bypass"} : Send(Other(s), m)
    BY <1>5 DEF SetSideStable, BeginProxying, LockForClosure, LockForBypass, Unlock,
                FlushOtherSideIfWaiting, Messages
  <2> QED BY <1>4, <2>1, <2>2
<1>6. ASSUME NEW s \in Sides, WriteAllowedSource(s) PROVE BypassInFlight'
  (* The writer owns the lock, so no bypass of the other side is in        *)
  (* flight, and it has not left, so neither is one of its own.            *)
  <2>1. pc[s] = "source" /\ outcome[s] = "locked" /\ ~gone[s] /\ source' = s
    BY <1>6 DEF WriteAllowedSource, IInv, Ownership
  <2>2. outcome[Other(s)] # "locked"
    BY <2>1, OtherSide DEF IInv, LockOwnership, Sides, Other
  <2>3. \A t \in Sides : ~Holds(chan[t], "Bypass")
    BY <2>1, <2>2 DEF BypassInFlight, Sides, Other
  <2>4. CASE /\ gone' = [gone EXCEPT ![s] = TRUE]
             /\ Send(Other(s), "Bypass")
    <3>1. \A t \in Sides : Holds(chan'[t], "Bypass") => t = Other(s)
      BY <1>0, <2>3, <2>4, SentHolds, OtherSide DEF Messages
    <3>2. gone'[s] /\ outcome'[s] = "locked" /\ Other(Other(s)) = s
      BY <1>0, <1>6, <2>1, <2>4 DEF TypeOK, WriteAllowedSource, Sides, Other
    <3> QED BY <2>1, <3>1, <3>2 DEF BypassInFlight
  <2>5. CASE UNCHANGED chan
    BY <2>3, <2>5 DEF BypassInFlight
  <2> QED BY <1>6, <2>4, <2>5 DEF WriteAllowedSource
<1> QED BY <1>1, <1>2, <1>3, <1>5, <1>6 DEF Next, Loop

LEMMA InitBypassInFlight == Init => BypassInFlight
BY DEF Init, BypassInFlight, Holds

(* The authorisation of a bypass: allowed_bypass_request_source names its  *)
(* sender from the moment the bypass is sent until it is accepted.         *)
THEOREM BypassIsAuthorised == Spec => []BypassSourceIntact
<1>1. Init => BypassInFlight
  BY InitBypassInFlight
<1>2. IInv /\ BypassInFlight /\ [Next]_vars => BypassInFlight'
  BY NextBypassInFlight
<1>3. BypassInFlight => BypassSourceIntact
  BY DEF BypassInFlight, BypassSourceIntact, Holds
<1> QED BY <1>1, <1>2, <1>3, LinkInvariant, PTL DEF Spec

-----------------------------------------------------------------------------
(* A side whose stable bit is missing decays or is about to set it.        *)
MarkedWhenSettled ==
  \A s \in Sides : s \in status.stable \/ decaying[s] \/ pc[s] = "mark"

LEMMA NextMarkedWhenSettled ==
  IInv /\ MarkedWhenSettled /\ [Next]_vars => MarkedWhenSettled'
<1> SUFFICES ASSUME IInv, MarkedWhenSettled, [Next]_vars PROVE MarkedWhenSettled'
  OBVIOUS
<1>0. TypeOK
  BY DEF IInv
<1>1. CASE UNCHANGED vars
  BY <1>1 DEF MarkedWhenSettled, vars
<1>2. ASSUME NEW s \in Sides, pc[s] # "mark", UNCHANGED status,
             NEW p \in Points, Goto(s, p),
             \/ UNCHANGED decaying
             \/ decaying' = [decaying EXCEPT ![s] = FALSE] /\ p = "mark"
      PROVE  MarkedWhenSettled'
  BY <1>0, <1>2, GotoType DEF MarkedWhenSettled, TypeOK
<1>3. ASSUME NEW s \in Sides, NEW cl \in BOOLEAN, NEW frc \in BOOLEAN, NEW done \in BOOLEAN,
             Ready(s), Flush(s, cl, frc, done), UNCHANGED status
      PROVE  MarkedWhenSettled'
  <2> DEFINE p == IF done THEN "mark" ELSE AfterMark(s, cl, decaying[s], FALSE, frc)
  <2>1. p \in Points
    <3>1. AfterMark(s, cl, decaying[s], FALSE, frc) \in Loops
      BY <1>0, NextPoints DEF TypeOK
    <3> QED BY <3>1 DEF Loops, Points
  <2>2. Goto(s, p)
    BY <1>3 DEF Flush
  <2>3. CASE done
    BY <1>0, <1>2, <1>3, <2>1, <2>2, <2>3 DEF Flush, Ready, TypeOK
  <2>4. CASE ~done
    <3>1. decaying' = decaying
      BY <1>0, <1>3, <2>4 DEF Flush, TypeOK
    <3> HIDE DEF p
    <3> QED BY <1>2, <1>3, <2>1, <2>2, <3>1 DEF Ready
  <2> QED BY <2>3, <2>4
<1>4. ASSUME NEW s \in Sides,
             \/ SpontaneousFlush(s) \/ FinishDecay(s) \/ CloseRoute(s) \/ OnFlushRouter(s)
      PROVE  MarkedWhenSettled'
  <2>1. /\ Ready(s) /\ UNCHANGED status
        /\ closing[s] \in BOOLEAN
        /\ \/ Flush(s, closing[s], FALSE, FALSE)
           \/ Flush(s, closing[s], FALSE, TRUE)
           \/ Flush(s, TRUE, FALSE, FALSE)
           \/ Flush(s, closing[s], TRUE, FALSE)
    BY <1>0, <1>4
    DEF SpontaneousFlush, FinishDecay, CloseRoute, OnFlushRouter, TypeOK
  <2> QED BY <2>1, <1>3
<1>5. ASSUME NEW s \in Sides, SerializeRouter(s) PROVE MarkedWhenSettled'
  <2>1. "bypass" \in Points /\ Goto(s, "bypass") /\ pc[s] # "mark"
        /\ UNCHANGED <<status, decaying>>
    BY <1>5 DEF SerializeRouter, Ready, Points
  <2> QED BY <1>2, <2>1
<1>6. ASSUME NEW s \in Sides, OnLinkSuperseded(s) PROVE MarkedWhenSettled'
  BY <1>6 DEF OnLinkSuperseded, MarkedWhenSettled
<1>7. ASSUME NEW s \in Sides, Loop(s) PROVE MarkedWhenSettled'
  <2>1. decaying' = decaying /\ status.stable \subseteq status'.stable
    <3>1. decaying' = decaying
      BY <1>7 DEF Loop, SetSideStable, BeginProxying, LockForClosure, LockForBypass,
                  WriteAllowedSource, Unlock, FlushOtherSideIfWaiting
    <3>2. \/ UNCHANGED status
          \/ \E t \in Sides : status' = [status EXCEPT !.stable = @ \cup {t}]
          \/ status = expected[s] /\ status' = Desired(s)
          \/ status' = [status EXCEPT !.locked = @ \ {s}]
          \/ status' = [status EXCEPT !.waiting = @ \ {Other(s)}]
      BY <1>7 DEF Loop, SetSideStable, BeginProxying, MarkStable, LockForClosure,
                  LockForBypass, WriteAllowedSource, Unlock, FlushOtherSideIfWaiting,
                  LockAcquired, WaitingBitSet, LockRefused, LockRetry, Sides
    <3> QED BY <1>0, <3>1, <3>2 DEF Desired, TypeOK, Words
  <2>2. pc[s] = "mark" => pc'[s] = "mark" \/ s \in status'.stable
    BY <1>0, <1>7
    DEF Loop, SetSideStable, BeginProxying, MarkStable, LockForClosure, LockForBypass,
        WriteAllowedSource, Unlock, FlushOtherSideIfWaiting, TypeOK, Words
  <2>3. \A t \in Sides \ {s} : pc'[t] = pc[t]
    BY <1>0, <1>7
    DEF Loop, SetSideStable, BeginProxying, MarkStable, LockForClosure, LockForBypass,
        WriteAllowedSource, Unlock, FlushOtherSideIfWaiting, Goto, LockRetry, TypeOK
  <2> QED BY <2>1, <2>2, <2>3 DEF MarkedWhenSettled
<1> QED BY <1>1, <1>4, <1>5, <1>6, <1>7 DEF Next, Receive

(* A lock loop goes to sleep only on a word in which its own side is       *)
(* stable and the other one is not.                                        *)
WaitsForUnstable(s) ==
  pc[s] \in {"closure", "bypass"} /\ mode[s] = "wait" =>
    s \in expected[s].stable /\ Other(s) \notin expected[s].stable

(* Only the flush that drops the last decaying link marks a side stable.   *)
MarkIsDropping(s) == pc[s] = "mark" => dropped[s]

(* A side that is asleep is stable, and its waiting bit is set until the   *)
(* message that wakes it is sent.                                          *)
AsleepIsMarked(s) ==
  outcome[s] = "waiting" /\ ~gone[s] =>
    /\ s \in status.stable
    /\ s \in status.waiting \/ Holds(chan[s], "FlushRouter")

(* Who wakes a sleeping side: the end of the other side's decays, the      *)
(* flush that has come to it, a message, the sleeper itself, or nobody     *)
(* because the other side keeps the lock for good.                         *)
WakeupDue(s) ==
  outcome[s] = "waiting" /\ ~gone[s] =>
    \/ decaying[Other(s)]
    \/ pc[Other(s)] # "idle" /\ dropped[Other(s)]
    \/ Holds(chan[s], "FlushRouter")
    \/ pc[s] \in {"closure", "bypass"}
    \/ Other(s) \in status.locked /\ pc[Other(s)] \notin {"source", "unlock"}

WakeInv ==
  \A s \in Sides : /\ WaitsForUnstable(s)
                   /\ MarkIsDropping(s)
                   /\ AsleepIsMarked(s)
                   /\ WakeupDue(s)

(* After its last decaying link was dropped, a flush comes to its tail.    *)
LEMMA DroppingPoints ==
  ASSUME NEW s \in Sides, NEW cl \in BOOLEAN, NEW dec \in BOOLEAN,
         NEW frc \in BOOLEAN
  PROVE  /\ AfterMark(s, cl, dec, TRUE, frc) \in {"closure", "bypass", "tail"}
         /\ AfterClosure(s, dec, TRUE, frc) \in {"bypass", "tail"}
         /\ AfterBridge(TRUE, frc) = "tail"
BY DEF AfterMark, AfterClosure, AfterBridge

(* The loop variables after a side has gone to another point.              *)
LEMMA GotoMode ==
  ASSUME TypeOK, NEW s \in Sides, NEW p \in Points, Goto(s, p)
  PROVE  /\ pc'[s] = p /\ mode'[s] = "lock"
         /\ \A t \in Sides \ {s} :
              pc'[t] = pc[t] /\ mode'[t] = mode[t] /\ expected'[t] = expected[t]
BY DEF Goto, TypeOK

(* What every step of side s leaves alone of the other side.               *)
Private(s) ==
  \A t \in Sides \ {s} :
    /\ pc'[t] = pc[t] /\ mode'[t] = mode[t] /\ expected'[t] = expected[t]
    /\ dropped'[t] = dropped[t] /\ decaying'[t] = decaying[t]
    /\ outcome'[t] = outcome[t] /\ gone'[t] = gone[t]

(* A flush or a travelling portal that begins at an idle side.             *)
LEMMA BeginWakeInv ==
  ASSUME IInv, WakeInv, NEW s \in Sides, Ready(s), Private(s), UNCHANGED status,
         gone'[s] = gone[s], mode'[s] = "lock",
         pc'[s] \in {"idle", "mark", "closure", "bypass", "tail"},
         pc'[s] = "mark" => dropped'[s],
         decaying[s] => decaying'[s] \/ (dropped'[s] /\ pc'[s] # "idle"),
         chan'[Other(s)] = chan[Other(s)],
         outcome'[s] = "waiting" => outcome[s] = "waiting" /\ chan'[s] = chan[s]
  PROVE  WakeInv'
<1>1. /\ WaitsForUnstable(s)' /\ MarkIsDropping(s)' /\ AsleepIsMarked(s)'
  BY DEF WakeInv, WaitsForUnstable, MarkIsDropping, AsleepIsMarked
<1>2. WakeupDue(s)'
  <2>1. /\ pc'[Other(s)] = pc[Other(s)] /\ dropped'[Other(s)] = dropped[Other(s)]
        /\ decaying'[Other(s)] = decaying[Other(s)]
    BY OtherSide DEF Private
  <2>2. WakeupDue(s) /\ pc[s] = "idle"
    BY DEF WakeInv, Ready
  <2> QED BY <2>1, <2>2 DEF WakeupDue
<1>3. ASSUME NEW t \in Sides \ {s}
      PROVE  /\ WaitsForUnstable(t)' /\ MarkIsDropping(t)' /\ AsleepIsMarked(t)'
             /\ WakeupDue(t)'
  <2>1. t = Other(s) /\ Other(t) = s
    BY DEF Sides, Other
  <2>2. /\ pc'[t] = pc[t] /\ mode'[t] = mode[t] /\ expected'[t] = expected[t]
        /\ dropped'[t] = dropped[t] /\ outcome'[t] = outcome[t]
        /\ gone'[t] = gone[t] /\ chan'[t] = chan[t] /\ pc[s] = "idle"
    BY <2>1 DEF Private, Ready
  <2>3. /\ WaitsForUnstable(t) /\ MarkIsDropping(t) /\ AsleepIsMarked(t)
        /\ WakeupDue(t)
    BY DEF WakeInv
  <2>4. WaitsForUnstable(t)' /\ MarkIsDropping(t)' /\ AsleepIsMarked(t)'
    BY <2>2, <2>3 DEF WaitsForUnstable, MarkIsDropping, AsleepIsMarked
  <2>5. WakeupDue(t)'
    BY <2>1, <2>2, <2>3 DEF WakeupDue
  <2> QED BY <2>4, <2>5
<1> QED BY <1>1, <1>2, <1>3 DEF WakeInv

(* What is left to show of a step of side s: its own part, and that the    *)
(* other side, when it sleeps, still has its bit and its waker.            *)
LEMMA LoopWakeInv ==
  ASSUME WakeInv, NEW s \in Sides, Private(s),
         WaitsForUnstable(s)', MarkIsDropping(s)', AsleepIsMarked(s)',
         WakeupDue(s)', AsleepIsMarked(Other(s))', WakeupDue(Other(s))'
  PROVE  WakeInv'
<1>1. WaitsForUnstable(Other(s))' /\ MarkIsDropping(Other(s))'
  BY OtherSide DEF WakeInv, Private, WaitsForUnstable, MarkIsDropping
<1>2. \A t \in Sides : t = s \/ t = Other(s)
  BY DEF Sides, Other
<1> QED BY <1>1, <1>2 DEF WakeInv

LEMMA LoopIsPrivate ==
  ASSUME IInv, NEW s \in Sides, Loop(s)
  PROVE  Private(s) /\ decaying' = decaying
<1>1. \A t \in Sides \ {s} : outcome'[t] = outcome[t] /\ gone'[t] = gone[t]
  BY LoopOutcome
<1>2. dropped' = dropped /\ decaying' = decaying
  BY DEF Loop, SetSideStable, BeginProxying, MarkStable, LockForClosure, LockForBypass,
         WriteAllowedSource, Unlock, FlushOtherSideIfWaiting
<1>3. \A t \in Sides \ {s} : pc'[t] = pc[t]
  BY DEF Loop, SetSideStable, BeginProxying, MarkStable, LockForClosure, LockForBypass,
         WriteAllowedSource, Unlock, FlushOtherSideIfWaiting, Goto, LockRetry, IInv, TypeOK
<1>4. \A t \in Sides \ {s} : mode'[t] = mode[t]
  BY DEF Loop, SetSideStable, BeginProxying, MarkStable, LockForClosure, LockForBypass,
         WriteAllowedSource, Unlock, FlushOtherSideIfWaiting, Goto, LockRetry, IInv, TypeOK
<1>5. \A t \in Sides \ {s} : expected'[t] = expected[t]
  BY DEF Loop, SetSideStable, BeginProxying, MarkStable, LockForClosure, LockForBypass,
         WriteAllowedSource, Unlock, FlushOtherSideIfWaiting, Goto, LockRetry, Fails, IInv, TypeOK
<1> QED BY <1>1, <1>2, <1>3, <1>4, <1>5 DEF Private

(* A step that leaves the word's stable and waiting bits and the channel   *)
(* of a sleeping side as they are.                                         *)
LEMMA StillMarked ==
  ASSUME WakeInv, NEW t \in Sides,
         outcome'[t] = outcome[t] /\ gone'[t] = gone[t],
         status.stable \subseteq status'.stable,
         t \in status.waiting => t \in status'.waiting,
         Holds(chan[t], "FlushRouter") => Holds(chan'[t], "FlushRouter")
  PROVE  AsleepIsMarked(t)'
BY DEF WakeInv, AsleepIsMarked

(* A failed exchange changes nothing but the side's loop variables.        *)
LEMMA RetryWakeInv ==
  ASSUME IInv, WakeInv, NEW s \in Sides, Loop(s), pc'[s] = pc[s],
         UNCHANGED <<status, gone, chan, outcome>>,
         pc[s] \in {"closure", "bypass"} => LockRetry(s)
  PROVE  WakeInv'
<1>1. Private(s)
  BY LoopIsPrivate
<1>2. WaitsForUnstable(s)'
  <2>1. CASE pc[s] \notin {"closure", "bypass"}
    BY <2>1 DEF WaitsForUnstable
  <2>2. CASE LockRetry(s)
    <3>1. expected'[s] = status /\ s \in status.stable
      BY <2>2 DEF LockRetry, Fails, IInv, TypeOK
    <3>2. mode'[s] = "wait" => Other(s) \notin status.stable
      BY <2>2 DEF LockRetry, IInv, TypeOK
    <3> QED BY <3>1, <3>2 DEF WaitsForUnstable
  <2> QED BY <2>1, <2>2
<1>3. dropped'[s] = dropped[s]
  BY DEF Loop, SetSideStable, BeginProxying, MarkStable, LockForClosure, LockForBypass,
         WriteAllowedSource, Unlock, FlushOtherSideIfWaiting
<1>4. MarkIsDropping(s)'
  BY <1>3 DEF WakeInv, MarkIsDropping
<1>5. AsleepIsMarked(s)' /\ AsleepIsMarked(Other(s))'
  BY OtherSide DEF WakeInv, AsleepIsMarked
<1>6. WakeupDue(s)' /\ WakeupDue(Other(s))'
  <2>1. /\ \A t \in Sides : pc'[t] = pc[t] /\ dropped'[t] = dropped[t]
        /\ decaying' = decaying
    BY <1>1, <1>3, LoopIsPrivate DEF Private
  <2> QED BY <2>1, OtherSide DEF WakeInv, WakeupDue
<1> QED BY <1>1, <1>2, <1>4, <1>5, <1>6, LoopWakeInv

(* A mark of the link by side s, which goes on and never forgets its tail. *)
LEMMA MarkStableWakeInv ==
  ASSUME IInv, WakeInv, NEW s \in Sides, NEW side \in Sides, Loop(s),
         pc[s] \in {"mark", "proxying"},
         NEW p \in {"closure", "bypass", "tail", "idle"}, dropped[s] => p # "idle",
         MarkStable(s, side, p), UNCHANGED <<gone, chan, outcome, dropped>>
  PROVE  WakeInv'
<1>3. CASE Fails(s) /\ UNCHANGED <<status, pc, mode>>
  BY <1>3, RetryWakeInv
<1>4. CASE /\ Goto(s, p)
           /\ \/ status' = [status EXCEPT !.stable = @ \cup {side}]
              \/ UNCHANGED status
  <2>1. pc'[s] = p /\ mode'[s] = "lock"
    BY <1>4, GotoMode DEF IInv, Points
  <2>2. /\ status'.waiting = status.waiting /\ status'.locked = status.locked
        /\ status.stable \subseteq status'.stable
    BY <1>4 DEF IInv, TypeOK, Words
  <2>3. Private(s) /\ decaying' = decaying
    BY LoopIsPrivate
  <2>4. MarkIsDropping(s)'
    BY <2>1 DEF MarkIsDropping
  <2>8. WaitsForUnstable(s)'
    BY <2>1 DEF WaitsForUnstable
  <2>5. AsleepIsMarked(s)' /\ AsleepIsMarked(Other(s))'
    BY <2>2, StillMarked, OtherSide
  <2>6. WakeupDue(s)'
    <3>1. WakeupDue(s)
      BY DEF WakeInv
    <3>3. pc'[Other(s)] = pc[Other(s)] /\ dropped'[Other(s)] = dropped[Other(s)]
      BY <2>3, OtherSide DEF Private
    <3> QED BY <2>2, <2>3, <3>1, <3>3 DEF WakeupDue
  <2>7. WakeupDue(Other(s))'
    <3>1. Other(Other(s)) = s /\ WakeupDue(Other(s))
      BY OtherSide DEF Sides, Other, WakeInv
    <3>2. /\ pc'[Other(s)] = pc[Other(s)] /\ outcome'[Other(s)] = outcome[Other(s)]
          /\ gone'[Other(s)] = gone[Other(s)] /\ Other(s) \in Sides
      BY <2>3, OtherSide DEF Private
    <3> QED BY <2>1, <2>2, <2>3, <3>1, <3>2 DEF WakeupDue
  <2> QED BY <2>3, <2>4, <2>5, <2>6, <2>7, <2>8, LoopWakeInv
<1> QED BY <1>3, <1>4 DEF MarkStable

LEMMA SetSideStableWakeInv ==
  ASSUME IInv, WakeInv, NEW s \in Sides, SetSideStable(s)
  PROVE  WakeInv'
<1> DEFINE p == AfterMark(s, closing[s], decaying[s], dropped[s], force[s])
<1>1. /\ Loop(s) /\ pc[s] = "mark" /\ UNCHANGED <<gone, chan, outcome, dropped>>
      /\ MarkStable(s, s, p)
  BY DEF Loop, SetSideStable
<1>2. dropped[s] /\ p \in {"closure", "bypass", "tail"}
  <2>1. dropped[s] = TRUE
    BY <1>1 DEF WakeInv, MarkIsDropping, IInv, TypeOK
  <2> QED BY <2>1, DroppingPoints DEF IInv, TypeOK
<1> HIDE DEF p
<1> QED BY <1>1, <1>2, MarkStableWakeInv

LEMMA BeginProxyingWakeInv ==
  ASSUME IInv, WakeInv, NEW s \in Sides, BeginProxying(s)
  PROVE  WakeInv'
<1> DEFINE p == AfterBridge(dropped[s], force[s])
<1>1. /\ Loop(s) /\ pc[s] = "proxying" /\ UNCHANGED <<gone, chan, outcome, dropped>>
      /\ MarkStable(s, "A", p) /\ "A" \in Sides
  BY DEF Loop, BeginProxying, Sides
<1>2. p \in {"idle", "tail"} /\ (dropped[s] => p # "idle")
  BY DEF AfterBridge
<1> HIDE DEF p
<1> QED BY <1>1, <1>2, MarkStableWakeInv

(* The answers of try_lock_link_state: the lock was taken.                 *)
LEMMA LockAcquiredWakeInv ==
  ASSUME IInv, WakeInv, NEW s \in Sides, Loop(s), pc[s] \in {"closure", "bypass"},
         LockAcquired(s), UNCHANGED dropped,
         pc'[s] = "source" \/ pc'[s] = "idle",
         \A t \in Sides :
           Holds(chan[t], "FlushRouter") => Holds(chan'[t], "FlushRouter")
  PROVE  WakeInv'
<1>1. /\ status.locked = {} /\ status'.locked = {s} /\ outcome'[s] = "locked"
      /\ status'.stable = status.stable /\ status'.waiting = status.waiting
  <2>1. status' = [status EXCEPT !.locked = @ \cup {s}]
    BY DEF LockAcquired, Desired
  <2> QED BY <2>1, LockAcquiredIsExclusive DEF IInv, TypeOK, Words
<1>2. Private(s)
  BY LoopIsPrivate
<1>3. /\ WaitsForUnstable(s)' /\ MarkIsDropping(s)' /\ AsleepIsMarked(s)'
      /\ WakeupDue(s)'
  BY <1>1 DEF WaitsForUnstable, MarkIsDropping, AsleepIsMarked, WakeupDue
<1>4. AsleepIsMarked(Other(s))'
  BY <1>1, <1>2, StillMarked, OtherSide DEF Private
<1>5. WakeupDue(Other(s))'
  <2>1. WakeupDue(Other(s)) /\ Other(Other(s)) = s
    BY OtherSide DEF WakeInv, Sides, Other
  <2>2. /\ pc'[Other(s)] = pc[Other(s)] /\ outcome'[Other(s)] = outcome[Other(s)]
        /\ gone'[Other(s)] = gone[Other(s)] /\ Other(s) \in Sides
        /\ decaying' = decaying
    BY <1>2, LoopIsPrivate, OtherSide DEF Private
  <2> QED BY <1>1, <2>1, <2>2 DEF WakeupDue
<1> QED BY <1>2, <1>3, <1>4, <1>5, LoopWakeInv

(* The answers of try_lock_link_state: asleep on the waiting bit, or       *)
(* refused.                                                                *)
LEMMA LockNotAcquiredWakeInv ==
  ASSUME IInv, WakeInv, NEW s \in Sides, Loop(s), pc[s] \in {"closure", "bypass"},
         WaitingBitSet(s) \/ LockRefused(s), UNCHANGED <<gone, chan, dropped>>,
         MarkedWhenSettled,
         mode'[s] = "lock", pc'[s] \in {"bypass", "proxying", "tail", "idle"},
         dropped[s] => pc'[s] # "idle"
  PROVE  WakeInv'
<1>1. Private(s)
  BY LoopIsPrivate
<1>2. WaitsForUnstable(s)' /\ MarkIsDropping(s)'
  BY DEF WaitsForUnstable, MarkIsDropping
<1>3. CASE WaitingBitSet(s)
  <2>1. status' = [status EXCEPT !.waiting = @ \cup {s}]
    BY <1>3 DEF WaitingBitSet, Desired
  <2>2. /\ status'.stable = status.stable
        /\ status'.waiting = status.waiting \cup {s}
    BY <2>1 DEF IInv, TypeOK, Words
  <2>3. s \in status.stable /\ Other(s) \notin status.stable
    BY <1>3 DEF WaitingBitSet, WakeInv, WaitsForUnstable
  <2>4. AsleepIsMarked(s)'
    BY <2>2, <2>3 DEF AsleepIsMarked
  <2>5. AsleepIsMarked(Other(s))'
    BY <1>1, <2>2, StillMarked, OtherSide DEF Private
  <2>6. WakeupDue(s)'
    <3>1. decaying[Other(s)] \/ (pc[Other(s)] = "mark" /\ dropped[Other(s)])
      BY <2>3, OtherSide DEF MarkedWhenSettled, WakeInv, MarkIsDropping
    <3>2. /\ pc'[Other(s)] = pc[Other(s)] /\ dropped'[Other(s)] = dropped[Other(s)]
          /\ decaying' = decaying
      BY <1>1, LoopIsPrivate, OtherSide DEF Private
    <3> QED BY <3>1, <3>2 DEF WakeupDue
  <2>7. WakeupDue(Other(s))'
    <3>1. outcome[Other(s)] # "waiting" \/ gone[Other(s)]
      BY <2>3, OtherSide DEF WakeInv, AsleepIsMarked
    <3> QED BY <1>1, <3>1, OtherSide DEF Private, WakeupDue
  <2> QED BY <1>1, <1>2, <2>4, <2>5, <2>6, <2>7, LoopWakeInv
<1>4. CASE LockRefused(s)
  <2>1. outcome'[s] # "waiting" /\ UNCHANGED status
    <3> DEFINE o == CASE s \in status.locked -> outcome[s]
                      [] status.locked = {Other(s)} -> "refused"
                      [] OTHER -> "unstable"
    <3>1. outcome' = [outcome EXCEPT ![s] = o] /\ UNCHANGED status
      BY <1>4 DEF LockRefused
    <3>2. s \in status.locked => outcome[s] = "locked"
      BY DEF IInv, LockOwnership
    <3>3. o # "waiting"
      BY <3>2, OtherSide
    <3> HIDE DEF o
    <3> QED BY <3>1, <3>3 DEF IInv, TypeOK
  <2>2. AsleepIsMarked(s)' /\ WakeupDue(s)'
    BY <2>1 DEF AsleepIsMarked, WakeupDue
  <2>3. AsleepIsMarked(Other(s))'
    BY <1>1, <2>1, StillMarked, OtherSide DEF Private
  <2>4. WakeupDue(Other(s))'
    <3>1. WakeupDue(Other(s)) /\ Other(Other(s)) = s
      BY OtherSide DEF WakeInv, Sides, Other
    <3>2. /\ pc'[Other(s)] = pc[Other(s)] /\ outcome'[Other(s)] = outcome[Other(s)]
          /\ decaying' = decaying
      BY <1>1, LoopIsPrivate, OtherSide DEF Private
    <3> QED BY <2>1, <3>1, <3>2 DEF WakeupDue
  <2> QED BY <1>1, <1>2, <2>2, <2>3, <2>4, LoopWakeInv
<1> QED BY <1>3, <1>4

LEMMA LockForClosureWakeInv ==
  ASSUME IInv, WakeInv, MarkedWhenSettled, NEW s \in Sides, LockForClosure(s)
  PROVE  WakeInv'
<1> DEFINE p == AfterClosure(s, decaying[s], dropped[s], force[s])
<1>1. Loop(s) /\ pc[s] = "closure" /\ UNCHANGED dropped
  BY DEF Loop, LockForClosure
<1>2. p \in {"bypass", "tail", "idle"} /\ (dropped[s] => p # "idle")
  BY DEF AfterClosure, AfterBridge
<1> HIDE DEF p
<1>3. CASE /\ LockAcquired(s) /\ Send(Other(s), "RouteClosed") /\ Goto(s, "idle")
  <2>1. pc'[s] = "idle"
    BY <1>3, GotoMode DEF IInv, Points
  <2>2. \A t \in Sides :
          Holds(chan[t], "FlushRouter") => Holds(chan'[t], "FlushRouter")
    BY <1>3, SentHolds, OtherSide DEF IInv, Messages
  <2> QED BY <1>1, <1>3, <2>1, <2>2, LockAcquiredWakeInv
<1>4. CASE /\ WaitingBitSet(s) \/ LockRefused(s)
           /\ Goto(s, p) /\ UNCHANGED <<gone, chan>>
  <2>1. pc'[s] = p /\ mode'[s] = "lock"
    BY <1>2, <1>4, GotoMode DEF IInv, Points
  <2> QED BY <1>1, <1>2, <1>4, <2>1, LockNotAcquiredWakeInv
<1>5. CASE LockRetry(s) /\ UNCHANGED <<gone, chan>>
  BY <1>1, <1>5, RetryWakeInv DEF LockRetry
<1> QED BY <1>3, <1>4, <1>5 DEF LockForClosure, p

LEMMA LockForBypassWakeInv ==
  ASSUME IInv, WakeInv, MarkedWhenSettled, NEW s \in Sides, LockForBypass(s)
  PROVE  WakeInv'
<1> DEFINE p == AfterRefusal(s)
<1>1. Loop(s) /\ pc[s] = "bypass" /\ UNCHANGED <<dropped, gone, chan>>
  BY DEF Loop, LockForBypass
<1>2. p \in {"proxying", "tail", "idle"} /\ (dropped[s] => p # "idle")
  BY DEF AfterRefusal, AfterBridge
<1> HIDE DEF p
<1>3. CASE LockAcquired(s) /\ Goto(s, "source")
  <2>1. pc'[s] = "source"
    BY <1>3, GotoMode DEF IInv, Points
  <2> QED BY <1>1, <1>3, <2>1, LockAcquiredWakeInv
<1>4. CASE (WaitingBitSet(s) \/ LockRefused(s)) /\ Goto(s, p)
  <2>1. pc'[s] = p /\ mode'[s] = "lock"
    BY <1>2, <1>4, GotoMode DEF IInv, Points
  <2> QED BY <1>1, <1>2, <1>4, <2>1, LockNotAcquiredWakeInv
<1>5. CASE LockRetry(s)
  BY <1>1, <1>5, RetryWakeInv DEF LockRetry
<1> QED BY <1>3, <1>4, <1>5 DEF LockForBypass, p

(* A side that holds the lock goes on, and never forgets its tail when it  *)
(* lets the lock go.                                                       *)
LEMMA OwnerWakeInv ==
  ASSUME IInv, WakeInv, NEW s \in Sides, Loop(s),
         pc[s] \in {"source", "unlock"}, UNCHANGED dropped,
         pc'[s] \in {"idle", "unlock", "tail"}, dropped[s] => \/ pc'[s] # "idle"
                                                           \/ s \in status'.locked,
         outcome'[s] # "waiting",
         pc[s] = "unlock" \/ pc'[s] = "unlock" \/ s \in status'.locked,
         status'.stable = status.stable, status'.waiting = status.waiting,
         \A t \in Sides :
           Holds(chan[t], "FlushRouter") => Holds(chan'[t], "FlushRouter")
  PROVE  WakeInv'
<1>1. Private(s)
  BY LoopIsPrivate
<1>2. /\ WaitsForUnstable(s)' /\ MarkIsDropping(s)' /\ AsleepIsMarked(s)'
      /\ WakeupDue(s)'
  BY DEF WaitsForUnstable, MarkIsDropping, AsleepIsMarked, WakeupDue
<1>3. AsleepIsMarked(Other(s))'
  BY <1>1, StillMarked, OtherSide DEF Private
<1>4. WakeupDue(Other(s))'
  <2>1. WakeupDue(Other(s)) /\ Other(Other(s)) = s
    BY OtherSide DEF WakeInv, Sides, Other
  <2>2. /\ pc'[Other(s)] = pc[Other(s)] /\ outcome'[Other(s)] = outcome[Other(s)]
        /\ gone'[Other(s)] = gone[Other(s)] /\ Other(s) \in Sides
        /\ decaying' = decaying
    BY <1>1, LoopIsPrivate, OtherSide DEF Private
  <2> QED BY <2>1, <2>2 DEF WakeupDue
<1> QED BY <1>1, <1>2, <1>3, <1>4, LoopWakeInv

LEMMA WriteAllowedSourceWakeInv ==
  ASSUME IInv, WakeInv, NEW s \in Sides, WriteAllowedSource(s)
  PROVE  WakeInv'
<1> DEFINE p == AfterBridge(dropped[s], force[s])
<1>1. /\ Loop(s) /\ pc[s] = "source" /\ UNCHANGED <<status, dropped, outcome>>
  BY DEF Loop, WriteAllowedSource
<1>2. p \in {"idle", "tail"}
  BY DEF AfterBridge
<1> HIDE DEF p
<1>3. outcome[s] = "locked" /\ s \in status.locked
  BY <1>1 DEF IInv, Ownership, LockOwnership
<1>4. pc'[s] \in {"idle", "unlock", "tail"}
  BY <1>2, GotoMode DEF WriteAllowedSource, IInv, Points, p
<1>5. \A t \in Sides :
        Holds(chan[t], "FlushRouter") => Holds(chan'[t], "FlushRouter")
  BY SentHolds, OtherSide DEF WriteAllowedSource, IInv, Messages
<1> QED BY <1>1, <1>3, <1>4, <1>5, OwnerWakeInv

LEMMA UnlockWakeInv ==
  ASSUME IInv, WakeInv, NEW s \in Sides, Unlock(s)
  PROVE  WakeInv'
<1> DEFINE p == AfterBridge(dropped[s], force[s])
<1>1. Loop(s) /\ pc[s] = "unlock" /\ UNCHANGED <<dropped, gone, chan>>
  BY DEF Loop, Unlock
<1>2. p \in {"idle", "tail"} /\ (dropped[s] => p # "idle")
  BY DEF AfterBridge
<1> HIDE DEF p
<1>3. outcome[s] = "locked" /\ s \in status.locked
  BY <1>1 DEF IInv, Ownership, LockOwnership
<1>4. CASE /\ status' = [status EXCEPT !.locked = @ \ {s}]
           /\ outcome' = [outcome EXCEPT ![s] = "unlocked"] /\ Goto(s, p)
  <2>1. pc'[s] = p
    BY <1>2, <1>4, GotoMode DEF IInv, Points
  <2>2. status'.stable = status.stable /\ status'.waiting = status.waiting
    BY <1>4 DEF IInv, TypeOK, Words
  <2>3. outcome'[s] = "unlocked"
    BY <1>4 DEF IInv, TypeOK
  <2> QED BY <1>1, <1>2, <2>1, <2>2, <2>3, OwnerWakeInv
<1>5. CASE Fails(s) /\ UNCHANGED <<status, pc, mode, outcome>>
  BY <1>1, <1>5, RetryWakeInv
<1> QED BY <1>3, <1>4, <1>5 DEF Unlock, p

LEMMA FlushOtherSideIfWaitingWakeInv ==
  ASSUME IInv, WakeInv, MarkedWhenSettled, NEW s \in Sides, FlushOtherSideIfWaiting(s)
  PROVE  WakeInv'
<1> DEFINE o == Other(s)
<1>1. /\ Loop(s) /\ pc[s] = "tail" /\ UNCHANGED <<gone, outcome, dropped>>
  BY DEF Loop, FlushOtherSideIfWaiting
<1>2. Private(s) /\ decaying' = decaying /\ o \in Sides /\ o # s /\ Other(o) = s
  BY <1>1, LoopIsPrivate, OtherSide DEF Sides, Other
<1>3. ASSUME Goto(s, "idle"), status'.stable = status.stable,
             s \in status.waiting => s \in status'.waiting,
             o \in status.waiting => \/ o \in status'.waiting
                                     \/ Holds(chan'[o], "FlushRouter"),
             status'.locked = status.locked, chan'[s] = chan[s],
             \A n : Holds(chan[o], n) => Holds(chan'[o], n),
             WakeupDue(o)'
      PROVE  WakeInv'
  <2>1. pc'[s] = "idle" /\ mode'[s] = "lock"
    BY <1>3, GotoMode DEF IInv, Points
  <2>2. WaitsForUnstable(s)' /\ MarkIsDropping(s)'
    BY <2>1 DEF WaitsForUnstable, MarkIsDropping
  <2>3. AsleepIsMarked(s)' /\ AsleepIsMarked(o)'
    BY <1>1, <1>2, <1>3 DEF WakeInv, AsleepIsMarked
  <2>4. WakeupDue(s)'
    <3>1. pc'[o] = pc[o] /\ dropped'[o] = dropped[o] /\ WakeupDue(s)
      BY <1>2 DEF Private, WakeInv
    <3> QED BY <1>1, <1>2, <1>3, <3>1 DEF WakeupDue
  <2> QED BY <1>2, <1>3, <2>2, <2>3, <2>4, LoopWakeInv
<1>4. CASE /\ status' = [status EXCEPT !.waiting = @ \ {o}]
           /\ Send(o, "FlushRouter") /\ Goto(s, "idle")
  <2>1. /\ status'.stable = status.stable /\ status'.locked = status.locked
        /\ status'.waiting = status.waiting \ {o}
    BY <1>4 DEF IInv, TypeOK, Words
  <2>2. /\ chan'[s] = chan[s] /\ Holds(chan'[o], "FlushRouter")
        /\ \A n : Holds(chan[o], n) => Holds(chan'[o], n)
    BY <1>2, <1>4, SentHolds DEF IInv, Messages
  <2>3. WakeupDue(o)'
    BY <2>2 DEF WakeupDue
  <2> QED BY <1>2, <1>3, <1>4, <2>1, <2>2, <2>3
<1>5. CASE /\ status.stable # Sides \/ o \notin status.waiting \/ status.locked # {}
           /\ UNCHANGED <<status, chan>> /\ Goto(s, "idle")
  <2>1. pc'[s] = "idle"
    BY <1>5, GotoMode DEF IInv, Points
  <2>2. WakeupDue(o)'
    <3> SUFFICES ASSUME outcome[o] = "waiting", ~gone[o], ~decaying[s]
                 PROVE  \/ Holds(chan[o], "FlushRouter")
                        \/ s \in status.locked
      BY <1>1, <1>2, <1>5, <2>1 DEF WakeupDue
    <3>1. o \in status.waiting \/ Holds(chan[o], "FlushRouter")
      BY <1>2 DEF WakeInv, AsleepIsMarked
    <3>2. o \notin status.locked
      BY <1>2 DEF IInv, LockOwnership
    <3>3. status.locked # {} => s \in status.locked
      BY <1>2, <3>2 DEF IInv, TypeOK, Words, Sides
    <3>4. status.stable = Sides
      <4>1. s \in status.stable
        BY <1>1 DEF MarkedWhenSettled
      <4>2. o \in status.stable
        BY <1>2 DEF WakeInv, AsleepIsMarked
      <4> QED BY <1>2, <4>1, <4>2 DEF IInv, TypeOK, Words, Sides
    <3> QED BY <1>5, <3>1, <3>3, <3>4
  <2> QED BY <1>3, <1>5, <2>2
<1>6. CASE Fails(s) /\ UNCHANGED <<status, chan, pc, mode>>
  BY <1>1, <1>6, RetryWakeInv
<1> QED BY <1>4, <1>5, <1>6 DEF FlushOtherSideIfWaiting

(* A flush that begins keeps the invariant, whatever makes it begin.       *)
LEMMA FlushWakeInv ==
  ASSUME IInv, WakeInv, NEW s \in Sides, Ready(s),
         NEW cl \in BOOLEAN, NEW frc \in BOOLEAN, NEW done \in BOOLEAN,
         Flush(s, cl, frc, done), UNCHANGED <<status, gone>>,
         \A t \in Sides \ {s} : chan'[t] = chan[t] /\ outcome'[t] = outcome[t],
         outcome'[s] = "waiting" => outcome[s] = "waiting" /\ chan'[s] = chan[s]
  PROVE  WakeInv'
<1> DEFINE p == IF done THEN "mark" ELSE AfterMark(s, cl, decaying[s], FALSE, frc)
<1>1. Goto(s, p)
  BY DEF Flush
<1>2. p \in {"idle", "mark", "closure", "bypass", "tail"} /\ (p = "mark" => done)
  <2>1. AfterMark(s, cl, decaying[s], FALSE, frc) \in Loops
    BY NextPoints DEF IInv, TypeOK
  <2> QED BY <2>1 DEF Loops
<1> HIDE DEF p
<1>3. /\ pc'[s] = p /\ mode'[s] = "lock"
      /\ \A t \in Sides \ {s} :
           pc'[t] = pc[t] /\ mode'[t] = mode[t] /\ expected'[t] = expected[t]
  BY <1>1, <1>2, GotoMode DEF IInv, Points
<1>4. dropped'[s] = done /\ \A t \in Sides \ {s} : dropped'[t] = dropped[t]
  BY DEF Flush, IInv, TypeOK
<1>6. /\ \A t \in Sides \ {s} : decaying'[t] = decaying[t]
      /\ decaying[s] => decaying'[s] \/ (done /\ p = "mark")
  BY DEF Flush, IInv, TypeOK, p
<1>5. Private(s)
  BY <1>3, <1>4, <1>6 DEF Private
<1> QED BY <1>2, <1>3, <1>4, <1>5, <1>6, BeginWakeInv, OtherSide

LEMMA NextWakeInv == IInv /\ MarkedWhenSettled /\ WakeInv /\ [Next]_vars => WakeInv'
<1> SUFFICES ASSUME IInv, MarkedWhenSettled, WakeInv, [Next]_vars PROVE WakeInv'
  OBVIOUS
<1>0. TypeOK
  BY DEF IInv
<1>1. CASE UNCHANGED vars
  BY <1>1 DEF WakeInv, WaitsForUnstable, MarkIsDropping, AsleepIsMarked, WakeupDue,
              vars
<1>2. ASSUME NEW s \in Sides,
             SpontaneousFlush(s) \/ FinishDecay(s) \/ CloseRoute(s)
      PROVE  WakeInv'
  <2>1. /\ Ready(s) /\ UNCHANGED <<status, gone, outcome, chan>>
        /\ closing[s] \in BOOLEAN
        /\ \/ Flush(s, closing[s], FALSE, FALSE)
           \/ Flush(s, closing[s], FALSE, TRUE)
           \/ Flush(s, TRUE, FALSE, FALSE)
    BY <1>0, <1>2 DEF SpontaneousFlush, FinishDecay, CloseRoute, TypeOK
  <2> QED BY <2>1, FlushWakeInv
<1>3. ASSUME NEW s \in Sides, OnFlushRouter(s) PROVE WakeInv'
  <2>1. /\ Ready(s) /\ UNCHANGED <<status, gone>>
        /\ closing[s] \in BOOLEAN /\ Flush(s, closing[s], TRUE, FALSE)
        /\ outcome'[s] # "waiting"
        /\ \A t \in Sides \ {s} : chan'[t] = chan[t] /\ outcome'[t] = outcome[t]
    BY <1>0, <1>3 DEF OnFlushRouter, TypeOK
  <2> QED BY <2>1, FlushWakeInv
<1>4. ASSUME NEW s \in Sides, OnLinkSuperseded(s) PROVE WakeInv'
  (* A side that gave the link up is not asleep on it any more.            *)
  <2>1. /\ gone'[s] /\ chan'[Other(s)] = chan[Other(s)]
        /\ gone'[Other(s)] = gone[Other(s)]
        /\ UNCHANGED <<status, pc, expected, mode, dropped, decaying, outcome>>
    BY <1>0, <1>4, OtherSide DEF OnLinkSuperseded, TypeOK
  <2>2. \A t \in Sides : t = s \/ t = Other(s)
    BY DEF Sides, Other
  <2>3. ASSUME NEW t \in Sides
        PROVE  /\ WaitsForUnstable(t)' /\ MarkIsDropping(t)'
               /\ AsleepIsMarked(t)' /\ WakeupDue(t)'
    <3>1. /\ WaitsForUnstable(t) /\ MarkIsDropping(t) /\ AsleepIsMarked(t)
          /\ WakeupDue(t)
      BY DEF WakeInv
    <3> QED BY <2>1, <2>2, <3>1
            DEF WaitsForUnstable, MarkIsDropping, AsleepIsMarked, WakeupDue
  <2> QED BY <2>3 DEF WakeInv
<1>5. ASSUME NEW s \in Sides, Loop(s) PROVE WakeInv'
  BY <1>5, SetSideStableWakeInv, BeginProxyingWakeInv, LockForClosureWakeInv,
     LockForBypassWakeInv, WriteAllowedSourceWakeInv, UnlockWakeInv, FlushOtherSideIfWaitingWakeInv
  DEF Loop
<1>6. ASSUME NEW s \in Sides, SerializeRouter(s) PROVE WakeInv'
  <2>1. /\ Ready(s) /\ Goto(s, "bypass")
        /\ UNCHANGED <<status, decaying, gone, chan, outcome>>
        /\ \A t \in Sides \ {s} : dropped'[t] = dropped[t]
    BY <1>0, <1>6 DEF SerializeRouter, TypeOK
  <2>2. /\ pc'[s] = "bypass" /\ mode'[s] = "lock"
        /\ \A t \in Sides \ {s} :
             pc'[t] = pc[t] /\ mode'[t] = mode[t] /\ expected'[t] = expected[t]
    BY <1>0, <2>1, GotoMode DEF Points
  <2>3. Private(s)
    BY <2>1, <2>2 DEF Private
  <2> QED BY <2>1, <2>2, <2>3, BeginWakeInv
<1> QED BY <1>1, <1>2, <1>3, <1>4, <1>5, <1>6 DEF Next, Receive

LEMMA InitWakeInv == Init => WakeInv
<1> SUFFICES ASSUME Init PROVE WakeInv
  OBVIOUS
<1>1. \A s \in Sides : pc[s] = "idle" /\ outcome[s] = "none"
  BY DEF Init
<1> QED BY <1>1 DEF WakeInv, WaitsForUnstable, MarkIsDropping, AsleepIsMarked,
                    WakeupDue

LEMMA InitMarkedWhenSettled == Init => MarkedWhenSettled
BY DEF Init, MarkedWhenSettled, Word

(* No side sleeps without a wakeup that is still to come, unless the link  *)
(* is locked: reset_waiting_bit never consumes a waiting bit that          *)
(* flush_other_side_if_waiting does not answer with a message, and the     *)
(* mark that begin_proxying makes for the other side does not stand in for *)
(* the end of that side's decays.                                          *)
THEOREM SleepersAreWoken == Spec => []NoLostWakeup
<1>1. Init => MarkedWhenSettled /\ WakeInv
  BY InitMarkedWhenSettled, InitWakeInv
<1>2. IInv /\ MarkedWhenSettled /\ WakeInv /\ [Next]_vars
        => (MarkedWhenSettled /\ WakeInv)'
  BY NextMarkedWhenSettled, NextWakeInv
<1>3. WakeInv => NoLostWakeup
  <2> SUFFICES ASSUME WakeInv, NEW s \in Sides PROVE NoLostWakeup!(s)
    BY DEF NoLostWakeup
  <2>1. WakeupDue(s)
    BY DEF WakeInv
  <2>2. Other(s) \in status.locked => status.locked # {}
    OBVIOUS
  <2> QED BY <2>1, <2>2 DEF WakeupDue, Holds
<1> QED BY <1>1, <1>2, <1>3, LinkInvariant, PTL DEF Spec
=============================================================================
