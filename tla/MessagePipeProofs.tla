------------------------- MODULE MessagePipeProofs -------------------------
(***************************************************************************)
(* What is proved of message pipes and of what waits on them.  First, for  *)
(* blocking waits and for traps, what the operations of a pipe do to its   *)
(* watchers and to the callbacks that threads have to make.  Keep is a     *)
(* recursive function, so its lemma is an induction; it is made by way of  *)
(* the least number that would refute it.                                  *)
(*                                                                         *)
(* Then waits, for any number of waiting threads, of threads that use the  *)
(* pipe, and of endpoints and signals waited for.  That no watch leaks     *)
(* holds however threads share Waiter objects.  That no wakeup is lost is  *)
(* proved for waits with a Waiter of their own: `woken` is one flag, and   *)
(* whoever leaves the condition variable clears it for all who share it.   *)
(*                                                                         *)
(* Then traps, for any number of threads, watches, contexts and messages:  *)
(* while a trap is armed no event is lost, the closure of an endpoint      *)
(* reaches every trigger that was in place, and each trigger is cancelled  *)
(* at most once and only when due.                                         *)
(***************************************************************************)
EXTENDS Waiter, Trap, SequenceTheorems, WellFoundedInduction, TLAPS

(* Every non-empty set of numbers has a least one.                         *)
LEMMA LeastNumber ==
  ASSUME NEW T \in SUBSET Nat, T # {}
  PROVE  \E m \in T : \A k \in T : m <= k
<1> DEFINE R == OpToRel(<, Nat)
<1>1. IsWellFoundedOn(R, Nat)
  BY NatLessThanWellFounded
<1>2. \A x, y \in Nat : <<x, y>> \in R <=> x < y
  BY DEF OpToRel
<1> HIDE DEF R
<1>3. PICK m \in T : \A y \in T : <<y, m>> \notin R
  BY <1>1, WFMin
<1>4. ASSUME NEW k \in T PROVE m <= k
  <2>1. k \in Nat /\ m \in Nat
    OBVIOUS
  <2>2. <<k, m>> \notin R
    BY <1>3
  <2>3. ~(k < m)
    BY <1>2, <2>1, <2>2
  <2> QED BY <2>1, <2>3
<1> QED BY <1>4

(* g is the function that Keep computes, for the first n elements.         *)
KeepsUpTo(q, S, n, g) ==
  g = [i \in 0..n |-> IF i = 0 THEN <<>>
                      ELSE IF q[i] \in S THEN Append(g[i - 1], q[i]) ELSE g[i - 1]]

(* Keep is well defined.                                                   *)
LEMMA KeepExists ==
  ASSUME NEW q, NEW S, NEW n \in Nat
  PROVE  \E g : KeepsUpTo(q, S, n, g)
<1> DEFINE T == {k \in Nat : ~ \E g : KeepsUpTo(q, S, k, g)}
<1> SUFFICES ASSUME T # {} PROVE FALSE
  OBVIOUS
<1>1. PICK m \in T : \A k \in T : m <= k
  BY LeastNumber
<1>2. CASE m = 0
  <2> DEFINE g == [i \in 0..0 |-> <<>>]
  <2>1. KeepsUpTo(q, S, 0, g)
    BY DEF KeepsUpTo
  <2> QED BY <1>2, <2>1
<1>3. CASE m # 0
  <2>1. m - 1 \in Nat /\ m - 1 \notin T
    BY <1>1, <1>3
  <2>2. PICK g : KeepsUpTo(q, S, m - 1, g)
    BY <2>1
  <2> DEFINE h == [i \in 0..m |->
                     IF i = m
                     THEN IF q[m] \in S THEN Append(g[m - 1], q[m]) ELSE g[m - 1]
                     ELSE g[i]]
  <2>3. ASSUME NEW i \in 0..m
        PROVE  h[i] = IF i = 0 THEN <<>>
                      ELSE IF q[i] \in S THEN Append(h[i - 1], q[i]) ELSE h[i - 1]
    <3>1. CASE i = m
      BY <3>1, <1>3
    <3>2. CASE i # m
      <4>1. i \in 0..(m - 1) /\ (i # 0 => i - 1 \in 0..(m - 1))
        BY <3>2
      <4>2. g[i] = IF i = 0 THEN <<>>
                   ELSE IF q[i] \in S THEN Append(g[i - 1], q[i]) ELSE g[i - 1]
        BY <4>1, <2>2 DEF KeepsUpTo
      <4>3. h[i] = g[i] /\ (i # 0 => h[i - 1] = g[i - 1])
        BY <3>2, <4>1
      <4> HIDE DEF h
      <4> QED BY <4>2, <4>3
    <3> QED BY <3>1, <3>2
  <2>4. h = [i \in 0..m |-> h[i]]
    OBVIOUS
  <2> HIDE DEF h
  <2>5. KeepsUpTo(q, S, m, h)
    BY <2>3, <2>4 DEF KeepsUpTo
  <2> QED BY <2>5
<1> QED BY <1>2, <1>3

(* p is what is kept of the first n elements of q: those that are in S,    *)
(* each once and in their order; f says where in q they come from.         *)
Picks(q, S, n, p, f) ==
  /\ f \in [1..Len(p) -> 1..n]
  /\ \A j \in 1..Len(p) : p[j] = q[f[j]]
  /\ \A j, k \in 1..Len(p) : j < k => f[j] < f[k]
  /\ \A a \in 1..n : q[a] \in S <=> \E j \in 1..Len(p) : f[j] = a

(* One more element of the sequence.                                       *)
LEMMA PicksNext ==
  ASSUME NEW R, NEW q \in Seq(R), NEW S, NEW n \in Nat, n + 1 \in 1..Len(q),
         NEW p \in Seq(R), NEW f, Picks(q, S, n, p, f)
  PROVE  \E g : Picks(q, S, n + 1,
                      IF q[n + 1] \in S THEN Append(p, q[n + 1]) ELSE p, g)
<1>0. Len(p) \in Nat /\ DOMAIN p = 1..Len(p) /\ 1..n \subseteq 1..(n + 1)
  OBVIOUS
<1>1. CASE q[n + 1] \notin S
  <2>1. f \in [1..Len(p) -> 1..(n + 1)]
    BY <1>0 DEF Picks
  <2>2. \A j \in 1..Len(p) : f[j] # n + 1
    BY <1>0 DEF Picks
  <2>3. \A a \in 1..(n + 1) : a \in 1..n \/ a = n + 1
    OBVIOUS
  <2>4. Picks(q, S, n + 1, p, f)
    BY <1>1, <2>1, <2>2, <2>3 DEF Picks
  <2> QED BY <1>1, <2>4
<1>2. CASE q[n + 1] \in S
  <2> DEFINE r == Append(p, q[n + 1])
             g == [j \in 1..(Len(p) + 1) |-> IF j = Len(p) + 1 THEN n + 1 ELSE f[j]]
  <2>0. q[n + 1] \in R
    OBVIOUS
  <2>1. /\ Len(r) = Len(p) + 1 /\ r[Len(p) + 1] = q[n + 1]
        /\ \A j \in 1..Len(p) : r[j] = p[j]
    BY <1>0, <2>0
  <2>2. \A j \in 1..(Len(p) + 1) : j \in 1..Len(p) \/ j = Len(p) + 1
    BY <1>0
  <2>3. /\ g[Len(p) + 1] = n + 1 /\ \A j \in 1..Len(p) : g[j] = f[j]
        /\ DOMAIN g = 1..(Len(p) + 1)
        /\ Len(p) + 1 \in 1..(Len(p) + 1) /\ 1..Len(p) \subseteq 1..(Len(p) + 1)
    BY <1>0
  <2>4. \A j \in 1..Len(p) : f[j] \in 1..n
    BY DEF Picks
  <2>5. g \in [1..(Len(p) + 1) -> 1..(n + 1)]
    BY <1>0, <2>2, <2>4
  <2> HIDE DEF r, g
  <2>6. \A j \in 1..Len(r) : r[j] = q[g[j]]
    BY <2>1, <2>2, <2>3 DEF Picks
  <2>7. ASSUME NEW j \in 1..Len(r), NEW k \in 1..Len(r), j < k
        PROVE  g[j] < g[k]
    <3>1. j \in 1..Len(p)
      BY <1>0, <2>1, <2>7
    <3>2. CASE k = Len(p) + 1
      BY <3>1, <3>2, <2>3, <2>4
    <3>3. CASE k \in 1..Len(p)
      BY <2>7, <3>1, <3>3, <2>3 DEF Picks
    <3> QED BY <2>1, <2>2, <3>2, <3>3
  <2>8. ASSUME NEW a \in 1..(n + 1)
        PROVE  q[a] \in S <=> \E j \in 1..Len(r) : g[j] = a
    <3>1. CASE a = n + 1
      BY <1>2, <2>1, <2>3, <3>1
    <3>2. CASE a \in 1..n
      <4>1. q[a] \in S <=> \E j \in 1..Len(p) : f[j] = a
        BY <3>2 DEF Picks
      <4>2. a # n + 1
        BY <3>2
      <4> QED BY <2>1, <2>2, <2>3, <4>1, <4>2
    <3> QED BY <3>1, <3>2
  <2>9. Picks(q, S, n + 1, r, g)
    BY <2>1, <2>5, <2>6, <2>7, <2>8 DEF Picks
  <2> QED BY <1>2, <2>9 DEF r
<1> QED BY <1>1, <1>2

(* Keep picks the elements that are in S out of the whole sequence.        *)
LEMMA KeepPicks ==
  ASSUME NEW R, NEW q \in Seq(R), NEW S
  PROVE  /\ Keep(q, S) \in Seq(R)
         /\ \E f : Picks(q, S, Len(q), Keep(q, S), f)
<1>0. Len(q) \in Nat
  OBVIOUS
<1> DEFINE kept == CHOOSE g : KeepsUpTo(q, S, Len(q), g)
<1>1. Keep(q, S) = kept[Len(q)]
  BY DEF Keep, KeepsUpTo
<1>2. KeepsUpTo(q, S, Len(q), kept)
  BY <1>0, KeepExists
<1> HIDE DEF kept
<1> DEFINE Good(n) == kept[n] \in Seq(R) /\ \E f : Picks(q, S, n, kept[n], f)
           T == {n \in 0..Len(q) : ~Good(n)}
<1>3. kept[0] = <<>> /\ \A n \in 1..Len(q) :
        kept[n] = IF q[n] \in S THEN Append(kept[n - 1], q[n]) ELSE kept[n - 1]
  <2>1. ASSUME NEW i \in 0..Len(q)
        PROVE  kept[i] = IF i = 0 THEN <<>>
                         ELSE IF q[i] \in S THEN Append(kept[i - 1], q[i])
                              ELSE kept[i - 1]
    BY <1>2 DEF KeepsUpTo
  <2>2. 0 \in 0..Len(q)
    BY <1>0
  <2>3. \A n \in 1..Len(q) : n \in 0..Len(q) /\ n # 0
    BY <1>0
  <2> QED BY <2>1, <2>2, <2>3
<1>4. Good(0)
  <2>1. Picks(q, S, 0, <<>>, <<>>)
    BY DEF Picks
  <2> QED BY <1>3, <2>1
<1>5. ASSUME NEW n \in 0..Len(q), n # 0, Good(n - 1)
      PROVE  Good(n)
  <2>1. n - 1 \in Nat /\ (n - 1) + 1 = n /\ n \in 1..Len(q)
    BY <1>0, <1>5
  <2>2. PICK f : Picks(q, S, n - 1, kept[n - 1], f)
    BY <1>5
  <2>3. kept[n] = IF q[n] \in S THEN Append(kept[n - 1], q[n]) ELSE kept[n - 1]
    BY <1>3, <2>1
  <2>4. q[n] \in R
    BY <2>1
  <2>5. kept[n] \in Seq(R)
    BY <1>5, <2>3, <2>4
  <2>6. \E g : Picks(q, S, n, kept[n], g)
    <3>1. PICK i \in Nat : i = n - 1 /\ i + 1 = n
      BY <2>1
    <3>2. /\ kept[i] \in Seq(R) /\ Picks(q, S, i, kept[i], f) /\ i + 1 \in 1..Len(q)
          /\ kept[i + 1] = IF q[i + 1] \in S THEN Append(kept[i], q[i + 1]) ELSE kept[i]
      BY <1>5, <2>1, <2>2, <2>3, <3>1
    <3>3. \E g : Picks(q, S, i + 1, kept[i + 1], g)
      BY <3>2, PicksNext
    <3> QED BY <3>1, <3>3
  <2> QED BY <2>5, <2>6
<1>6. T = {}
  <2> SUFFICES ASSUME T # {} PROVE FALSE
    OBVIOUS
  <2>1. PICK m \in T : \A k \in T : m <= k
    <3>1. T \in SUBSET Nat
      BY <1>0
    <3> HIDE DEF T
    <3> QED BY <3>1, LeastNumber
  <2>2. m # 0
    BY <1>4
  <2>3. m - 1 \in 0..Len(q) /\ m - 1 \notin T
    BY <1>0, <2>1, <2>2
  <2> HIDE DEF Good
  <2> QED BY <1>5, <2>1, <2>2, <2>3
<1>7. Good(Len(q))
  <2> HIDE DEF Good
  <2> QED BY <1>0, <1>6
<1> QED BY <1>1, <1>7

(* What is in a sequence, and what Keep leaves in it.                      *)
In(x, q) == \E i \in DOMAIN q : q[i] = x

LEMMA KeepHas ==
  ASSUME NEW R, NEW q \in Seq(R), NEW S
  PROVE  /\ Keep(q, S) \in Seq(R)
         /\ \A x : In(x, Keep(q, S)) <=> x \in S /\ In(x, q)
<1> DEFINE p == Keep(q, S)
<1>1. p \in Seq(R) /\ \E f : Picks(q, S, Len(q), p, f)
  BY KeepPicks
<1> HIDE DEF p
<1>2. PICK f : Picks(q, S, Len(q), p, f)
  BY <1>1
<1>3. DOMAIN p = 1..Len(p) /\ DOMAIN q = 1..Len(q)
  BY <1>1
<1>4. \A x : In(x, p) => x \in S /\ In(x, q)
  BY <1>2, <1>3 DEF Picks, In
<1>5. \A x : x \in S /\ In(x, q) => In(x, p)
  BY <1>2, <1>3 DEF Picks, In
<1> QED BY <1>1, <1>4, <1>5 DEF p

-----------------------------------------------------------------------------
(* Type correctness of the pipe.                                           *)
States == [satisfied : SUBSET AllSignals, satisfiable : SUBSET AllSignals]

Calls == [watch : Watches, state : States, kind : {"Changed", "Cancelled"}]

PipeTypeOK ==
  /\ localClosed \in [Ends -> BOOLEAN]
  /\ peerClosed \in [Ends -> BOOLEAN]
  /\ queue \in [Ends -> Seq(Nat)]
  /\ watchers \in [Ends -> Seq(Registrations)]
  /\ calls \in [Threads -> Seq(Calls)]
  /\ sent \in [Ends -> Nat]

Registered(e, r) == In(r, watchers[e])

(* Thread t has yet to make a callback of this kind for watch w.           *)
Owes(t, w, kind) ==
  \E i \in DOMAIN calls[t] : calls[t][i].watch = w /\ calls[t][i].kind = kind

OwesAny(t, w) == \E i \in DOMAIN calls[t] : calls[t][i].watch = w

LEMMA PeerEnd == \A e \in Ends : Peer(e) \in Ends /\ Peer(e) # e /\ Peer(Peer(e)) = e
BY DEF Ends, Peer

LEMMA StateType ==
  ASSUME NEW l \in BOOLEAN, NEW p \in BOOLEAN, NEW q
  PROVE  StateOf(l, p, q) \in States
BY DEF StateOf, States, NoSignals, AllSignals

(* The callbacks collected for some registrations: one for each, of the    *)
(* kind asked for, and none for anybody else.                              *)
LEMMA CallsForHas ==
  ASSUME NEW ws \in Seq(Registrations), NEW state \in States,
         NEW kind \in {"Changed", "Cancelled"}
  PROVE  /\ CallsFor(ws, state, kind) \in Seq(Calls)
         /\ Len(CallsFor(ws, state, kind)) = Len(ws)
         /\ \A i \in DOMAIN ws :
              /\ CallsFor(ws, state, kind)[i].watch = ws[i].watch
              /\ CallsFor(ws, state, kind)[i].kind = kind
<1>1. DOMAIN ws = 1..Len(ws) /\ Len(ws) \in Nat
  OBVIOUS
<1>2. ASSUME NEW i \in 1..Len(ws)
      PROVE  [watch |-> ws[i].watch, state |-> state, kind |-> kind] \in Calls
  <2>1. ws[i] \in Registrations
    OBVIOUS
  <2>2. ws[i].watch \in Watches
    BY <2>1 DEF Registrations
  <2> QED BY <2>2 DEF Calls
<1>3. CallsFor(ws, state, kind) =
        [i \in 1..Len(ws) |-> [watch |-> ws[i].watch, state |-> state, kind |-> kind]]
  BY <1>1 DEF CallsFor
<1>4. CallsFor(ws, state, kind) \in Seq(Calls)
  BY <1>1, <1>2, <1>3
<1>5. Len(CallsFor(ws, state, kind)) = Len(ws)
  BY <1>1, <1>3
<1> QED BY <1>1, <1>3, <1>4, <1>5

(* collect_notifications speaks to every watcher whom the state concerns,  *)
(* and to watchers of this endpoint only.                                  *)
LEMMA NotificationsHas ==
  ASSUME PipeTypeOK, NEW e \in Ends, NEW state \in States
  PROVE  /\ Notifications(e, state) \in Seq(Calls)
         /\ \A r : Registered(e, r) /\ Fires(state, r.signals) =>
              \E i \in DOMAIN Notifications(e, state) :
                /\ Notifications(e, state)[i].watch = r.watch
                /\ Notifications(e, state)[i].kind = "Changed"
         /\ \A i \in DOMAIN Notifications(e, state) :
              /\ Notifications(e, state)[i].kind = "Changed"
              /\ \E r : Registered(e, r) /\ r.watch = Notifications(e, state)[i].watch
<1> DEFINE S == {r \in Registrations : Fires(state, r.signals)}
           ws == Keep(watchers[e], S)
           cs == CallsFor(ws, state, "Changed")
<1>0. watchers[e] \in Seq(Registrations)
  BY DEF PipeTypeOK
<1>1. ws \in Seq(Registrations)
  BY <1>0, KeepHas
<1>2. \A x : In(x, ws) <=> x \in S /\ Registered(e, x)
  BY <1>0, KeepHas DEF Registered
<1>3. \A x : Registered(e, x) => x \in Registrations
  BY <1>0 DEF Registered, In
<1> HIDE DEF ws
<1>4. /\ cs \in Seq(Calls) /\ Len(cs) = Len(ws)
      /\ \A i \in DOMAIN ws : cs[i].watch = ws[i].watch /\ cs[i].kind = "Changed"
  BY <1>1, CallsForHas
<1> HIDE DEF cs
<1>5. DOMAIN cs = DOMAIN ws
  BY <1>1, <1>4
<1>6. Notifications(e, state) = cs
  BY DEF Notifications, cs, ws
<1>7. ASSUME NEW r, Registered(e, r), Fires(state, r.signals)
      PROVE  \E i \in DOMAIN cs : cs[i].watch = r.watch /\ cs[i].kind = "Changed"
  <2>1. In(r, ws)
    BY <1>2, <1>3, <1>7
  <2> QED BY <2>1, <1>4, <1>5 DEF In
<1>8. ASSUME NEW i \in DOMAIN cs
      PROVE  cs[i].kind = "Changed" /\ \E r : Registered(e, r) /\ r.watch = cs[i].watch
  <2>1. In(ws[i], ws)
    BY <1>5 DEF In
  <2> QED BY <2>1, <1>2, <1>4, <1>5
<1> QED BY <1>4, <1>6, <1>7, <1>8

(* Callbacks collected by a thread that had none left.                     *)
LEMMA Collected ==
  ASSUME PipeTypeOK, NEW t \in Threads, Free(t), NEW cs \in Seq(Calls), Collect(t, cs)
  PROVE  /\ calls' \in [Threads -> Seq(Calls)]
         /\ calls'[t] = cs
         /\ \A u \in Threads \ {t} : calls'[u] = calls[u]
<1>1. calls[t] \o cs = cs
  BY DEF Free
<1> QED BY <1>1 DEF Collect, PipeTypeOK

(* Two lists of callbacks, one after the other.                            *)
LEMMA ConcatHas ==
  ASSUME NEW S, NEW p \in Seq(S), NEW q \in Seq(S)
  PROVE  /\ p \o q \in Seq(S)
         /\ \A x : In(x, p \o q) <=> In(x, p) \/ In(x, q)
<1>1. /\ DOMAIN p = 1..Len(p) /\ DOMAIN q = 1..Len(q) /\ p \o q \in Seq(S)
      /\ DOMAIN (p \o q) = 1..(Len(p) + Len(q)) /\ Len(p) \in Nat /\ Len(q) \in Nat
      /\ \A i \in 1..Len(p) : (p \o q)[i] = p[i]
      /\ \A i \in 1..Len(q) : (p \o q)[Len(p) + i] = q[i]
  OBVIOUS
<1>2. \A i \in 1..Len(p) : i \in 1..(Len(p) + Len(q))
  BY <1>1
<1>3. \A i \in 1..Len(q) : Len(p) + i \in 1..(Len(p) + Len(q))
  BY <1>1
<1>4. \A i \in 1..(Len(p) + Len(q)) :
        i \in 1..Len(p) \/ \E j \in 1..Len(q) : i = Len(p) + j
  <2> SUFFICES ASSUME NEW i \in 1..(Len(p) + Len(q)), i \notin 1..Len(p)
               PROVE  \E j \in 1..Len(q) : i = Len(p) + j
    OBVIOUS
  <2>1. i - Len(p) \in 1..Len(q) /\ i = Len(p) + (i - Len(p))
    BY <1>1
  <2> QED BY <2>1
<1>5. ASSUME NEW x, In(x, p) \/ In(x, q) PROVE In(x, p \o q)
  BY <1>1, <1>2, <1>3, <1>5 DEF In
<1>6. ASSUME NEW x, In(x, p \o q) PROVE In(x, p) \/ In(x, q)
  <2>1. PICK i \in 1..(Len(p) + Len(q)) : (p \o q)[i] = x
    BY <1>1, <1>6 DEF In
  <2> QED BY <1>1, <1>4, <2>1 DEF In
<1> QED BY <1>1, <1>5, <1>6

-----------------------------------------------------------------------------
(* What a read, a write or a close by thread t does to watchers and        *)
(* callbacks: a closed endpoint stays as it is; registrations end only     *)
(* with their endpoint; a registration whose endpoint's state has changed  *)
(* to one that concerns it gets a callback, and every registration of an   *)
(* endpoint that is closed gets a Cancelled one; nobody else gets any.     *)
Unchanging(e) ==
  localClosed[e] => localClosed'[e] /\ QuerySignals(e)' = QuerySignals(e)

Persists(e) ==
  \A r : /\ Registered(e, r)' => Registered(e, r)
         /\ Registered(e, r) /\ ~localClosed'[e] => Registered(e, r)'

Informs(t, e) ==
  \A r : Registered(e, r) =>
    /\ Fires(QuerySignals(e), r.signals)' =>
         QuerySignals(e)' = QuerySignals(e) \/ OwesAny(t, r.watch)'
    /\ localClosed'[e] /\ ~localClosed[e] => Owes(t, r.watch, "Cancelled")'

SpeaksTo(t, i) ==
  \E e \in Ends : \E r :
    /\ Registered(e, r) /\ r.watch = calls'[t][i].watch
    /\ calls'[t][i].kind = "Cancelled" => localClosed'[e]

PipeEffect(t) ==
  /\ PipeTypeOK'
  /\ calls[t] = <<>>
  /\ \A u \in Threads \ {t} : calls'[u] = calls[u]
  /\ \A e \in Ends : Unchanging(e) /\ Persists(e) /\ Informs(t, e)
  /\ \A i \in DOMAIN calls'[t] : SpeaksTo(t, i)

(* The steps that leave the flags and the registrations alone and notify   *)
(* the watchers of one endpoint, p, of its new state.                      *)
LEMMA NotifyEffect ==
  ASSUME PipeTypeOK, NEW t \in Threads, NEW p \in Ends, Free(t),
         UNCHANGED <<localClosed, peerClosed, watchers>>,
         queue' \in [Ends -> Seq(Nat)], sent' \in [Ends -> Nat],
         \A e \in Ends \ {p} : queue'[e] = queue[e],
         localClosed[p] => QuerySignals(p)' = QuerySignals(p),
         Collect(t, Notifications(p, QuerySignals(p)'))
  PROVE  PipeEffect(t)
<1> DEFINE st == QuerySignals(p)'
           cs == Notifications(p, st)
<1>1. st \in States
  <2>1. localClosed[p] \in BOOLEAN /\ peerClosed[p] \in BOOLEAN
    BY DEF PipeTypeOK
  <2>2. st = StateOf(localClosed[p], peerClosed[p], queue'[p])
    BY DEF QuerySignals
  <2> QED BY <2>1, <2>2, StateType
<1> HIDE DEF st
<1>2. /\ cs \in Seq(Calls)
      /\ \A r : Registered(p, r) /\ Fires(st, r.signals) =>
           \E i \in DOMAIN cs : cs[i].watch = r.watch
      /\ \A i \in DOMAIN cs : /\ cs[i].kind = "Changed"
                              /\ \E r : Registered(p, r) /\ r.watch = cs[i].watch
  BY <1>1, NotificationsHas
<1>3. Collect(t, cs)
  BY DEF st
<1> HIDE DEF cs
<1>4. /\ calls' \in [Threads -> Seq(Calls)] /\ calls'[t] = cs
      /\ \A u \in Threads \ {t} : calls'[u] = calls[u]
  BY <1>2, <1>3, Collected
<1>5. PipeTypeOK'
  BY <1>4 DEF PipeTypeOK
<1>6. ASSUME NEW e \in Ends \ {p} PROVE QuerySignals(e)' = QuerySignals(e)
  BY DEF QuerySignals
<1>7. \A e \in Ends : Unchanging(e) /\ Persists(e)
  BY <1>6 DEF Unchanging, Persists, Registered
<1>8. ASSUME NEW e \in Ends PROVE Informs(t, e)
  <2>1. ASSUME NEW r, Registered(e, r), Fires(QuerySignals(e), r.signals)'
        PROVE  QuerySignals(e)' = QuerySignals(e) \/ OwesAny(t, r.watch)'
    <3>1. CASE e = p
      <4>1. Fires(st, r.signals)
        BY <2>1, <3>1 DEF st, Fires, IsSatisfied, IsUnsatisfiable
      <4> QED BY <1>2, <1>4, <2>1, <3>1, <4>1 DEF OwesAny
    <3> QED BY <1>6, <3>1
  <2> QED BY <2>1 DEF Informs
<1>9. \A i \in DOMAIN calls'[t] : SpeaksTo(t, i)
  BY <1>2, <1>4 DEF SpeaksTo
<1> QED BY <1>4, <1>5, <1>7, <1>8, <1>9 DEF PipeEffect, Free

LEMMA WriteEffect ==
  ASSUME PipeTypeOK, NEW t \in Threads, NEW e \in Ends, Write(t, e)
  PROVE  PipeEffect(t)
<1> DEFINE p == Peer(e)
           q == Append(queue[p], sent[e] + 1)
<1>1. p \in Ends /\ p # e
  BY PeerEnd
<1>2. sent[e] + 1 \in Nat /\ queue[p] \in Seq(Nat)
  BY <1>1 DEF PipeTypeOK
<1>3. q \in Seq(Nat)
  BY <1>2
<1> HIDE DEF p, q
<1>4. /\ Free(t) /\ UNCHANGED <<localClosed, peerClosed, watchers>>
      /\ queue' = [queue EXCEPT ![p] = q] /\ sent' = [sent EXCEPT ![e] = @ + 1]
      /\ Collect(t, Notifications(p, StateOf(localClosed[p], peerClosed[p], q)))
  BY DEF Write, p, q
<1>5. /\ queue' \in [Ends -> Seq(Nat)] /\ sent' \in [Ends -> Nat]
      /\ queue'[p] = q /\ \A f \in Ends \ {p} : queue'[f] = queue[f]
  BY <1>1, <1>2, <1>3, <1>4 DEF PipeTypeOK
<1>6. QuerySignals(p)' = StateOf(localClosed[p], peerClosed[p], q)
  BY <1>4, <1>5 DEF QuerySignals
<1>7. localClosed[p] => QuerySignals(p)' = QuerySignals(p)
  BY <1>6 DEF QuerySignals, StateOf
<1>8. Collect(t, Notifications(p, QuerySignals(p)'))
  BY <1>4, <1>6
<1> QED BY <1>1, <1>4, <1>5, <1>7, <1>8, NotifyEffect

LEMMA ReadEffect ==
  ASSUME PipeTypeOK, NEW t \in Threads, NEW e \in Ends, Read(t, e)
  PROVE  PipeEffect(t)
<1>1. queue[e] \in Seq(Nat) /\ queue[e] # <<>>
  BY DEF PipeTypeOK, Read
<1>2. Tail(queue[e]) \in Seq(Nat)
  BY <1>1
<1>3. /\ Free(t) /\ UNCHANGED <<localClosed, peerClosed, watchers, sent>>
      /\ queue' = [queue EXCEPT ![e] = Tail(queue[e])] /\ ~localClosed[e]
      /\ Collect(t, Notifications(e, StateOf(FALSE, peerClosed[e], Tail(queue[e]))))
  BY DEF Read
<1>4. /\ queue' \in [Ends -> Seq(Nat)] /\ sent' \in [Ends -> Nat]
      /\ queue'[e] = Tail(queue[e]) /\ \A f \in Ends \ {e} : queue'[f] = queue[f]
  BY <1>2, <1>3 DEF PipeTypeOK
<1>5. localClosed[e] = FALSE
  BY <1>3 DEF PipeTypeOK
<1>6. QuerySignals(e)' = StateOf(FALSE, peerClosed[e], Tail(queue[e]))
  BY <1>3, <1>4, <1>5 DEF QuerySignals
<1>7. Collect(t, Notifications(e, QuerySignals(e)'))
  BY <1>3, <1>6
<1> QED BY <1>3, <1>4, <1>7, NotifyEffect

LEMMA CloseEffect ==
  ASSUME PipeTypeOK, NEW t \in Threads, NEW e \in Ends, Close(t, e)
  PROVE  PipeEffect(t)
<1> DEFINE p == Peer(e)
           st == StateOf(localClosed[p], TRUE, queue[p])
           own == CallsFor(watchers[e], NoSignals, "Cancelled")
           peers == Notifications(p, st)
<1>1. p \in Ends /\ p # e /\ (\A f \in Ends : f = e \/ f = p)
  BY PeerEnd DEF Ends, Peer
<1>2. localClosed[p] \in BOOLEAN /\ watchers[e] \in Seq(Registrations)
  BY <1>1 DEF PipeTypeOK
<1>3. st \in States /\ NoSignals \in States
  BY <1>2, StateType DEF States, NoSignals, AllSignals
<1> HIDE DEF p, st
<1>4. /\ Free(t) /\ UNCHANGED <<queue, sent>> /\ ~localClosed[e]
      /\ localClosed' = [localClosed EXCEPT ![e] = TRUE]
      /\ peerClosed' = [peerClosed EXCEPT ![p] = TRUE]
      /\ watchers' = [watchers EXCEPT ![e] = <<>>]
      /\ Collect(t, own \o peers)
  BY DEF Close, p, st
<1>5. /\ own \in Seq(Calls) /\ Len(own) = Len(watchers[e])
      /\ \A i \in DOMAIN watchers[e] : /\ own[i].watch = watchers[e][i].watch
                                       /\ own[i].kind = "Cancelled"
  BY <1>2, <1>3, CallsForHas
<1>6. /\ peers \in Seq(Calls)
      /\ \A r : Registered(p, r) /\ Fires(st, r.signals) =>
           \E i \in DOMAIN peers : peers[i].watch = r.watch
      /\ \A i \in DOMAIN peers : /\ peers[i].kind = "Changed"
                                 /\ \E r : Registered(p, r) /\ r.watch = peers[i].watch
  BY <1>1, <1>3, NotificationsHas
<1> HIDE DEF own, peers
<1>7. DOMAIN own = DOMAIN watchers[e]
  BY <1>2, <1>5
<1>8. own \o peers \in Seq(Calls) /\ \A x : In(x, own \o peers) <=> In(x, own) \/ In(x, peers)
  BY <1>5, <1>6, ConcatHas
<1>9. /\ calls' \in [Threads -> Seq(Calls)] /\ calls'[t] = own \o peers
      /\ \A u \in Threads \ {t} : calls'[u] = calls[u]
  BY <1>4, <1>8, Collected
<1>10. /\ localClosed' \in [Ends -> BOOLEAN] /\ peerClosed' \in [Ends -> BOOLEAN]
       /\ localClosed'[e] = TRUE /\ localClosed'[p] = localClosed[p]
       /\ peerClosed'[p] = TRUE /\ peerClosed'[e] = peerClosed[e]
       /\ watchers' \in [Ends -> Seq(Registrations)]
       /\ watchers'[e] = <<>> /\ watchers'[p] = watchers[p]
  <2>1. <<>> \in Seq(Registrations)
    OBVIOUS
  <2>2. /\ watchers' \in [Ends -> Seq(Registrations)]
        /\ watchers'[e] = <<>> /\ watchers'[p] = watchers[p]
    BY <1>1, <1>4, <2>1 DEF PipeTypeOK
  <2>3. /\ localClosed' \in [Ends -> BOOLEAN] /\ peerClosed' \in [Ends -> BOOLEAN]
        /\ localClosed'[e] = TRUE /\ localClosed'[p] = localClosed[p]
        /\ peerClosed'[p] = TRUE /\ peerClosed'[e] = peerClosed[e]
    BY <1>1, <1>4 DEF PipeTypeOK
  <2> QED BY <2>2, <2>3
<1>11. PipeTypeOK'
  BY <1>4, <1>9, <1>10 DEF PipeTypeOK
<1>12. \A f \in Ends : Unchanging(f)
  <2>1. localClosed[p] => QuerySignals(p)' = QuerySignals(p)
    BY <1>4, <1>10 DEF QuerySignals, StateOf
  <2> QED BY <1>1, <1>4, <1>10, <2>1 DEF Unchanging
<1>13. \A f \in Ends : Persists(f)
  <2>1. \A r : ~Registered(e, r)'
    BY <1>10 DEF Registered, In
  <2>2. \A r : Registered(p, r)' <=> Registered(p, r)
    BY <1>10 DEF Registered
  <2> QED BY <1>1, <1>10, <2>1, <2>2 DEF Persists
<1>14. \A r : Registered(e, r) => Owes(t, r.watch, "Cancelled")'
  <2> SUFFICES ASSUME NEW r, Registered(e, r)
               PROVE  \E i \in DOMAIN calls'[t] : /\ calls'[t][i].watch = r.watch
                                                  /\ calls'[t][i].kind = "Cancelled"
    BY DEF Owes
  <2>1. PICK i \in DOMAIN watchers[e] : watchers[e][i] = r
    BY DEF Registered, In
  <2>2. In(own[i], own) /\ own[i].watch = r.watch /\ own[i].kind = "Cancelled"
    BY <1>5, <1>7, <2>1 DEF In
  <2>3. In(own[i], calls'[t])
    BY <1>8, <1>9, <2>2
  <2> QED BY <2>2, <2>3 DEF In
<1>15. \A r : Registered(p, r) /\ Fires(st, r.signals) => OwesAny(t, r.watch)'
  <2> SUFFICES ASSUME NEW r, Registered(p, r), Fires(st, r.signals)
               PROVE  \E i \in DOMAIN calls'[t] : calls'[t][i].watch = r.watch
    BY DEF OwesAny
  <2>1. PICK i \in DOMAIN peers : peers[i].watch = r.watch
    BY <1>6
  <2>2. In(peers[i], calls'[t])
    BY <1>8, <1>9 DEF In
  <2> QED BY <2>1, <2>2 DEF In
<1>16. Informs(t, e)
  BY <1>14 DEF Informs, Owes, OwesAny
<1>17. Informs(t, p)
  <2>1. QuerySignals(p)' = st
    BY <1>4, <1>10 DEF QuerySignals, st
  <2>2. \A r : Fires(QuerySignals(p), r.signals)' => Fires(st, r.signals)
    BY <2>1 DEF Fires, IsSatisfied, IsUnsatisfiable
  <2> QED BY <1>10, <1>15, <2>2 DEF Informs
<1>18. ASSUME NEW i \in DOMAIN calls'[t] PROVE SpeaksTo(t, i)
  <2>1. In(calls'[t][i], own) \/ In(calls'[t][i], peers)
    BY <1>8, <1>9 DEF In
  <2>2. CASE In(calls'[t][i], own)
    <3>1. PICK j \in DOMAIN watchers[e] : own[j] = calls'[t][i]
      BY <1>7, <2>2 DEF In
    <3>2. Registered(e, watchers[e][j]) /\ watchers[e][j].watch = calls'[t][i].watch
      BY <1>5, <3>1 DEF Registered, In
    <3> QED BY <1>10, <3>2 DEF SpeaksTo
  <2>3. CASE In(calls'[t][i], peers)
    <3>1. PICK j \in DOMAIN peers : peers[j] = calls'[t][i]
      BY <2>3 DEF In
    <3>2. /\ calls'[t][i].kind = "Changed"
          /\ \E r : Registered(p, r) /\ r.watch = calls'[t][i].watch
      BY <1>6, <3>1
    <3> QED BY <1>1, <3>2 DEF SpeaksTo
  <2> QED BY <2>1, <2>2, <2>3
<1> QED BY <1>1, <1>4, <1>9, <1>11, <1>12, <1>13, <1>16, <1>17, <1>18
        DEF PipeEffect, Free

LEMMA UseEffect ==
  ASSUME PipeTypeOK, NEW t \in Threads, PipeUse(t)
  PROVE  PipeEffect(t)
BY WriteEffect, ReadEffect, CloseEffect DEF PipeUse

-----------------------------------------------------------------------------
(* A registration is there as soon as start_watch returns, unless the      *)
(* endpoint is closed, and disturbs no other.                              *)
LEMMA RegisterEffect ==
  ASSUME PipeTypeOK, NEW e \in Ends, NEW w \in Watches, NEW s \in Interests,
         Register(e, w, s)
  PROVE  /\ PipeTypeOK'
         /\ UNCHANGED <<localClosed, peerClosed, queue, calls, sent>>
         /\ \A f \in Ends : QuerySignals(f)' = QuerySignals(f)
         /\ \A f \in Ends : \A r :
              Registered(f, r)' <=>
                (\/ Registered(f, r)
                 \/ f = e /\ ~localClosed[e] /\ r = [watch |-> w, signals |-> s])
<1> DEFINE n == [watch |-> w, signals |-> s]
<1>1. n \in Registrations /\ watchers[e] \in Seq(Registrations)
  BY DEF Registrations, PipeTypeOK
<1> HIDE DEF n
<1>2. /\ UNCHANGED <<localClosed, peerClosed, queue, calls, sent>>
      /\ watchers' = IF localClosed[e] THEN watchers
                     ELSE [watchers EXCEPT ![e] = Append(watchers[e], n)]
  BY DEF Register, n
<1>3. Append(watchers[e], n) \in Seq(Registrations)
  BY <1>1
<1>4. PipeTypeOK'
  BY <1>2, <1>3 DEF PipeTypeOK
<1>5. \A f \in Ends : QuerySignals(f)' = QuerySignals(f)
  BY <1>2 DEF QuerySignals
<1>6. \A r : In(r, Append(watchers[e], n)) <=> In(r, watchers[e]) \/ r = n
  <2> DEFINE q == watchers[e]
  <2>1. Append(q, n) = q \o <<n>> /\ <<n>> \in Seq(Registrations) /\ q \in Seq(Registrations)
    BY <1>1
  <2> HIDE DEF q
  <2>2. \A r : In(r, <<n>>) <=> r = n
    BY DEF In
  <2>3. \A r : In(r, q \o <<n>>) <=> In(r, q) \/ In(r, <<n>>)
    BY <2>1, ConcatHas
  <2>4. \A r : In(r, Append(q, n)) <=> In(r, q) \/ r = n
    BY <2>1, <2>2, <2>3
  <2> QED BY <2>4 DEF q
<1>7. ASSUME NEW f \in Ends, NEW r
      PROVE  Registered(f, r)' <=>
               (Registered(f, r) \/ (f = e /\ ~localClosed[e] /\ r = n))
  <2>1. CASE localClosed[e]
    BY <1>2, <2>1 DEF Registered
  <2>2. CASE ~localClosed[e] /\ f = e
    <3>1. watchers'[e] = Append(watchers[e], n)
      BY <1>2, <2>2 DEF PipeTypeOK
    <3> QED BY <1>6, <2>2, <3>1 DEF Registered
  <2>3. CASE ~localClosed[e] /\ f # e
    <3>1. watchers'[f] = watchers[f]
      BY <1>2, <2>3 DEF PipeTypeOK
    <3> QED BY <2>3, <3>1 DEF Registered
  <2> QED BY <2>1, <2>2, <2>3
<1> QED BY <1>2, <1>4, <1>5, <1>7 DEF n

(* A cancelled watch is registered nowhere, and the others are.            *)
LEMMA UnregisterEffect ==
  ASSUME PipeTypeOK, NEW w, Unregister(w)
  PROVE  /\ PipeTypeOK'
         /\ UNCHANGED <<localClosed, peerClosed, queue, calls, sent>>
         /\ \A f \in Ends : QuerySignals(f)' = QuerySignals(f)
         /\ \A f \in Ends : \A r :
              Registered(f, r)' <=> Registered(f, r) /\ r.watch # w
<1> DEFINE S == {r \in Registrations : r.watch # w}
<1>1. /\ UNCHANGED <<localClosed, peerClosed, queue, calls, sent>>
      /\ watchers' = [f \in Ends |-> Keep(watchers[f], S)]
  BY DEF Unregister
<1>2. ASSUME NEW f \in Ends
      PROVE  /\ watchers'[f] \in Seq(Registrations)
             /\ \A r : Registered(f, r)' <=> Registered(f, r) /\ r.watch # w
  <2>1. watchers[f] \in Seq(Registrations)
    BY DEF PipeTypeOK
  <2>2. /\ Keep(watchers[f], S) \in Seq(Registrations)
        /\ \A r : In(r, Keep(watchers[f], S)) <=> r \in S /\ In(r, watchers[f])
    <3> HIDE DEF S
    <3> QED BY <2>1, KeepHas
  <2>3. \A r : In(r, watchers[f]) => r \in Registrations
    BY <2>1 DEF In
  <2> QED BY <1>1, <2>2, <2>3 DEF Registered
<1>3. PipeTypeOK'
  BY <1>1, <1>2 DEF PipeTypeOK
<1>4. \A f \in Ends : QuerySignals(f)' = QuerySignals(f)
  BY <1>1 DEF QuerySignals
<1> QED BY <1>1, <1>2, <1>3, <1>4

(* A thread that makes a callback owes the others as before.               *)
LEMMA TakeCallEffect ==
  ASSUME PipeTypeOK, NEW t \in Threads, TakeCall(t)
  PROVE  /\ PipeTypeOK'
         /\ UNCHANGED <<localClosed, peerClosed, queue, watchers, sent>>
         /\ \A f \in Ends : QuerySignals(f)' = QuerySignals(f)
         /\ Head(calls[t]) \in Calls
         /\ \A u \in Threads \ {t} : calls'[u] = calls[u]
         /\ \A x : In(x, calls[t]) <=> In(x, calls'[t]) \/ x = Head(calls[t])
<1>1. calls[t] \in Seq(Calls) /\ calls[t] # <<>>
  BY DEF PipeTypeOK, TakeCall
<1>2. /\ UNCHANGED <<localClosed, peerClosed, queue, watchers, sent>>
      /\ calls' = [calls EXCEPT ![t] = Tail(calls[t])]
  BY DEF TakeCall
<1>3. /\ Head(calls[t]) \in Calls /\ Tail(calls[t]) \in Seq(Calls)
      /\ calls[t] = <<Head(calls[t])>> \o Tail(calls[t])
      /\ <<Head(calls[t])>> \in Seq(Calls)
  BY <1>1
<1>4. calls'[t] = Tail(calls[t]) /\ (\A u \in Threads \ {t} : calls'[u] = calls[u])
  BY <1>2 DEF PipeTypeOK
<1>5. PipeTypeOK'
  BY <1>2, <1>3 DEF PipeTypeOK
<1>6. \A f \in Ends : QuerySignals(f)' = QuerySignals(f)
  BY <1>2 DEF QuerySignals
<1>7. \A x : In(x, calls[t]) <=> In(x, Tail(calls[t])) \/ x = Head(calls[t])
  <2> DEFINE h == Head(calls[t])
             r == Tail(calls[t])
  <2>1. <<h>> \in Seq(Calls) /\ r \in Seq(Calls) /\ calls[t] = <<h>> \o r
    BY <1>3
  <2> HIDE DEF h, r
  <2>2. \A x : In(x, <<h>>) <=> x = h
    BY DEF In
  <2>3. \A x : In(x, <<h>> \o r) <=> In(x, <<h>>) \/ In(x, r)
    BY <2>1, ConcatHas
  <2>4. \A x : In(x, calls[t]) <=> In(x, r) \/ x = h
    BY <2>1, <2>2, <2>3
  <2> QED BY <2>4 DEF h, r
<1> QED BY <1>2, <1>3, <1>4, <1>5, <1>6, <1>7

(* What a thread owes, in terms of what is in its list.                    *)
LEMMA OwesIn ==
  ASSUME NEW t, NEW w, NEW kind
  PROVE  /\ Owes(t, w, kind) <=>
              \E x : In(x, calls[t]) /\ x.watch = w /\ x.kind = kind
         /\ OwesAny(t, w) <=> \E x : In(x, calls[t]) /\ x.watch = w
BY DEF Owes, OwesAny, In

LEMMA PipeInitType == PipeInit => PipeTypeOK
<1> SUFFICES ASSUME PipeInit PROVE PipeTypeOK
  OBVIOUS
<1>1. <<>> \in Seq(Nat) /\ <<>> \in Seq(Registrations) /\ <<>> \in Seq(Calls)
  OBVIOUS
<1> QED BY <1>1 DEF PipeInit, PipeTypeOK

-----------------------------------------------------------------------------
(* Waits.  A registration is told by the thread that waits.                *)
LEMMA WaitersWatch == Waiting = Watches
BY DEF Waiting

WaitPlaces == {"idle", "query", "register", "requery", "lock", "parked", "cancel",
               "OK", "FAILED_PRECONDITION", "DEADLINE_EXCEEDED"}

WaiterTypeOK ==
  /\ PipeTypeOK
  /\ pc \in [Waiting -> WaitPlaces]
  /\ woken \in [Objects -> BOOLEAN]
  /\ notified \subseteq Waiting
  /\ expired \subseteq Waiting
  /\ notifying \in [Threads -> Objects \cup {NoObject}]

(* The registration that the wait of w makes.                              *)
Registration(w) == [watch |-> w, signals |-> SignalsOf[w]]

(* A registration of w exists only between start_watch and the return.     *)
OnlyInside(w) ==
  \A r : Registered(EndOf[w], r) /\ r.watch = w =>
    pc[w] \in {"requery", "lock", "parked", "cancel"}

(* From start_watch until it is back from the condition variable, the wait *)
(* is registered, unless its endpoint has been closed.                     *)
Listening(w) ==
  pc[w] \in {"requery", "lock", "parked"} =>
    Registered(EndOf[w], Registration(w)) \/ localClosed[EndOf[w]]

IsDue(w) == Fires(State(w), SignalsOf[w])

(* A wait in front of the mutex that need not park finds `woken` set, or a *)
(* callback that will set it is on its way.                                *)
DueAtLock(w) ==
  pc[w] = "lock" /\ IsDue(w) =>
    woken[Object[w]] \/ \E t \in Threads : OwesAny(t, w)

(* One that is parked has been released or is about to be.                 *)
DueWhenParked(w) ==
  pc[w] = "parked" /\ IsDue(w) =>
    w \in notified \/ \E t \in Threads : notifying[t] = Object[w] \/ OwesAny(t, w)

WatchOK(w) == OnlyInside(w) /\ Listening(w)

WakeupOK(w) == DueAtLock(w) /\ DueWhenParked(w)

WatchInv == WaiterTypeOK /\ \A w \in Waiting : WatchOK(w)

WakeupInv == \A w \in Waiting : WakeupOK(w)

(* No two waits use the same Waiter.                                       *)
OwnWaiters == \A v, w \in Waiting : Object[v] = Object[w] => v = w

-----------------------------------------------------------------------------
(* A step of the waiting thread w: what it leaves alone of everybody else. *)
StepOf(w) ==
  /\ \A v \in Waiting \ {w} : pc'[v] = pc[v] /\ (v \in notified' <=> v \in notified)
  /\ \A o \in Objects \ {Object[w]} : woken'[o] = woken[o]
  /\ UNCHANGED <<localClosed, calls, notifying>>
  /\ \A e \in Ends : QuerySignals(e)' = QuerySignals(e)
  /\ \A e \in Ends : \A r : r.watch # w => (Registered(e, r)' <=> Registered(e, r))

LEMMA WaiterPipeUnchanged ==
  ASSUME UNCHANGED pipeVars
  PROVE  /\ UNCHANGED <<localClosed, peerClosed, queue, watchers, calls, sent>>
         /\ PipeTypeOK => PipeTypeOK'
         /\ \A e \in Ends : QuerySignals(e)' = QuerySignals(e)
         /\ \A e \in Ends : \A r : Registered(e, r)' <=> Registered(e, r)
BY DEF pipeVars, PipeTypeOK, QuerySignals, Registered

LEMMA GotoPlace ==
  ASSUME WaiterTypeOK, NEW w \in Waiting, NEW place \in WaitPlaces, Goto(w, place)
  PROVE  /\ pc' \in [Waiting -> WaitPlaces] /\ pc'[w] = place
         /\ \A v \in Waiting \ {w} : pc'[v] = pc[v]
BY DEF WaiterTypeOK, Goto

(* `woken` cleared by w.                                                   *)
LEMMA ClearWoken ==
  ASSUME WaiterTypeOK, NEW w \in Waiting, woken' = [woken EXCEPT ![Object[w]] = FALSE]
  PROVE  /\ woken' \in [Objects -> BOOLEAN]
         /\ \A o \in Objects \ {Object[w]} : woken'[o] = woken[o]
BY DEF WaiterTypeOK

LEMMA OutcomePlace == \A w : Outcome(w) \in WaitPlaces
BY DEF Outcome, WaitPlaces

(* A wait that goes somewhere without touching the pipe.                   *)
LEMMA QuietStep ==
  ASSUME WaiterTypeOK, NEW w \in Waiting, NEW place \in WaitPlaces, Goto(w, place),
         UNCHANGED <<pipeVars, expired, notifying>>,
         woken' = woken \/ woken' = [woken EXCEPT ![Object[w]] = FALSE],
         notified' = notified \/ notified' = notified \ {w}
  PROVE  /\ WaiterTypeOK' /\ StepOf(w) /\ pc'[w] = place
         /\ \A e \in Ends : \A r : Registered(e, r)' <=> Registered(e, r)
<1>1. /\ UNCHANGED <<localClosed, calls, notifying, expired>> /\ PipeTypeOK'
      /\ \A e \in Ends : QuerySignals(e)' = QuerySignals(e)
      /\ \A e \in Ends : \A r : Registered(e, r)' <=> Registered(e, r)
  BY WaiterPipeUnchanged DEF WaiterTypeOK
<1>2. /\ pc' \in [Waiting -> WaitPlaces] /\ pc'[w] = place
      /\ \A v \in Waiting \ {w} : pc'[v] = pc[v]
  BY GotoPlace
<1>3. /\ woken' \in [Objects -> BOOLEAN]
      /\ \A o \in Objects \ {Object[w]} : woken'[o] = woken[o]
  BY ClearWoken DEF WaiterTypeOK
<1>4. WaiterTypeOK'
  BY <1>1, <1>2, <1>3 DEF WaiterTypeOK
<1>5. StepOf(w)
  BY <1>1, <1>2, <1>3 DEF StepOf
<1> QED BY <1>1, <1>2, <1>4, <1>5

(* A wait that cancels its watch on the way.                               *)
LEMMA CancelWaitStep ==
  ASSUME WaiterTypeOK, NEW w \in Waiting, NEW place \in WaitPlaces, Goto(w, place),
         Unregister(w), UNCHANGED <<woken, expired, notifying>>,
         notified' = notified \/ notified' = notified \ {w}
  PROVE  /\ WaiterTypeOK' /\ StepOf(w) /\ pc'[w] = place
         /\ \A e \in Ends : \A r : ~(Registered(e, r)' /\ r.watch = w)
<1>1. /\ UNCHANGED <<localClosed, calls>> /\ PipeTypeOK'
      /\ \A e \in Ends : QuerySignals(e)' = QuerySignals(e)
      /\ \A e \in Ends : \A r : Registered(e, r)' <=> Registered(e, r) /\ r.watch # w
  BY UnregisterEffect DEF WaiterTypeOK
<1>2. /\ pc' \in [Waiting -> WaitPlaces] /\ pc'[w] = place
      /\ \A v \in Waiting \ {w} : pc'[v] = pc[v]
  BY GotoPlace
<1>3. WaiterTypeOK'
  BY <1>1, <1>2 DEF WaiterTypeOK
<1>4. StepOf(w)
  BY <1>1, <1>2 DEF StepOf
<1> QED BY <1>1, <1>2, <1>3, <1>4

(* A wait that comes to be neither registered nor in need of being.        *)
LEMMA ElsewhereOK ==
  ASSUME NEW w \in Waiting, pc'[w] \notin {"requery", "lock", "parked"},
         \/ pc'[w] = "cancel"
         \/ \A r : ~(Registered(EndOf[w], r)' /\ r.watch = w)
  PROVE  WatchOK(w)' /\ WakeupOK(w)'
BY DEF WatchOK, WakeupOK, OnlyInside, Listening, DueAtLock, DueWhenParked

LEMMA OwnStep ==
  ASSUME WaiterTypeOK, NEW w \in Waiting, WatchOK(w),
         BeginWait(w) \/ WaitStep(w) \/ Expire(w) \/ Resume(w)
  PROVE  WaiterTypeOK' /\ StepOf(w) /\ WatchOK(w)' /\ (WakeupOK(w) => WakeupOK(w)')
<1> USE DEF WaitPlaces
<1>0. EndOf[w] \in Ends /\ SignalsOf[w] \in Interests /\ w \in Watches
  BY WaiterAssumption, WaitersWatch
<1>1. CASE BeginWait(w)
  <2>1. /\ WaiterTypeOK' /\ StepOf(w) /\ pc'[w] = "query"
        /\ \A e \in Ends : \A r : Registered(e, r)' <=> Registered(e, r)
    BY <1>1, QuietStep DEF BeginWait
  <2>2. \A r : ~(Registered(EndOf[w], r)' /\ r.watch = w)
    BY <1>0, <1>1, <2>1 DEF BeginWait, WatchOK, OnlyInside
  <2> QED BY <2>1, <2>2, ElsewhereOK
<1>2. CASE Query(w)
  <2>0. PICK place \in WaitPlaces \ {"requery", "lock", "parked", "cancel"} : Goto(w, place)
    BY <1>2 DEF Query, Outcome
  <2>1. /\ WaiterTypeOK' /\ StepOf(w) /\ pc'[w] = place
        /\ \A e \in Ends : \A r : Registered(e, r)' <=> Registered(e, r)
    BY <1>2, <2>0, QuietStep DEF Query
  <2>2. \A r : ~(Registered(EndOf[w], r)' /\ r.watch = w)
    BY <1>0, <1>2, <2>1 DEF Query, WatchOK, OnlyInside
  <2> QED BY <2>0, <2>1, <2>2, ElsewhereOK
<1>3. CASE StartWatch(w)
  <2>1. /\ UNCHANGED <<localClosed, calls>> /\ PipeTypeOK'
        /\ \A e \in Ends : QuerySignals(e)' = QuerySignals(e)
        /\ \A f \in Ends : \A r :
             Registered(f, r)' <=>
               (\/ Registered(f, r)
                \/ f = EndOf[w] /\ ~localClosed[EndOf[w]] /\ r = Registration(w))
    BY <1>0, <1>3, RegisterEffect DEF StartWatch, WaiterTypeOK, Registration
  <2>2. /\ pc' \in [Waiting -> WaitPlaces] /\ pc'[w] = "requery"
        /\ \A v \in Waiting \ {w} : pc'[v] = pc[v]
    BY <1>3, GotoPlace DEF StartWatch
  <2>3. WaiterTypeOK'
    BY <1>3, <2>1, <2>2 DEF WaiterTypeOK, StartWatch
  <2>4. StepOf(w)
    BY <1>3, <2>1, <2>2 DEF StepOf, StartWatch, Registration
  <2>5. Listening(w)'
    BY <1>0, <2>1 DEF Listening
  <2>6. OnlyInside(w)' /\ DueAtLock(w)' /\ DueWhenParked(w)'
    BY <2>2 DEF OnlyInside, DueAtLock, DueWhenParked
  <2> QED BY <2>3, <2>4, <2>5, <2>6 DEF WatchOK, WakeupOK
<1>4. CASE Requery(w)
  <2>1. CASE IsDue(w)
    <3>1. Outcome(w) \in WaitPlaces /\ Outcome(w) \notin {"requery", "lock", "parked"}
      BY DEF Outcome
    <3>2. /\ WaiterTypeOK' /\ StepOf(w) /\ pc'[w] = Outcome(w)
          /\ \A e \in Ends : \A r : ~(Registered(e, r)' /\ r.watch = w)
      BY <1>4, <2>1, <3>1, CancelWaitStep DEF Requery, IsDue
    <3> QED BY <1>0, <3>1, <3>2, ElsewhereOK
  <2>2. CASE ~IsDue(w)
    <3>1. /\ WaiterTypeOK' /\ StepOf(w) /\ pc'[w] = "lock"
          /\ \A e \in Ends : \A r : Registered(e, r)' <=> Registered(e, r)
      BY <1>4, <2>2, QuietStep DEF Requery, IsDue
    <3>2. ~IsDue(w)'
      BY <1>0, <2>2, <3>1 DEF StepOf, IsDue, State, Fires, IsSatisfied, IsUnsatisfiable
    <3>3. Listening(w)'
      BY <1>0, <1>4, <3>1 DEF Listening, WatchOK, Requery, StepOf
    <3> QED BY <3>1, <3>2, <3>3 DEF WatchOK, WakeupOK, OnlyInside, DueAtLock, DueWhenParked
  <2> QED BY <2>1, <2>2
<1>5. CASE Park(w)
  <2>1. CASE w \in expired
    <3>1. /\ WaiterTypeOK' /\ StepOf(w) /\ pc'[w] = "DEADLINE_EXCEEDED"
          /\ \A e \in Ends : \A r : ~(Registered(e, r)' /\ r.watch = w)
      BY <1>5, <2>1, CancelWaitStep DEF Park
    <3> QED BY <1>0, <3>1, ElsewhereOK
  <2>2. CASE w \notin expired
    <3>1. /\ WaiterTypeOK' /\ StepOf(w) /\ pc'[w] = "parked"
          /\ \A e \in Ends : \A r : Registered(e, r)' <=> Registered(e, r)
      BY <1>5, <2>2, QuietStep DEF Park
    <3>2. Listening(w)'
      BY <1>0, <1>5, <3>1 DEF Listening, WatchOK, Park, StepOf
    <3>3. DueAtLock(w) => DueWhenParked(w)'
      <4>1. IsDue(w)' => IsDue(w)
        BY <1>0, <3>1 DEF StepOf, IsDue, State, Fires, IsSatisfied, IsUnsatisfiable
      <4>2. DueAtLock(w) /\ IsDue(w) => \E t \in Threads : OwesAny(t, w)
        BY <1>5 DEF DueAtLock, Park
      <4>3. \A t : OwesAny(t, w)' <=> OwesAny(t, w)
        BY <3>1 DEF StepOf, OwesAny
      <4> QED BY <4>1, <4>2, <4>3 DEF DueWhenParked
    <3> QED BY <3>1, <3>2, <3>3 DEF WatchOK, WakeupOK, OnlyInside, DueAtLock
  <2> QED BY <2>1, <2>2
<1>6. CASE SkipPark(w)
  <2>1. WaiterTypeOK' /\ StepOf(w) /\ pc'[w] = "cancel"
    BY <1>6, QuietStep DEF SkipPark
  <2> QED BY <2>1, ElsewhereOK
<1>7. CASE Resume(w)
  <2>1. WaiterTypeOK' /\ StepOf(w) /\ pc'[w] = "cancel"
    BY <1>7, QuietStep DEF Resume
  <2> QED BY <2>1, ElsewhereOK
<1>8. CASE TimeOut(w)
  <2>1. CASE woken[Object[w]]
    <3>1. WaiterTypeOK' /\ StepOf(w) /\ pc'[w] = "cancel"
      BY <1>8, <2>1, QuietStep DEF TimeOut
    <3> QED BY <3>1, ElsewhereOK
  <2>2. CASE ~woken[Object[w]]
    <3>1. /\ WaiterTypeOK' /\ StepOf(w) /\ pc'[w] = "DEADLINE_EXCEEDED"
          /\ \A e \in Ends : \A r : ~(Registered(e, r)' /\ r.watch = w)
      BY <1>8, <2>2, CancelWaitStep DEF TimeOut
    <3> QED BY <1>0, <3>1, ElsewhereOK
  <2> QED BY <2>1, <2>2
<1>9. CASE CancelWatch(w)
  <2>1. /\ WaiterTypeOK' /\ StepOf(w) /\ pc'[w] = "query"
        /\ \A e \in Ends : \A r : ~(Registered(e, r)' /\ r.watch = w)
    BY <1>9, CancelWaitStep DEF CancelWatch
  <2> QED BY <1>0, <2>1, ElsewhereOK
<1>10. CASE Expire(w)
  <2>1. /\ UNCHANGED <<localClosed, calls, notifying, pc, woken, notified>>
        /\ PipeTypeOK' /\ expired' \subseteq Waiting
        /\ \A e \in Ends : QuerySignals(e)' = QuerySignals(e)
        /\ \A e \in Ends : \A r : Registered(e, r)' <=> Registered(e, r)
    BY <1>10, WaiterPipeUnchanged DEF Expire, WaiterTypeOK
  <2>2. WaiterTypeOK' /\ StepOf(w)
    BY <2>1 DEF WaiterTypeOK, StepOf
  <2>3. IsDue(w)' => IsDue(w)
    BY <1>0, <2>1 DEF IsDue, State, Fires, IsSatisfied, IsUnsatisfiable
  <2>4. \A t : OwesAny(t, w)' <=> OwesAny(t, w)
    BY <2>1 DEF OwesAny
  <2>5. OnlyInside(w)' /\ Listening(w)'
    BY <1>0, <2>1 DEF WatchOK, OnlyInside, Listening
  <2>6. WakeupOK(w) => WakeupOK(w)'
    BY <2>1, <2>3, <2>4 DEF WakeupOK, DueAtLock, DueWhenParked
  <2> QED BY <2>2, <2>5, <2>6 DEF WatchOK
<1> QED
  BY <1>1, <1>2, <1>3, <1>4, <1>5, <1>6, <1>7, <1>8, <1>9, <1>10 DEF WaitStep

(* A step of w does not disturb the others: it cancels no watch but its    *)
(* own, and clears no `woken` but that of its own Waiter.                  *)
LEMMA OthersStep ==
  ASSUME NEW w \in Waiting, NEW v \in Waiting \ {w}, StepOf(w), WatchOK(v)
  PROVE  WatchOK(v)' /\ (OwnWaiters /\ WakeupOK(v) => WakeupOK(v)')
<1>1. EndOf[v] \in Ends /\ Object[v] \in Objects
  BY WaiterAssumption, WaitersWatch DEF Objects
<1>2. /\ pc'[v] = pc[v] /\ (v \in notified' <=> v \in notified)
      /\ UNCHANGED <<localClosed, calls, notifying>>
      /\ \A r : r.watch = v => (Registered(EndOf[v], r)' <=> Registered(EndOf[v], r))
  BY <1>1 DEF StepOf
<1>3. WatchOK(v)'
  BY <1>2 DEF WatchOK, OnlyInside, Listening, Registration
<1>4. IsDue(v)' <=> IsDue(v)
  BY <1>1 DEF StepOf, IsDue, State, Fires, IsSatisfied, IsUnsatisfiable
<1>5. \A t : OwesAny(t, v)' <=> OwesAny(t, v)
  BY <1>2 DEF OwesAny
<1>6. OwnWaiters => woken'[Object[v]] = woken[Object[v]]
  BY <1>1 DEF StepOf, OwnWaiters
<1>7. OwnWaiters /\ WakeupOK(v) => WakeupOK(v)'
  BY <1>2, <1>4, <1>5, <1>6 DEF WakeupOK, DueAtLock, DueWhenParked
<1> QED BY <1>3, <1>7

-----------------------------------------------------------------------------
(* The threads that use the pipe.  A write, read or close: whoever is      *)
(* registered with an endpoint whose state now concerns it gets a callback.*)
LEMMA ChangePipeStep ==
  ASSUME WaiterTypeOK, NEW t \in Threads, ChangePipe(t), NEW w \in Waiting, WatchOK(w)
  PROVE  WaiterTypeOK' /\ WatchOK(w)' /\ (WakeupOK(w) => WakeupOK(w)')
<1>1. /\ UNCHANGED <<pc, woken, notified, expired, notifying>> /\ PipeEffect(t)
  BY UseEffect DEF ChangePipe, WaiterTypeOK
<1>2. WaiterTypeOK'
  BY <1>1 DEF WaiterTypeOK, PipeEffect
<1> DEFINE e == EndOf[w]
           n == Registration(w)
<1>3. /\ e \in Ends /\ n.watch = w /\ n.signals = SignalsOf[w]
  BY WaiterAssumption, WaitersWatch DEF Registration
<1>4. Unchanging(e) /\ Persists(e) /\ Informs(t, e)
  BY <1>1, <1>3 DEF PipeEffect
<1> HIDE DEF e, n
<1>5. WatchOK(w)'
  <2>1. OnlyInside(w)'
    BY <1>1, <1>4 DEF WatchOK, OnlyInside, Persists, e
  <2>2. Listening(w)'
    BY <1>1, <1>4 DEF WatchOK, Listening, Persists, Unchanging, e, n
  <2> QED BY <2>1, <2>2 DEF WatchOK
<1>6. \A u \in Threads : OwesAny(u, w) => OwesAny(u, w)'
  BY <1>1 DEF PipeEffect, OwesAny
<1>7. pc[w] \in {"lock", "parked"} /\ IsDue(w)' => IsDue(w) \/ OwesAny(t, w)'
  <2> SUFFICES ASSUME pc[w] \in {"lock", "parked"}, IsDue(w)'
               PROVE  IsDue(w) \/ OwesAny(t, w)'
    OBVIOUS
  <2>1. Registered(e, n) \/ localClosed[e]
    BY DEF WatchOK, Listening, e, n
  <2>2. QuerySignals(e)' = QuerySignals(e) => IsDue(w)
    BY DEF IsDue, State, Fires, IsSatisfied, IsUnsatisfiable, e
  <2>3. Fires(QuerySignals(e), n.signals)'
    BY <1>3 DEF IsDue, State, e, n, Registration
  <2>4. CASE Registered(e, n)
    BY <1>3, <1>4, <2>2, <2>3, <2>4 DEF Informs, n, Registration
  <2>5. CASE localClosed[e]
    BY <1>4, <2>2, <2>5 DEF Unchanging
  <2> QED BY <2>1, <2>4, <2>5
<1>8. WakeupOK(w) => WakeupOK(w)'
  BY <1>1, <1>6, <1>7 DEF WakeupOK, DueAtLock, DueWhenParked
<1> QED BY <1>2, <1>5, <1>8

(* The callback, up to the unlock of the Waiter's mutex.                   *)
LEMMA SetWokenStep ==
  ASSUME WaiterTypeOK, NEW t \in Threads, SetWoken(t), NEW w \in Waiting, WatchOK(w)
  PROVE  WaiterTypeOK' /\ WatchOK(w)' /\ (WakeupOK(w) => WakeupOK(w)')
<1> DEFINE h == Head(calls[t])
           o == Object[h.watch]
<1>0. EndOf[w] \in Ends /\ Object[w] \in Objects
  BY WaiterAssumption, WaitersWatch DEF Objects
<1>1. /\ UNCHANGED <<localClosed, peerClosed, queue, watchers, sent>>
      /\ PipeTypeOK' /\ h \in Calls
      /\ \A f \in Ends : QuerySignals(f)' = QuerySignals(f)
      /\ \A u \in Threads \ {t} : calls'[u] = calls[u]
      /\ \A x : In(x, calls[t]) <=> In(x, calls'[t]) \/ x = h
  BY TakeCallEffect DEF SetWoken, WaiterTypeOK
<1>2. o \in Objects
  BY <1>1, WaiterAssumption, WaitersWatch DEF Calls, Objects
<1>3. /\ UNCHANGED <<pc, notified, expired>> /\ notifying[t] = NoObject
      /\ woken' = [woken EXCEPT ![o] = TRUE]
      /\ notifying' = [notifying EXCEPT ![t] = o]
  BY DEF SetWoken
<1> HIDE DEF h, o
<1>4. /\ woken'[o] = TRUE /\ \A q \in Objects : woken[q] => woken'[q]
      /\ woken' \in [Objects -> BOOLEAN]
  BY <1>2, <1>3 DEF WaiterTypeOK
<1>5. /\ notifying'[t] = o /\ \A u \in Threads \ {t} : notifying'[u] = notifying[u]
      /\ notifying' \in [Threads -> Objects \cup {NoObject}]
  BY <1>2, <1>3 DEF WaiterTypeOK
<1>6. WaiterTypeOK'
  BY <1>1, <1>3, <1>4, <1>5 DEF WaiterTypeOK
<1>7. WatchOK(w)'
  BY <1>1, <1>3 DEF WatchOK, OnlyInside, Listening, Registered
<1>8. IsDue(w)' <=> IsDue(w)
  BY <1>0, <1>1 DEF IsDue, State, Fires, IsSatisfied, IsUnsatisfiable
<1>9. \A u \in Threads : OwesAny(u, w) => OwesAny(u, w)' \/ (u = t /\ o = Object[w])
  <2> SUFFICES ASSUME NEW u \in Threads, OwesAny(u, w), ~OwesAny(u, w)'
               PROVE  u = t /\ o = Object[w]
    OBVIOUS
  <2>1. u = t
    BY <1>1 DEF OwesAny
  <2>2. PICK x : In(x, calls[t]) /\ x.watch = w
    BY <2>1 DEF OwesAny, In
  <2>3. ~In(x, calls'[t])
    BY <2>1, <2>2 DEF OwesAny, In
  <2>4. x = h
    BY <1>1, <2>2, <2>3
  <2> QED BY <2>1, <2>2, <2>4 DEF o
<1>10. \A u \in Threads : notifying[u] = Object[w] => notifying'[u] = Object[w]
  BY <1>0, <1>3, <1>5, WaiterAssumption, WaitersWatch
<1>11. WakeupOK(w) => WakeupOK(w)'
  <2>1. DueAtLock(w) => DueAtLock(w)'
    BY <1>0, <1>3, <1>4, <1>8, <1>9 DEF DueAtLock
  <2>2. DueWhenParked(w) => DueWhenParked(w)'
    BY <1>3, <1>5, <1>8, <1>9, <1>10 DEF DueWhenParked
  <2> QED BY <2>1, <2>2 DEF WakeupOK
<1> QED BY <1>6, <1>7, <1>11

(* The callback, after the unlock.                                         *)
LEMMA NotifyStep ==
  ASSUME WaiterTypeOK, NEW t \in Threads, NotifyAll(t), NEW w \in Waiting, WatchOK(w)
  PROVE  WaiterTypeOK' /\ WatchOK(w)' /\ (WakeupOK(w) => WakeupOK(w)')
<1>0. EndOf[w] \in Ends
  BY WaiterAssumption, WaitersWatch
<1>1. /\ PipeTypeOK' /\ UNCHANGED <<localClosed, calls, pc, woken, expired>>
      /\ \A e \in Ends : QuerySignals(e)' = QuerySignals(e)
      /\ \A e \in Ends : \A r : Registered(e, r)' <=> Registered(e, r)
  BY WaiterPipeUnchanged DEF NotifyAll, WaiterTypeOK
<1>2. /\ notified' = notified \cup
           {v \in Waiting : Object[v] = notifying[t] /\ pc[v] = "parked"}
      /\ notifying' = [notifying EXCEPT ![t] = NoObject]
  BY DEF NotifyAll
<1>3. WaiterTypeOK'
  BY <1>1, <1>2 DEF WaiterTypeOK
<1>4. WatchOK(w)'
  BY <1>0, <1>1 DEF WatchOK, OnlyInside, Listening
<1>5. IsDue(w)' <=> IsDue(w)
  BY <1>0, <1>1 DEF IsDue, State, Fires, IsSatisfied, IsUnsatisfiable
<1>6. \A u : OwesAny(u, w)' <=> OwesAny(u, w)
  BY <1>1 DEF OwesAny
<1>7. \A u \in Threads \ {t} : notifying'[u] = notifying[u]
  BY <1>2 DEF WaiterTypeOK
<1>8. DueWhenParked(w) => DueWhenParked(w)'
  BY <1>1, <1>2, <1>5, <1>6, <1>7 DEF DueWhenParked
<1> QED BY <1>1, <1>3, <1>4, <1>5, <1>6, <1>8 DEF WakeupOK, DueAtLock

-----------------------------------------------------------------------------
LEMMA WaiterInitInv == WaiterInit => WatchInv /\ WakeupInv
<1> SUFFICES ASSUME WaiterInit PROVE WatchInv /\ WakeupInv
  OBVIOUS
<1>1. PipeTypeOK
  BY PipeInitType DEF WaiterInit
<1>2. WaiterTypeOK
  BY <1>1 DEF WaiterInit, WaiterTypeOK, WaitPlaces
<1>3. ASSUME NEW w \in Waiting PROVE WatchOK(w) /\ WakeupOK(w)
  <2>1. EndOf[w] \in Ends /\ pc[w] = "idle"
    BY WaiterAssumption, WaitersWatch DEF WaiterInit
  <2>2. \A r : ~Registered(EndOf[w], r)
    BY <2>1 DEF WaiterInit, PipeInit, Registered, In
  <2> QED
    BY <2>1, <2>2 DEF WatchOK, WakeupOK, OnlyInside, Listening, DueAtLock, DueWhenParked
<1> QED BY <1>2, <1>3 DEF WatchInv, WakeupInv

LEMMA WaiterNextInv ==
  ASSUME WatchInv, [WaiterNext]_waiterVars
  PROVE  WatchInv' /\ (OwnWaiters /\ WakeupInv => WakeupInv')
<1>1. WaiterTypeOK /\ \A w \in Waiting : WatchOK(w)
  BY DEF WatchInv
<1> SUFFICES WaiterTypeOK' /\ \A w \in Waiting :
               WatchOK(w)' /\ (OwnWaiters /\ WakeupOK(w) => WakeupOK(w)')
  BY DEF WatchInv, WakeupInv
<1>2. ASSUME NEW v \in Waiting, BeginWait(v) \/ WaitStep(v) \/ Expire(v) \/ Resume(v)
      PROVE  WaiterTypeOK' /\ \A w \in Waiting :
               WatchOK(w)' /\ (OwnWaiters /\ WakeupOK(w) => WakeupOK(w)')
  <2>1. WaiterTypeOK' /\ StepOf(v) /\ WatchOK(v)' /\ (WakeupOK(v) => WakeupOK(v)')
    BY <1>1, <1>2, OwnStep
  <2>2. \A w \in Waiting \ {v} :
          WatchOK(w)' /\ (OwnWaiters /\ WakeupOK(w) => WakeupOK(w)')
    BY <1>1, <2>1, OthersStep
  <2> QED BY <2>1, <2>2
<1>3. ASSUME NEW t \in Threads, ChangePipe(t) \/ CallbackStep(t), NEW w \in Waiting
      PROVE  WaiterTypeOK' /\ WatchOK(w)' /\ (WakeupOK(w) => WakeupOK(w)')
  BY <1>1, <1>3, ChangePipeStep, SetWokenStep, NotifyStep DEF CallbackStep
<1>4. ASSUME NEW t \in Threads, ChangePipe(t) \/ CallbackStep(t) PROVE WaiterTypeOK'
  <2>1. CASE ChangePipe(t)
    BY <1>1, <2>1, UseEffect DEF ChangePipe, WaiterTypeOK, PipeEffect
  <2>2. CASE CallbackStep(t)
    <3>1. \E w : w \in Waiting
      <4>1. CASE SetWoken(t)
        <5>1. Head(calls[t]) \in Calls
          BY <1>1, <4>1, TakeCallEffect DEF WaiterTypeOK, SetWoken
        <5> QED BY <5>1, WaiterAssumption, WaitersWatch DEF Calls
      <4>2. CASE NotifyAll(t)
        BY <1>1, <4>2 DEF WaiterTypeOK, NotifyAll, Objects
      <4> QED BY <2>2, <4>1, <4>2 DEF CallbackStep
    <3> QED BY <1>3, <2>2, <3>1
  <2> QED BY <1>4, <2>1, <2>2
<1>5. CASE UNCHANGED waiterVars
  <2>1. /\ PipeTypeOK' /\ UNCHANGED <<localClosed, calls, pc, woken, notified, expired, notifying>>
        /\ \A e \in Ends : QuerySignals(e)' = QuerySignals(e)
        /\ \A e \in Ends : \A r : Registered(e, r)' <=> Registered(e, r)
    BY <1>1, <1>5, WaiterPipeUnchanged DEF waiterVars, WaiterTypeOK
  <2>2. WaiterTypeOK'
    BY <1>1, <2>1 DEF WaiterTypeOK
  <2>3. ASSUME NEW w \in Waiting
        PROVE  WatchOK(w)' /\ (WakeupOK(w) => WakeupOK(w)')
    <3>1. EndOf[w] \in Ends
      BY WaiterAssumption, WaitersWatch
    <3>2. IsDue(w)' <=> IsDue(w)
      BY <2>1, <3>1 DEF IsDue, State, Fires, IsSatisfied, IsUnsatisfiable
    <3>3. \A u : OwesAny(u, w)' <=> OwesAny(u, w)
      BY <2>1 DEF OwesAny
    <3>4. WatchOK(w)'
      BY <1>1, <2>1, <3>1 DEF WatchOK, OnlyInside, Listening
    <3> QED BY <2>1, <3>2, <3>3, <3>4 DEF WakeupOK, DueAtLock, DueWhenParked
  <2> QED BY <2>2, <2>3
<1> QED BY <1>2, <1>3, <1>4, <1>5 DEF WaiterNext

(* No wait that has returned, by whatever exit, leaves an active           *)
(* registration on its endpoint, however waits share Waiter objects and    *)
(* whatever the threads that use the pipe do meanwhile (wait.rs).          *)
THEOREM WatchesAreCancelled == WaiterSpec => []NoLeakedWatch
<1>1. WatchInv => NoLeakedWatch
  BY DEF WatchInv, WatchOK, OnlyInside, NoLeakedWatch, Registered, In
<1>2. WaiterInit => WatchInv
  BY WaiterInitInv
<1>3. WatchInv /\ [WaiterNext]_waiterVars => WatchInv'
  BY WaiterNextInv
<1> QED BY <1>1, <1>2, <1>3, PTL DEF WaiterSpec

(* Waits that have a Waiter each lose no wakeup: one that is parked while  *)
(* its condition holds, or its endpoint is closed, has been released or    *)
(* has a callback on its way (wait.rs).                                    *)
THEOREM WakeupsAreNotLost ==
  ASSUME OwnWaiters
  PROVE  WaiterSpec => []NoLostWakeup
<1>1. WatchInv /\ WakeupInv => NoLostWakeup
  BY DEF WakeupInv, WakeupOK, DueWhenParked, IsDue, NoLostWakeup, OwesAny
<1>2. WaiterInit => WatchInv /\ WakeupInv
  BY WaiterInitInv
<1>3. WatchInv /\ WakeupInv /\ [WaiterNext]_waiterVars => (WatchInv /\ WakeupInv)'
  BY WaiterNextInv
<1> QED BY <1>1, <1>2, <1>3, PTL DEF WaiterSpec

-----------------------------------------------------------------------------
(* Traps.                                                                  *)
Results == {"OK", "FAILED_PRECONDITION", "CANCELLED"}

Events == [context : Contexts, watch : Watches, result : Results]

TypeOK ==
  /\ PipeTypeOK
  /\ triggers \in Seq(Triggers)
  /\ armed \in BOOLEAN
  /\ open \in BOOLEAN
  /\ arming \in Threads \cup {NoThread}
  /\ position \in Nat
  /\ immediate \in Seq(Events)
  /\ adding \in [Threads -> Seq(Triggers)]
  /\ cancelling \in [Threads -> Seq(Triggers)]
  /\ events \in [Threads -> Seq(Events)]
  /\ contextOf \in [Watches -> Contexts \cup {NoContext}]
  /\ covered \subseteq Watches
  /\ listening \subseteq Watches
  /\ settled \subseteq Watches
  /\ cancels \in [Watches -> Nat]
  /\ late \subseteq Watches

(* Where the CANCELLED event that a watch is still to hear of, or has      *)
(* heard of, is to be found: with its trigger (being added, in the list,   *)
(* taken out of it by remove_trigger or close), among the events to be     *)
(* delivered, or delivered.                                                *)
At(w, place, t, i) ==
  \/ /\ place = "adding" /\ t \in Threads
     /\ i \in DOMAIN adding[t] /\ adding[t][i].watch = w
  \/ /\ place = "live" /\ t = NoThread
     /\ i \in Live /\ triggers[i].watch = w
  \/ /\ place = "cancelling" /\ t \in Threads
     /\ i \in DOMAIN cancelling[t] /\ cancelling[t][i].watch = w
  \/ /\ place = "event" /\ t \in Threads /\ i \in DOMAIN events[t]
     /\ events[t][i].watch = w /\ events[t][i].result = "CANCELLED"
  \/ place = "delivered" /\ t = NoThread /\ i \in 1..cancels[w]

(* It is in one place only.                                                *)
OnePlace ==
  \A w \in Watches : \A p, q, t, u, i, j :
    At(w, p, t, i) /\ At(w, q, u, j) => p = q /\ t = u /\ i = j

(* The triggers that add_trigger has started and nobody has taken away.    *)
Active(r) == \/ \E t \in Threads : In(r, adding[t])
             \/ \E i \in Live : triggers[i] = r

Pending(w) == \E t \in Threads : OwesAny(t, w)

Cancelling(w) == \E t \in Threads : Owes(t, w, "Cancelled")

(* Such a trigger is found by its context, and listens to its endpoint,    *)
(* and no other, unless it has been closed; only then is it cancelled.     *)
ActiveOK(r) ==
  /\ contextOf[r.watch] = r.context /\ ~r.removed
  /\ \/ Registered(r.end, [watch |-> r.watch, signals |-> r.signals])
     \/ localClosed[r.end]
  /\ \A e \in Ends : \A n : Registered(e, n) /\ n.watch = r.watch => e = r.end
  /\ Cancelling(r.watch) => localClosed[r.end]

(* A watch that no add_trigger has used yet is nowhere.                    *)
Unused(w) ==
  /\ \A p, t, i : ~At(w, p, t, i)
  /\ \A e \in Ends : \A n : ~(Registered(e, n) /\ n.watch = w)
  /\ ~Pending(w)
  /\ w \notin covered \cup settled

UnusedOK == \A w \in Watches : contextOf[w] = NoContext => Unused(w)

(* A trigger on its way into the list is not one that arm has seen, nor    *)
(* one whose add_trigger has returned.                                     *)
AddingOK ==
  \A t \in Threads :
    /\ Len(adding[t]) <= 1
    /\ \A i \in DOMAIN adding[t] : adding[t][i].watch \notin covered \cup settled

(* Clients keep the contexts in use apart.                                 *)
ContextsApart ==
  \A v, w \in Watches :
    /\ contextOf[v] = contextOf[w] /\ contextOf[w] # NoContext
    /\ cancels[v] = 0 /\ cancels[w] = 0
    => v = w

(* As long as arm has found no event, every trigger that it has passed     *)
(* and that fires by now has a callback on its way.                        *)
ArmingOK ==
  /\ arming = NoThread => position = 0
  /\ immediate = <<>> =>
       \A i \in Live : i <= position /\ FiresNow(i) => Pending(triggers[i].watch)

EventOK ==
  armed => \A i \in Live :
    triggers[i].watch \in covered /\ FiresNow(i) => Pending(triggers[i].watch)

SettledOK ==
  \A i \in Live :
    localClosed[triggers[i].end] /\ triggers[i].watch \in settled =>
      Cancelling(triggers[i].watch)

ImmediateOK == \A i \in DOMAIN immediate : immediate[i].result # "CANCELLED"

Inv ==
  /\ TypeOK /\ ImmediateOK
  /\ OnePlace
  /\ \A r : Active(r) => ActiveOK(r)
  /\ UnusedOK
  /\ AddingOK
  /\ ContextsApart
  /\ ArmingOK /\ EventOK /\ SettledOK

-----------------------------------------------------------------------------
(* The pipe, as traps see it, does not change; its watchers may.           *)
SignalsSame ==
  /\ PipeTypeOK'
  /\ UNCHANGED <<localClosed, calls>>
  /\ \A e \in Ends : QuerySignals(e)' = QuerySignals(e)

PipeSame ==
  /\ SignalsSame
  /\ \A e \in Ends : \A r : Registered(e, r)' <=> Registered(e, r)

LEMMA PipeUnchanged ==
  ASSUME PipeTypeOK, UNCHANGED pipeVars
  PROVE  PipeSame
BY DEF pipeVars, PipeTypeOK, QuerySignals, Registered, SignalsSame, PipeSame

(* Each place, by itself.                                                  *)
LEMMA Places ==
  ASSUME NEW w, NEW t, NEW i
  PROVE  /\ \A p : At(w, p, t, i) =>
              p \in {"adding", "live", "cancelling", "event", "delivered"}
         /\ At(w, "adding", t, i) <=> /\ t \in Threads /\ i \in DOMAIN adding[t]
                                      /\ adding[t][i].watch = w
         /\ At(w, "live", t, i) <=> /\ t = NoThread /\ i \in Live
                                    /\ triggers[i].watch = w
         /\ At(w, "cancelling", t, i) <=> /\ t \in Threads /\ i \in DOMAIN cancelling[t]
                                          /\ cancelling[t][i].watch = w
         /\ At(w, "event", t, i) <=> /\ t \in Threads /\ i \in DOMAIN events[t]
                                     /\ events[t][i].watch = w
                                     /\ events[t][i].result = "CANCELLED"
         /\ At(w, "delivered", t, i) <=> t = NoThread /\ i \in 1..cancels[w]
BY DEF At

LEMMA PlacesNext ==
  ASSUME NEW w, NEW t, NEW i
  PROVE  /\ \A p : At(w, p, t, i)' =>
              p \in {"adding", "live", "cancelling", "event", "delivered"}
         /\ At(w, "adding", t, i)' <=> /\ t \in Threads /\ i \in DOMAIN adding'[t]
                                       /\ adding'[t][i].watch = w
         /\ At(w, "live", t, i)' <=> /\ t = NoThread /\ i \in Live'
                                     /\ triggers'[i].watch = w
         /\ At(w, "cancelling", t, i)' <=> /\ t \in Threads /\ i \in DOMAIN cancelling'[t]
                                           /\ cancelling'[t][i].watch = w
         /\ At(w, "event", t, i)' <=> /\ t \in Threads /\ i \in DOMAIN events'[t]
                                      /\ events'[t][i].watch = w
                                      /\ events'[t][i].result = "CANCELLED"
         /\ At(w, "delivered", t, i)' <=> t = NoThread /\ i \in 1..cancels'[w]
BY DEF At, Live

(* What a step leaves where it is.                                         *)
LEMMA PlacesKept ==
  ASSUME NEW w, NEW p, NEW t, NEW i, At(w, p, t, i)',
         p = "adding" => adding' = adding,
         p = "live" => triggers' = triggers,
         p = "cancelling" => cancelling' = cancelling,
         p = "event" => events' = events,
         p = "delivered" => cancels' = cancels
  PROVE  At(w, p, t, i)
BY DEF At, Live

(* A token that moves: wherever the CANCELLED of a watch is after the      *)
(* step, it was there before, or it has come from a place it has left.     *)
Moves(w, p, t, i, q, u, j) ==
  /\ At(w, p, t, i)
  /\ \A v \in Watches : \A r, s, k :
       At(v, r, s, k)' => \/ At(v, r, s, k) /\ ~(v = w /\ r = p /\ s = t /\ k = i)
                          \/ v = w /\ r = q /\ s = u /\ k = j

LEMMA MovedOnce ==
  ASSUME OnePlace, NEW w, NEW p, NEW t, NEW i, NEW q, NEW u, NEW j,
         Moves(w, p, t, i, q, u, j)
  PROVE  OnePlace'
<1> SUFFICES ASSUME NEW v \in Watches, NEW a, NEW b, NEW x, NEW y, NEW m, NEW n,
                    At(v, a, x, m)', At(v, b, y, n)'
             PROVE  a = b /\ x = y /\ m = n
  BY DEF OnePlace
<1>1. \/ At(v, a, x, m) /\ ~(v = w /\ a = p /\ x = t /\ m = i)
      \/ v = w /\ a = q /\ x = u /\ m = j
  BY DEF Moves
<1>2. \/ At(v, b, y, n) /\ ~(v = w /\ b = p /\ y = t /\ n = i)
      \/ v = w /\ b = q /\ y = u /\ n = j
  BY DEF Moves
<1>3. v = w => ~(At(v, a, x, m) /\ ~(v = w /\ a = p /\ x = t /\ m = i))
  BY DEF Moves, OnePlace
<1>4. v = w => ~(At(v, b, y, n) /\ ~(v = w /\ b = p /\ y = t /\ n = i))
  BY DEF Moves, OnePlace
<1>5. CASE v = w
  BY <1>1, <1>2, <1>3, <1>4, <1>5
<1>6. CASE v # w
  BY <1>1, <1>2, <1>6 DEF OnePlace
<1> QED BY <1>5, <1>6

(* A step that makes nothing new.                                          *)
Fewer == \A v \in Watches : \A r, s, k : At(v, r, s, k)' => At(v, r, s, k)

LEMMA FewerOnce ==
  ASSUME OnePlace, Fewer
  PROVE  OnePlace'
BY DEF OnePlace, Fewer

(* The parts of the invariant that follow from little.                     *)
LEMMA ActiveKept ==
  ASSUME PipeSame, contextOf' = contextOf, TypeOK,
         \A r : Active(r) => ActiveOK(r),
         \A r : Active(r)' => Active(r)
  PROVE  \A r : Active(r)' => ActiveOK(r)'
<1> SUFFICES ASSUME NEW r, Active(r)'
             PROVE  ActiveOK(r)'
  OBVIOUS
<1>1. Active(r) /\ ActiveOK(r)
  OBVIOUS
<1>2. r \in Triggers
  BY <1>1 DEF Active, In, TypeOK, Live
<1>3. r.end \in Ends
  BY <1>2 DEF Triggers
<1>4. Cancelling(r.watch)' <=> Cancelling(r.watch)
  BY DEF Cancelling, Owes, PipeSame, SignalsSame
<1> QED BY <1>1, <1>3, <1>4 DEF ActiveOK, PipeSame, SignalsSame

LEMMA UnusedKept ==
  ASSUME PipeSame, contextOf' = contextOf, UnusedOK,
         \A v \in Watches : \A r, s, k :
           At(v, r, s, k)' => \E q, u, j : At(v, q, u, j),
         \A v \in Watches : v \in (covered \cup settled)' =>
           v \in covered \cup settled \/ contextOf[v] # NoContext
  PROVE  UnusedOK'
<1> SUFFICES ASSUME NEW w \in Watches, contextOf[w] = NoContext
             PROVE  Unused(w)'
  BY DEF UnusedOK
<1>1. Unused(w)
  BY DEF UnusedOK
<1>2. ~Pending(w)'
  BY <1>1 DEF Unused, Pending, OwesAny, PipeSame, SignalsSame
<1>3. \A p, t, i : ~At(w, p, t, i)'
  BY <1>1 DEF Unused
<1>4. \A e \in Ends : \A n : ~(Registered(e, n)' /\ n.watch = w)
  BY <1>1 DEF Unused, PipeSame
<1>5. w \notin (covered \cup settled)'
  BY <1>1 DEF Unused
<1> QED BY <1>2, <1>3, <1>4, <1>5 DEF Unused

LEMMA ApartKept ==
  ASSUME ContextsApart, contextOf' = contextOf,
         \A w \in Watches : cancels'[w] = 0 => cancels[w] = 0
  PROVE  ContextsApart'
BY DEF ContextsApart

LEMMA CallsKept ==
  ASSUME calls' = calls
  PROVE  /\ \A w : Pending(w)' <=> Pending(w)
         /\ \A w : Cancelling(w)' <=> Cancelling(w)
BY DEF Pending, Cancelling, OwesAny, Owes

LEMMA LiveType ==
  ASSUME TypeOK, NEW i \in Live
  PROVE  /\ i \in 1..Len(triggers) /\ triggers[i] \in Triggers
         /\ triggers[i].end \in Ends /\ triggers[i].watch \in Watches
         /\ triggers[i].signals \in Interests /\ triggers[i].context \in Contexts
         /\ ~triggers[i].removed
<1>1. triggers \in Seq(Triggers)
  BY DEF TypeOK
<1>2. i \in 1..Len(triggers) /\ ~triggers[i].removed
  BY <1>1 DEF Live
<1>3. triggers[i] \in Triggers
  BY <1>1, <1>2
<1> QED BY <1>2, <1>3 DEF Triggers

(* Live triggers: which are left, and that they are as they were.          *)
LiveKept ==
  \A i \in Live' : i \in Live /\ triggers'[i] = triggers[i]

LEMMA FiresKept ==
  ASSUME TypeOK, SignalsSame, LiveKept
  PROVE  \A i \in Live' : FiresNow(i)' <=> FiresNow(i)
<1> SUFFICES ASSUME NEW i \in Live'
             PROVE  FiresNow(i)' <=> FiresNow(i)
  OBVIOUS
<1>1. i \in Live /\ triggers'[i] = triggers[i]
  BY DEF LiveKept
<1>2. PICK e \in Ends : e = triggers[i].end
  BY <1>1, LiveType
<1>3. QuerySignals(e)' = QuerySignals(e)
  BY DEF SignalsSame
<1>4. FiresNow(i) <=> Fires(QuerySignals(e), triggers[i].signals)
  BY <1>2 DEF FiresNow
<1>5. FiresNow(i)' <=> Fires(QuerySignals(e), triggers[i].signals)'
  BY <1>1, <1>2 DEF FiresNow, Fires, IsSatisfied, IsUnsatisfiable, QuerySignals
<1> QED BY <1>1, <1>3, <1>4, <1>5 DEF Fires, IsSatisfied, IsUnsatisfiable

(* A trap whose triggers and callbacks are as they were, or fewer.         *)
LEMMA EventKept ==
  ASSUME TypeOK, SignalsSame, LiveKept, EventOK, armed' => armed, covered' = covered
  PROVE  EventOK'
<1> SUFFICES ASSUME armed', NEW i \in Live', triggers'[i].watch \in covered,
                    FiresNow(i)'
             PROVE  Pending(triggers[i].watch)'
  BY DEF EventOK
<1>1. i \in Live /\ triggers'[i] = triggers[i] /\ FiresNow(i)
  BY FiresKept DEF LiveKept
<1>2. PICK w : w = triggers[i].watch
  OBVIOUS
<1>3. Pending(w)
  BY <1>1, <1>2 DEF EventOK
<1>4. Pending(w)'
  BY <1>3 DEF SignalsSame, Pending, OwesAny
<1> QED BY <1>1, <1>2, <1>4 DEF Pending, OwesAny

LEMMA SettledKept ==
  ASSUME TypeOK, SignalsSame, LiveKept, SettledOK, settled' = settled
  PROVE  SettledOK'
<1> SUFFICES ASSUME NEW i \in Live', localClosed'[triggers'[i].end],
                    triggers'[i].watch \in settled
             PROVE  Cancelling(triggers[i].watch)'
  BY DEF SettledOK
<1>1. i \in Live /\ triggers'[i] = triggers[i]
  BY DEF LiveKept
<1>2. PICK w : w = triggers[i].watch
  OBVIOUS
<1>3. Cancelling(w)
  BY <1>1, <1>2 DEF SettledOK, SignalsSame
<1>4. Cancelling(w)'
  BY <1>3 DEF SignalsSame, Cancelling, Owes
<1> QED BY <1>1, <1>2, <1>4 DEF Cancelling, Owes

LEMMA ArmingKept ==
  ASSUME TypeOK, SignalsSame, UNCHANGED <<triggers, arming, position, immediate>>, ArmingOK
  PROVE  ArmingOK'
<1>1. LiveKept /\ Live' = Live
  BY DEF LiveKept, Live
<1> SUFFICES ASSUME immediate = <<>>, NEW i \in Live, i <= position, FiresNow(i)'
             PROVE  Pending(triggers[i].watch)'
  BY <1>1 DEF ArmingOK
<1>2. FiresNow(i)
  BY <1>1, FiresKept
<1>3. Pending(triggers[i].watch)
  BY <1>2 DEF ArmingOK
<1> QED BY <1>3 DEF SignalsSame, Pending, OwesAny

-----------------------------------------------------------------------------
LEMMA InitInv == Init => Inv
<1> SUFFICES ASSUME Init PROVE Inv
  OBVIOUS
<1>1. TypeOK
  <2>1. PipeTypeOK
    BY PipeInitType DEF Init
  <2>2. <<>> \in Seq(Triggers) /\ <<>> \in Seq(Events)
    OBVIOUS
  <2> QED BY <2>1, <2>2 DEF Init, TypeOK
<1>2. /\ triggers = <<>> /\ Live = {} /\ DOMAIN immediate = {}
      /\ \A t \in Threads : DOMAIN adding[t] = {} /\ Len(adding[t]) = 0
      /\ \A t \in Threads : DOMAIN cancelling[t] = {}
      /\ \A t \in Threads : DOMAIN events[t] = {}
      /\ \A w \in Watches : cancels[w] = 0 /\ contextOf[w] = NoContext
      /\ \A t \in Threads : DOMAIN calls[t] = {}
      /\ \A e \in Ends : DOMAIN watchers[e] = {}
      /\ covered = {} /\ settled = {}
  BY DEF Init, PipeInit, Live
<1>3. \A w \in Watches : \A p, t, i : ~At(w, p, t, i)
  BY <1>2 DEF At
<1>4. OnePlace
  BY <1>3 DEF OnePlace
<1>5. \A r : ~Active(r)
  BY <1>2 DEF Active, In
<1>6. \A w : ~Pending(w)
  BY <1>2 DEF Pending, OwesAny
<1>7. UnusedOK
  BY <1>2, <1>3, <1>6 DEF UnusedOK, Unused, Registered, In
<1>8. AddingOK /\ ContextsApart /\ ImmediateOK /\ SettledOK
  BY <1>2 DEF AddingOK, ContextsApart, ImmediateOK, SettledOK
<1>9. ArmingOK /\ EventOK
  BY <1>2 DEF Init, ArmingOK, EventOK
<1> QED BY <1>1, <1>4, <1>5, <1>7, <1>8, <1>9 DEF Inv

LEMMA LiveActive ==
  ASSUME Inv, NEW i \in Live
  PROVE  ActiveOK(triggers[i])
BY DEF Inv, Active

(* A write, read or close.  What the registrations promise reaches the     *)
(* triggers.                                                               *)
LEMMA UseStep ==
  ASSUME Inv, NEW t \in Threads, UsePipe(t)
  PROVE  Inv'
<1> USE DEF Inv
<1>1. /\ UNCHANGED <<triggers, open, armVars, taskVars, contextOf, history>>
      /\ PipeEffect(t)
  BY UseEffect DEF UsePipe, TypeOK
<1>2. /\ UNCHANGED <<triggers, open, armed, arming, position, immediate, adding,
                     cancelling, events, contextOf, covered, listening, settled,
                     cancels, late>>
      /\ PipeTypeOK' /\ Live' = Live
  BY <1>1 DEF armVars, taskVars, history, PipeEffect, Live
<1>3. TypeOK' /\ ImmediateOK' /\ AddingOK' /\ ContextsApart'
  BY <1>2 DEF TypeOK, ImmediateOK, AddingOK, ContextsApart
<1>4. /\ \A w, p, u, i : At(w, p, u, i)' <=> At(w, p, u, i)
      /\ \A r : Active(r)' <=> Active(r)
  BY <1>2 DEF At, Active
<1>5. OnePlace'
  BY <1>4, FewerOnce DEF Fewer
<1>6. \A w : /\ Pending(w) => Pending(w)'
             /\ Cancelling(w) => Cancelling(w)'
  BY <1>1 DEF PipeEffect, Pending, Cancelling, OwesAny, Owes
<1>7. \A w : Pending(w)' =>
        Pending(w) \/ \E e \in Ends : \E n : Registered(e, n) /\ n.watch = w
  <2> SUFFICES ASSUME NEW w, NEW u \in Threads, OwesAny(u, w)', ~Pending(w)
               PROVE  \E e \in Ends : \E n : Registered(e, n) /\ n.watch = w
    BY DEF Pending
  <2>1. PICK i \in DOMAIN calls'[u] : calls'[u][i].watch = w
    BY DEF OwesAny
  <2>2. u = t
    BY <1>1, <2>1 DEF PipeEffect, Pending, OwesAny
  <2>3. SpeaksTo(t, i)
    BY <1>1, <2>1, <2>2 DEF PipeEffect
  <2> QED BY <2>1, <2>2, <2>3 DEF SpeaksTo
<1>8. \A w : Cancelling(w)' =>
        \/ Cancelling(w)
        \/ \E e \in Ends : \E n : Registered(e, n) /\ n.watch = w /\ localClosed'[e]
  <2> SUFFICES ASSUME NEW w, NEW u \in Threads, Owes(u, w, "Cancelled")', ~Cancelling(w)
               PROVE  \E e \in Ends : \E n :
                        Registered(e, n) /\ n.watch = w /\ localClosed'[e]
    BY DEF Cancelling
  <2>1. PICK i \in DOMAIN calls'[u] : /\ calls'[u][i].watch = w
                                     /\ calls'[u][i].kind = "Cancelled"
    BY DEF Owes
  <2>2. u = t
    BY <1>1, <2>1 DEF PipeEffect, Cancelling, Owes
  <2>3. SpeaksTo(t, i)
    BY <1>1, <2>1, <2>2 DEF PipeEffect
  <2> QED BY <2>1, <2>2, <2>3 DEF SpeaksTo
<1>9. ASSUME NEW r, Active(r) PROVE ActiveOK(r)'
  <2>1. ActiveOK(r) /\ r \in Triggers
    BY <1>9 DEF Active, In, TypeOK, Live
  <2>2. r.end \in Ends
    BY <2>1 DEF Triggers
  <2>3. \A e \in Ends : localClosed[e] => localClosed'[e]
    BY <1>1 DEF PipeEffect, Unchanging
  <2>4. \/ Registered(r.end, [watch |-> r.watch, signals |-> r.signals])'
        \/ localClosed'[r.end]
    <3> DEFINE e == r.end
               n == [watch |-> r.watch, signals |-> r.signals]
    <3>1. e \in Ends /\ (Registered(e, n) \/ localClosed[e])
      BY <2>1, <2>2 DEF ActiveOK
    <3> HIDE DEF e, n
    <3>2. Registered(e, n)' \/ localClosed'[e]
      BY <1>1, <2>3, <3>1 DEF PipeEffect, Persists
    <3> QED BY <3>2 DEF e, n
  <2>5. \A e \in Ends : \A n : Registered(e, n)' => Registered(e, n)
    BY <1>1 DEF PipeEffect, Persists
  <2>6. Cancelling(r.watch)' => localClosed'[r.end]
    BY <1>8, <2>1, <2>2, <2>3 DEF ActiveOK
  <2> QED BY <1>2, <2>1, <2>4, <2>5, <2>6 DEF ActiveOK
<1>10. UnusedOK'
  <2> SUFFICES ASSUME NEW w \in Watches, contextOf[w] = NoContext
               PROVE  Unused(w)'
    BY <1>2 DEF UnusedOK
  <2>1. Unused(w)
    BY DEF UnusedOK
  <2>2. \A e \in Ends : \A n : Registered(e, n)' => Registered(e, n)
    BY <1>1 DEF PipeEffect, Persists
  <2> QED BY <1>2, <1>4, <1>7, <2>1, <2>2 DEF Unused
<1>11. ASSUME NEW i \in Live, FiresNow(i)'
       PROVE  FiresNow(i) \/ Pending(triggers[i].watch)'
  <2>0. PICK e, w, s, n : /\ e = triggers[i].end /\ w = triggers[i].watch
                          /\ s = triggers[i].signals
                          /\ n = [watch |-> w, signals |-> s]
    OBVIOUS
  <2>1. e \in Ends /\ (Registered(e, n) \/ localClosed[e])
    BY <2>0, LiveType, LiveActive DEF ActiveOK
  <2>2. n.watch = w /\ n.signals = s /\ triggers' = triggers
    BY <1>2, <2>0
  <2>3. Fires(QuerySignals(e), s)'
    BY <1>11, <2>0, <2>2 DEF FiresNow, QuerySignals, Fires, IsSatisfied, IsUnsatisfiable
  <2>4. FiresNow(i) <=> Fires(QuerySignals(e), s)
    BY <2>0 DEF FiresNow
  <2>5. Unchanging(e) /\ Informs(t, e)
    BY <1>1, <2>1 DEF PipeEffect
  <2>6. CASE QuerySignals(e)' = QuerySignals(e)
    BY <2>3, <2>4, <2>6 DEF Fires, IsSatisfied, IsUnsatisfiable
  <2>7. CASE QuerySignals(e)' # QuerySignals(e)
    <3>1. Registered(e, n)
      BY <2>1, <2>5, <2>7 DEF Unchanging
    <3>2. Fires(QuerySignals(e), n.signals)'
      BY <2>2, <2>3
    <3>3. OwesAny(t, n.watch)'
      BY <2>5, <2>7, <3>1, <3>2 DEF Informs
    <3> QED BY <2>0, <2>2, <3>3 DEF Pending, OwesAny
  <2> QED BY <2>6, <2>7
<1>12. ArmingOK' /\ EventOK'
  <2>1. ASSUME NEW i \in Live, FiresNow(i)', Pending(triggers[i].watch) \/ ~FiresNow(i)
        PROVE  Pending(triggers[i].watch)'
    <3>1. CASE FiresNow(i)
      <4>1. PICK w : w = triggers[i].watch /\ w = triggers'[i].watch
        BY <1>2
      <4>2. Pending(w)'
        BY <1>6, <2>1, <3>1, <4>1
      <4> QED BY <4>1, <4>2 DEF Pending, OwesAny
    <3> QED BY <1>11, <2>1, <3>1
  <2> QED BY <1>2, <2>1 DEF ArmingOK, EventOK
<1>13. SettledOK'
  <2> SUFFICES ASSUME NEW i \in Live, localClosed'[triggers[i].end],
                      triggers[i].watch \in settled
               PROVE  Cancelling(triggers[i].watch)'
    BY <1>2 DEF SettledOK
  <2>0. PICK e, w, n : /\ e = triggers[i].end /\ w = triggers[i].watch
                       /\ n = [watch |-> w, signals |-> triggers[i].signals]
    OBVIOUS
  <2>1. /\ e \in Ends /\ (Registered(e, n) \/ localClosed[e])
        /\ n.watch = w /\ w = triggers'[i].watch /\ localClosed'[e]
    BY <1>2, <2>0, LiveType, LiveActive DEF ActiveOK
  <2>2. localClosed[e] => Cancelling(w)
    BY <2>0 DEF SettledOK
  <2>3. Informs(t, e)
    BY <1>1, <2>1 DEF PipeEffect
  <2>4. Cancelling(w)'
    <3>1. CASE localClosed[e]
      BY <1>6, <2>2, <3>1
    <3>2. CASE ~localClosed[e]
      <4>1. Owes(t, n.watch, "Cancelled")'
        BY <2>1, <2>3, <3>2 DEF Informs
      <4> QED BY <2>1, <4>1 DEF Cancelling
    <3> QED BY <3>1, <3>2
  <2> QED BY <2>1, <2>4 DEF Cancelling, Owes
<1> QED BY <1>3, <1>4, <1>5, <1>9, <1>10, <1>12, <1>13

-----------------------------------------------------------------------------
(* add_trigger begins with a watch and a context that are not in use.      *)
LEMMA AddStep ==
  ASSUME Inv, NEW t \in Threads, AddTrigger(t)
  PROVE  Inv'
<1>0. /\ TypeOK /\ ImmediateOK /\ OnePlace /\ UnusedOK /\ AddingOK
      /\ ContextsApart /\ ArmingOK /\ EventOK /\ SettledOK
      /\ \A r : Active(r) => ActiveOK(r)
  BY DEF Inv
<1>1. PICK w \in Watches, e \in Ends, s \in Interests, c \in Contexts \ UsedContexts :
        /\ contextOf[w] = NoContext
        /\ Register(e, w, s)
        /\ contextOf' = [contextOf EXCEPT ![w] = c]
        /\ listening' = IF localClosed[e] THEN listening ELSE listening \cup {w}
        /\ adding' = [adding EXCEPT ![t] =
             <<[watch |-> w, end |-> e, signals |-> s, context |-> c,
                removed |-> FALSE]>>]
  BY DEF AddTrigger
<1>2. PICK r0 : r0 = [watch |-> w, end |-> e, signals |-> s, context |-> c,
                      removed |-> FALSE]
  OBVIOUS
<1>3. r0 \in Triggers /\ <<r0>> \in Seq(Triggers)
  BY <1>2 DEF Triggers
<1>4. /\ UNCHANGED <<triggers, open, armed, arming, position, immediate, cancelling,
                     events, covered, settled, cancels, late>>
      /\ Live' = Live
  BY DEF AddTrigger, armVars, Live
<1>5. /\ SignalsSame
      /\ \A f \in Ends : \A n :
           Registered(f, n)' <=>
             (\/ Registered(f, n)
              \/ f = e /\ ~localClosed[e] /\ n = [watch |-> w, signals |-> s])
  BY <1>0, <1>1, RegisterEffect DEF TypeOK, SignalsSame
<1>6. /\ adding' \in [Threads -> Seq(Triggers)] /\ adding'[t] = <<r0>>
      /\ \A u \in Threads \ {t} : adding'[u] = adding[u]
  BY <1>0, <1>1, <1>2, <1>3 DEF TypeOK
<1>7. /\ contextOf' \in [Watches -> Contexts \cup {NoContext}] /\ contextOf'[w] = c
      /\ \A v \in Watches \ {w} : contextOf'[v] = contextOf[v]
  BY <1>0, <1>1 DEF TypeOK
<1>8. TypeOK'
  <2>1. listening' \subseteq Watches
    BY <1>0, <1>1 DEF TypeOK
  <2> QED BY <1>0, <1>4, <1>5, <1>6, <1>7, <2>1 DEF TypeOK, SignalsSame
<1>9. Unused(w)
  BY <1>0, <1>1 DEF UnusedOK
<1>10. \A v, p, u, i : At(v, p, u, i)' =>
         At(v, p, u, i) \/ (v = w /\ p = "adding" /\ u = t /\ i = 1)
  <2> SUFFICES ASSUME NEW v, NEW p, NEW u, NEW i, At(v, p, u, i)'
               PROVE  At(v, p, u, i) \/ (v = w /\ p = "adding" /\ u = t /\ i = 1)
    OBVIOUS
  <2>1. CASE p = "adding"
    BY <1>2, <1>6, <2>1, Places, PlacesNext
  <2>2. CASE p # "adding"
    BY <1>4, <2>2, PlacesKept
  <2> QED BY <2>1, <2>2
<1>11. OnePlace'
  BY <1>0, <1>9, <1>10 DEF OnePlace, Unused
<1>12. \A r : Active(r)' => Active(r) \/ r = r0
  BY <1>4, <1>6 DEF Active, In
<1>13. \A v : /\ Pending(v)' <=> Pending(v)
              /\ Cancelling(v)' <=> Cancelling(v)
  BY <1>5, CallsKept DEF SignalsSame
<1>14. ASSUME NEW r, Active(r) PROVE ActiveOK(r)'
  <2>1. ActiveOK(r) /\ r \in Triggers
    BY <1>0, <1>14 DEF Active, In, TypeOK, Live
  <2>2. r.end \in Ends /\ r.watch \in Watches
    BY <2>1 DEF Triggers
  <2>3. r.watch # w
    BY <1>9, <1>14 DEF Unused, Active, In, At
  <2> QED BY <1>5, <1>7, <1>13, <2>1, <2>2, <2>3 DEF ActiveOK, SignalsSame
<1>15. ActiveOK(r0)'
  <2>1. \A f \in Ends : \A n : Registered(f, n)' /\ n.watch = w => f = e
    BY <1>5, <1>9 DEF Unused
  <2>2. ~Cancelling(w)'
    BY <1>9, <1>13 DEF Unused, Cancelling, Pending, Owes, OwesAny
  <2>3. Registered(e, [watch |-> w, signals |-> s])' \/ localClosed'[e]
    BY <1>5 DEF SignalsSame
  <2> QED BY <1>2, <1>7, <2>1, <2>2, <2>3 DEF ActiveOK
<1>16. UnusedOK'
  <2> SUFFICES ASSUME NEW v \in Watches, contextOf'[v] = NoContext
               PROVE  Unused(v)'
    BY DEF UnusedOK
  <2>1. v # w
    BY <1>7, TrapAssumption
  <2>2. Unused(v)
    BY <1>0, <1>7, <2>1 DEF UnusedOK
  <2>3. \A f \in Ends : \A n : ~(Registered(f, n)' /\ n.watch = v)
    BY <1>5, <2>1, <2>2 DEF Unused
  <2> QED BY <1>4, <1>10, <1>13, <2>1, <2>2, <2>3 DEF Unused
<1>17. AddingOK'
  <2>1. r0.watch \notin covered \cup settled
    BY <1>2, <1>9 DEF Unused
  <2> QED BY <1>0, <1>4, <1>6, <2>1 DEF AddingOK
<1>18. ContextsApart'
  <2>1. \A v \in Watches : contextOf[v] = c => cancels[v] # 0
    BY <1>1 DEF UsedContexts
  <2> QED BY <1>0, <1>4, <1>7, <2>1 DEF ContextsApart
<1>19. LiveKept
  BY <1>4 DEF LiveKept
<1>20. EventOK' /\ SettledOK' /\ ArmingOK'
  BY <1>0, <1>4, <1>5, <1>19, EventKept, SettledKept, ArmingKept
<1>21. ImmediateOK'
  BY <1>0, <1>4 DEF ImmediateOK
<1> QED BY <1>8, <1>11, <1>12, <1>14, <1>15, <1>16, <1>17, <1>18, <1>20, <1>21 DEF Inv

(* add_trigger ends.                                                       *)
LEMMA PushStep ==
  ASSUME Inv, NEW t \in Threads, PushTrigger(t)
  PROVE  Inv'
<1>0. /\ TypeOK /\ ImmediateOK /\ OnePlace /\ UnusedOK /\ AddingOK
      /\ ContextsApart /\ ArmingOK /\ EventOK /\ SettledOK
      /\ \A r : Active(r) => ActiveOK(r)
  BY DEF Inv
<1>1. PICK r0 \in Triggers : adding[t] = <<r0>>
  <2>1. adding[t] \in Seq(Triggers) /\ adding[t] # <<>> /\ Len(adding[t]) <= 1
    BY <1>0 DEF PushTrigger, TypeOK, AddingOK
  <2>2. adding[t] = <<adding[t][1]>> /\ adding[t][1] \in Triggers
    BY <2>1
  <2> QED BY <2>2
<1> DEFINE n == Len(triggers) + 1
<1>2. /\ UNCHANGED <<open, armed, arming, position, immediate, cancelling,
                     events, contextOf, covered, listening, cancels, late>>
      /\ UNCHANGED pipeVars /\ arming = NoThread
      /\ triggers' = triggers \o <<r0>>
      /\ adding' = [adding EXCEPT ![t] = <<>>]
      /\ settled' = IF localClosed[r0.end] THEN settled ELSE settled \cup {r0.watch}
  BY <1>1 DEF PushTrigger, armVars, Unlocked
<1>3. PipeSame
  BY <1>0, <1>2, PipeUnchanged DEF TypeOK
<1>4. Active(r0) /\ ActiveOK(r0) /\ r0.end \in Ends /\ r0.watch \in Watches
  BY <1>0, <1>1 DEF Active, In, Triggers
<1>5. /\ triggers' \in Seq(Triggers) /\ Len(triggers) \in Nat
      /\ triggers'[n] = r0 /\ DOMAIN triggers = 1..Len(triggers)
      /\ DOMAIN triggers' = 1..n /\ \A i \in 1..Len(triggers) : triggers'[i] = triggers[i]
  BY <1>0, <1>2 DEF TypeOK
<1>6. /\ Live' = Live \cup {n} /\ n \notin Live
      /\ \A i \in Live : triggers'[i] = triggers[i] /\ i \in 1..Len(triggers)
  BY <1>4, <1>5 DEF Live, ActiveOK
<1>7. /\ adding' \in [Threads -> Seq(Triggers)] /\ adding'[t] = <<>>
      /\ \A u \in Threads \ {t} : adding'[u] = adding[u]
  <2>1. <<>> \in Seq(Triggers)
    OBVIOUS
  <2> QED BY <1>0, <1>2, <2>1 DEF TypeOK
<1> HIDE DEF n
<1>8. TypeOK'
  <2>1. settled' \subseteq Watches
    BY <1>0, <1>2, <1>4 DEF TypeOK
  <2> QED BY <1>0, <1>2, <1>3, <1>5, <1>7, <2>1 DEF TypeOK, PipeSame, SignalsSame
<1>9. Moves(r0.watch, "adding", t, 1, "live", NoThread, n)
  <2>1. At(r0.watch, "adding", t, 1)
    BY <1>1, Places
  <2> SUFFICES ASSUME NEW v \in Watches, NEW p, NEW u, NEW i, At(v, p, u, i)'
               PROVE  \/ /\ At(v, p, u, i)
                         /\ ~(v = r0.watch /\ p = "adding" /\ u = t /\ i = 1)
                      \/ v = r0.watch /\ p = "live" /\ u = NoThread /\ i = n
    BY <2>1 DEF Moves
  <2>2. CASE p = "adding"
    BY <1>7, <2>2, Places, PlacesNext
  <2>3. CASE p = "live"
    BY <1>5, <1>6, <2>3, Places, PlacesNext
  <2>4. CASE p \notin {"adding", "live"}
    BY <1>2, <2>4, PlacesKept
  <2> QED BY <2>2, <2>3, <2>4
<1>10. OnePlace'
  BY <1>0, <1>9, MovedOnce
<1>11. \A r : Active(r)' => Active(r)
  <2> SUFFICES ASSUME NEW r, Active(r)' PROVE Active(r)
    OBVIOUS
  <2>1. CASE \E u \in Threads : In(r, adding[u])'
    BY <1>7, <2>1 DEF Active, In
  <2>2. CASE \E i \in Live' : triggers'[i] = r
    BY <1>4, <1>5, <1>6, <2>2 DEF Active
  <2> QED BY <2>1, <2>2 DEF Active
<1>12. \A r : Active(r)' => ActiveOK(r)'
  BY <1>0, <1>2, <1>3, <1>11, ActiveKept
<1>13. contextOf[r0.watch] # NoContext
  <2>1. r0.context \in Contexts
    BY DEF Triggers
  <2> QED BY <1>4, <2>1, TrapAssumption DEF ActiveOK
<1>14. UnusedOK'
  <2>1. \A v \in Watches : \A p, u, i : At(v, p, u, i)' => \E q, x, j : At(v, q, x, j)
    BY <1>9 DEF Moves
  <2>2. \A v \in Watches : v \in (covered \cup settled)' =>
          v \in covered \cup settled \/ contextOf[v] # NoContext
    BY <1>2, <1>13
  <2> QED BY <1>0, <1>2, <1>3, <2>1, <2>2, UnusedKept
<1>15. AddingOK'
  <2> SUFFICES ASSUME NEW u \in Threads
               PROVE  /\ Len(adding'[u]) <= 1
                      /\ \A i \in DOMAIN adding'[u] :
                           adding'[u][i].watch \notin covered' \cup settled'
    BY DEF AddingOK
  <2>1. CASE u = t
    BY <1>7, <2>1
  <2>2. CASE u # t
    <3>1. \A i \in DOMAIN adding[u] : At(adding[u][i].watch, "adding", u, i)
      BY Places
    <3>2. At(r0.watch, "adding", t, 1)
      BY <1>9 DEF Moves
    <3>3. \A i \in DOMAIN adding[u] : adding[u][i].watch # r0.watch
      BY <1>0, <1>4, <2>2, <3>1, <3>2 DEF OnePlace
    <3> QED BY <1>0, <1>2, <1>7, <2>2, <3>3 DEF AddingOK
  <2> QED BY <2>1, <2>2
<1>16. r0.watch \notin covered \cup settled
  BY <1>0, <1>1 DEF AddingOK
<1>17. ASSUME NEW i \in Live PROVE triggers[i].watch # r0.watch
  <2>1. At(triggers[i].watch, "live", NoThread, i) /\ At(r0.watch, "adding", t, 1)
    BY <1>9, Places DEF Moves
  <2> QED BY <1>0, <1>4, <2>1 DEF OnePlace
<1>18. EventOK'
  <2> SUFFICES ASSUME armed, NEW i \in Live', triggers'[i].watch \in covered, FiresNow(i)'
               PROVE  Pending(triggers[i].watch)'
    BY <1>2 DEF EventOK
  <2>1. i \in Live
    BY <1>5, <1>6, <1>16
  <2>2. PICK e \in Ends, w \in Watches : e = triggers[i].end /\ w = triggers[i].watch
    BY <1>0, <2>1, LiveType
  <2>3. FiresNow(i)
    <3>1. QuerySignals(e)' = QuerySignals(e)
      BY <1>3 DEF PipeSame, SignalsSame
    <3>2. FiresNow(i)' <=> Fires(QuerySignals(e), triggers[i].signals)'
      BY <1>6, <2>1, <2>2 DEF FiresNow, QuerySignals, Fires, IsSatisfied, IsUnsatisfiable
    <3>3. triggers'[i] = triggers[i]
      BY <1>6, <2>1
    <3> QED BY <2>2, <3>1, <3>2, <3>3 DEF FiresNow, Fires, IsSatisfied, IsUnsatisfiable
  <2>4. Pending(w)
    BY <1>0, <1>6, <2>1, <2>2, <2>3 DEF EventOK
  <2>5. Pending(w)' /\ w = triggers'[i].watch
    BY <1>3, <1>6, <2>1, <2>2, <2>4, CallsKept DEF PipeSame, SignalsSame
  <2> QED BY <2>5 DEF Pending, OwesAny
<1>19. SettledOK'
  <2> SUFFICES ASSUME NEW i \in Live', localClosed'[triggers'[i].end],
                      triggers'[i].watch \in settled'
               PROVE  Cancelling(triggers[i].watch)'
    BY DEF SettledOK
  <2>1. localClosed' = localClosed
    BY <1>3 DEF PipeSame, SignalsSame
  <2>2. i \in Live
    BY <1>2, <1>5, <1>6, <1>16, <2>1
  <2>3. PICK w : w = triggers[i].watch /\ w = triggers'[i].watch
    BY <1>6, <2>2
  <2>4. w \in settled /\ localClosed[triggers[i].end]
    BY <1>2, <1>6, <1>17, <2>1, <2>2, <2>3
  <2>5. Cancelling(w)
    BY <1>0, <2>2, <2>3, <2>4 DEF SettledOK
  <2>6. Cancelling(w)'
    BY <1>3, <2>5, CallsKept DEF PipeSame, SignalsSame
  <2> QED BY <2>3, <2>6 DEF Cancelling, Owes
<1>20. ArmingOK'
  <2>1. position' = 0 /\ \A i \in Live' : ~(i <= 0)
    BY <1>0, <1>2, <1>5, <1>6 DEF ArmingOK, Live, TypeOK, n
  <2> QED BY <1>2, <2>1 DEF ArmingOK
<1>21. ImmediateOK' /\ ContextsApart'
  BY <1>0, <1>2 DEF ImmediateOK, ContextsApart
<1> QED BY <1>8, <1>10, <1>12, <1>14, <1>15, <1>18, <1>19, <1>20, <1>21 DEF Inv

-----------------------------------------------------------------------------
(* A trigger that is still there has a context of its own.                 *)
LEMMA ActiveKnown ==
  ASSUME Inv, NEW r, Active(r)
  PROVE  /\ r \in Triggers /\ r.watch \in Watches /\ r.end \in Ends
         /\ ActiveOK(r) /\ contextOf[r.watch] # NoContext
<1>1. r \in Triggers /\ ActiveOK(r)
  BY DEF Inv, Active, In, TypeOK, Live
<1>2. r.context \in Contexts /\ r.watch \in Watches /\ r.end \in Ends
  BY <1>1 DEF Triggers
<1> QED BY <1>1, <1>2, TrapAssumption DEF ActiveOK

LEMMA ActiveAt ==
  ASSUME NEW r, Active(r)
  PROVE  \E p, t, i : p \in {"adding", "live"} /\ At(r.watch, p, t, i)
<1>1. CASE \E t \in Threads : In(r, adding[t])
  BY <1>1, Places DEF In
<1>2. CASE \E i \in Live : triggers[i] = r
  BY <1>2, Places
<1> QED BY <1>1, <1>2 DEF Active

LEMMA EventType ==
  ASSUME NEW r \in Triggers, NEW result \in Results
  PROVE  /\ Event(r, result) \in Events
         /\ Event(r, result).watch = r.watch /\ Event(r, result).result = result
BY DEF Event, Events, Triggers

(* A trigger is taken out of the list: by remove_trigger, or by on_watch.  *)
LEMMA LiveRemoved ==
  ASSUME TypeOK, NEW i0 \in Live, triggers' = [triggers EXCEPT ![i0].removed = TRUE]
  PROVE  triggers' \in Seq(Triggers) /\ Live' = Live \ {i0} /\ LiveKept
<1>1. triggers \in Seq(Triggers) /\ i0 \in 1..Len(triggers) /\ triggers[i0] \in Triggers
  BY LiveType DEF TypeOK
<1>2. PICK r : r = [triggers[i0] EXCEPT !.removed = TRUE]
  OBVIOUS
<1>3. r \in Triggers /\ r.removed
  BY <1>1, <1>2 DEF Triggers
<1>4. triggers' = [triggers EXCEPT ![i0] = r]
  BY <1>1, <1>2
<1>5. /\ triggers' \in Seq(Triggers) /\ DOMAIN triggers' = DOMAIN triggers
      /\ triggers'[i0] = r
      /\ \A i \in DOMAIN triggers \ {i0} : triggers'[i] = triggers[i]
  <2>1. /\ [triggers EXCEPT ![i0] = r] \in Seq(Triggers)
        /\ DOMAIN [triggers EXCEPT ![i0] = r] = DOMAIN triggers
    BY <1>1, <1>3, ExceptSeq
  <2>2. i0 \in DOMAIN triggers
    BY <1>1
  <2> QED BY <1>4, <2>1, <2>2
<1>6. Live' = Live \ {i0}
  BY <1>3, <1>5 DEF Live
<1> QED BY <1>5, <1>6 DEF LiveKept, Live

LEMMA RemoveStep ==
  ASSUME Inv, NEW t \in Threads, RemoveTrigger(t)
  PROVE  Inv'
<1>0. /\ TypeOK /\ ImmediateOK /\ OnePlace /\ UnusedOK /\ AddingOK
      /\ ContextsApart /\ ArmingOK /\ EventOK /\ SettledOK
      /\ \A r : Active(r) => ActiveOK(r)
  BY DEF Inv
<1>1. PICK i0 \in Live :
        /\ triggers' = [triggers EXCEPT ![i0].removed = TRUE]
        /\ cancelling' = [cancelling EXCEPT ![t] = <<triggers[i0]>>]
  BY DEF RemoveTrigger
<1>2. /\ UNCHANGED <<open, armed, arming, position, immediate, adding, events,
                     contextOf, covered, listening, settled, cancels, late>>
      /\ UNCHANGED pipeVars /\ arming = NoThread
  BY DEF RemoveTrigger, armVars, history, Unlocked
<1>3. PipeSame /\ SignalsSame
  BY <1>0, <1>2, PipeUnchanged DEF TypeOK, PipeSame
<1>4. triggers' \in Seq(Triggers) /\ Live' = Live \ {i0} /\ LiveKept
  BY <1>0, <1>1, LiveRemoved
<1>5. /\ triggers[i0] \in Triggers /\ <<triggers[i0]>> \in Seq(Triggers)
      /\ triggers[i0].watch \in Watches
  BY <1>0, LiveType
<1>6. /\ cancelling' \in [Threads -> Seq(Triggers)] /\ cancelling'[t] = <<triggers[i0]>>
      /\ \A u \in Threads \ {t} : cancelling'[u] = cancelling[u]
  BY <1>0, <1>1, <1>5 DEF TypeOK
<1>7. TypeOK'
  BY <1>0, <1>2, <1>3, <1>4, <1>6 DEF TypeOK, SignalsSame
<1>8. Moves(triggers[i0].watch, "live", NoThread, i0, "cancelling", t, 1)
  <2>1. At(triggers[i0].watch, "live", NoThread, i0)
    BY Places
  <2> SUFFICES ASSUME NEW v \in Watches, NEW p, NEW u, NEW i, At(v, p, u, i)'
               PROVE  \/ /\ At(v, p, u, i)
                         /\ ~(/\ v = triggers[i0].watch /\ p = "live"
                              /\ u = NoThread /\ i = i0)
                      \/ /\ v = triggers[i0].watch /\ p = "cancelling"
                         /\ u = t /\ i = 1
    BY <2>1 DEF Moves
  <2>2. CASE p = "live"
    BY <1>4, <2>2, Places, PlacesNext DEF LiveKept
  <2>3. CASE p = "cancelling"
    BY <1>6, <2>3, Places, PlacesNext
  <2>4. CASE p \notin {"live", "cancelling"}
    BY <1>2, <2>4, PlacesKept
  <2> QED BY <2>2, <2>3, <2>4
<1>9. OnePlace'
  BY <1>0, <1>8, MovedOnce
<1>10. \A r : Active(r)' => Active(r)
  BY <1>2, <1>4 DEF Active, LiveKept
<1>11. \A r : Active(r)' => ActiveOK(r)'
  BY <1>0, <1>2, <1>3, <1>10, ActiveKept
<1>12. UnusedOK'
  <2>1. \A v \in Watches : \A p, u, i : At(v, p, u, i)' => \E q, x, j : At(v, q, x, j)
    BY <1>8 DEF Moves
  <2> QED BY <1>0, <1>2, <1>3, <2>1, UnusedKept
<1>13. EventOK' /\ SettledOK'
  BY <1>0, <1>2, <1>3, <1>4, EventKept, SettledKept
<1>14. ArmingOK'
  <2>1. position' = 0 /\ \A i \in Live' : ~(i <= 0)
    BY <1>0, <1>2, <1>4 DEF ArmingOK, Live, TypeOK
  <2> QED BY <1>2, <2>1 DEF ArmingOK
<1>15. ImmediateOK' /\ ContextsApart' /\ AddingOK'
  BY <1>0, <1>2 DEF ImmediateOK, ContextsApart, AddingOK
<1> QED BY <1>7, <1>9, <1>11, <1>12, <1>13, <1>14, <1>15 DEF Inv

(* close takes all triggers that are left, each once.                      *)
LEMMA CloseStep ==
  ASSUME Inv, NEW t \in Threads, CloseTrap(t)
  PROVE  Inv'
<1>0. /\ TypeOK /\ ImmediateOK /\ OnePlace /\ UnusedOK /\ AddingOK
      /\ ContextsApart /\ ArmingOK /\ EventOK /\ SettledOK
      /\ \A r : Active(r) => ActiveOK(r)
  BY DEF Inv
<1>1. PICK left : left = Keep(triggers, {r \in Triggers : ~r.removed})
  OBVIOUS
<1>2. /\ UNCHANGED <<armed, arming, position, immediate, adding, events,
                     contextOf, covered, listening, settled, cancels, late>>
      /\ UNCHANGED pipeVars /\ arming = NoThread /\ open' = FALSE
      /\ triggers' = <<>> /\ cancelling' = [cancelling EXCEPT ![t] = left]
  BY <1>1 DEF CloseTrap, armVars, history, Unlocked
<1>3. PipeSame /\ SignalsSame
  BY <1>0, <1>2, PipeUnchanged DEF TypeOK, PipeSame
<1>4. triggers' \in Seq(Triggers) /\ Live' = {} /\ LiveKept
  BY <1>2 DEF Live, LiveKept
<1>5. /\ triggers \in Seq(Triggers) /\ left \in Seq(Triggers)
      /\ \E f : Picks(triggers, {r \in Triggers : ~r.removed}, Len(triggers), left, f)
  BY <1>0, <1>1, KeepPicks DEF TypeOK
<1>6. PICK f : Picks(triggers, {r \in Triggers : ~r.removed}, Len(triggers), left, f)
  BY <1>5
<1>7. /\ DOMAIN left = 1..Len(left)
      /\ \A j \in 1..Len(left) : f[j] \in Live /\ left[j] = triggers[f[j]]
  <2>1. DOMAIN left = 1..Len(left) /\ DOMAIN triggers = 1..Len(triggers)
    BY <1>5
  <2>2. ASSUME NEW j \in 1..Len(left)
        PROVE  f[j] \in Live /\ left[j] = triggers[f[j]]
    <3>1. f[j] \in 1..Len(triggers) /\ left[j] = triggers[f[j]]
      BY <1>6 DEF Picks
    <3>2. triggers[f[j]] \in {r \in Triggers : ~r.removed}
      BY <1>6, <3>1 DEF Picks
    <3> QED BY <2>1, <3>1, <3>2 DEF Live
  <2> QED BY <2>1, <2>2
<1>8. ASSUME NEW j \in 1..Len(left), NEW k \in 1..Len(left), f[j] = f[k] PROVE j = k
  <2>1. f[j] \in 1..Len(triggers) /\ f[k] \in 1..Len(triggers)
    BY <1>6 DEF Picks
  <2>2. (j < k => f[j] < f[k]) /\ (k < j => f[k] < f[j])
    BY <1>6 DEF Picks
  <2>3. j \in Int /\ k \in Int /\ f[j] \in Int /\ f[k] \in Int
    BY <2>1
  <2> QED BY <1>8, <2>2, <2>3
<1>9. /\ cancelling' \in [Threads -> Seq(Triggers)] /\ cancelling'[t] = left
      /\ \A u \in Threads \ {t} : cancelling'[u] = cancelling[u]
  BY <1>0, <1>2, <1>5 DEF TypeOK
<1>10. TypeOK'
  BY <1>0, <1>2, <1>3, <1>4, <1>9 DEF TypeOK, SignalsSame
<1>11. ASSUME NEW v, NEW p, NEW u, NEW i, At(v, p, u, i)'
       PROVE  /\ p # "live"
              /\ IF p = "cancelling" /\ u = t
                 THEN i \in 1..Len(left) /\ At(v, "live", NoThread, f[i])
                 ELSE At(v, p, u, i)
  <2>1. CASE p = "cancelling" /\ u = t
    <3>1. i \in 1..Len(left) /\ left[i].watch = v
      BY <1>7, <1>9, <1>11, <2>1, PlacesNext
    <3> QED BY <1>7, <2>1, <3>1, Places
  <2>2. CASE p = "cancelling" /\ u # t
    BY <1>9, <1>11, <2>2, Places, PlacesNext
  <2>3. CASE p # "cancelling"
    <3>1. p # "live"
      BY <1>4, <1>11, PlacesNext
    <3> QED BY <1>2, <1>11, <2>3, <3>1, PlacesKept
  <2> QED BY <2>1, <2>2, <2>3
<1>12. OnePlace'
  <2> SUFFICES ASSUME NEW v \in Watches, NEW p, NEW q, NEW u, NEW x, NEW i, NEW j,
                      At(v, p, u, i)', At(v, q, x, j)'
               PROVE  p = q /\ u = x /\ i = j
    BY DEF OnePlace
  <2>1. CASE p = "cancelling" /\ u = t /\ q = "cancelling" /\ x = t
    <3>1. /\ i \in 1..Len(left) /\ j \in 1..Len(left)
          /\ At(v, "live", NoThread, f[i]) /\ At(v, "live", NoThread, f[j])
      BY <1>11, <2>1
    <3>2. f[i] = f[j]
      BY <1>0, <3>1 DEF OnePlace
    <3> QED BY <1>8, <2>1, <3>1, <3>2
  <2>2. CASE ~(p = "cancelling" /\ u = t) /\ ~(q = "cancelling" /\ x = t)
    BY <1>0, <1>11, <2>2 DEF OnePlace
  <2>3. CASE p = "cancelling" /\ u = t /\ ~(q = "cancelling" /\ x = t)
    BY <1>0, <1>11, <2>3 DEF OnePlace
  <2>4. CASE ~(p = "cancelling" /\ u = t) /\ q = "cancelling" /\ x = t
    BY <1>0, <1>11, <2>4 DEF OnePlace
  <2> QED BY <2>1, <2>2, <2>3, <2>4
<1>13. \A r : Active(r)' => Active(r)
  BY <1>2, <1>4 DEF Active, LiveKept
<1>14. \A r : Active(r)' => ActiveOK(r)'
  BY <1>0, <1>2, <1>3, <1>13, ActiveKept
<1>15. UnusedOK'
  <2>1. \A v \in Watches : \A p, u, i : At(v, p, u, i)' => \E q, x, j : At(v, q, x, j)
    BY <1>11
  <2> QED BY <1>0, <1>2, <1>3, <2>1, UnusedKept
<1>16. EventOK' /\ SettledOK' /\ ArmingOK'
  BY <1>0, <1>2, <1>4 DEF EventOK, SettledOK, ArmingOK
<1>17. ImmediateOK' /\ ContextsApart' /\ AddingOK'
  BY <1>0, <1>2 DEF ImmediateOK, ContextsApart, AddingOK
<1> QED BY <1>10, <1>12, <1>14, <1>15, <1>16, <1>17 DEF Inv

(* The watch of a trigger that is gone is cancelled: no other loses its    *)
(* registration, and the CANCELLED event takes the place of the trigger.   *)
LEMMA CancelStep ==
  ASSUME Inv, NEW t \in Threads, CancelNext(t)
  PROVE  Inv'
<1>0. /\ TypeOK /\ ImmediateOK /\ OnePlace /\ UnusedOK /\ AddingOK
      /\ ContextsApart /\ ArmingOK /\ EventOK /\ SettledOK
      /\ \A r : Active(r) => ActiveOK(r)
  BY DEF Inv
<1>1. cancelling[t] \in Seq(Triggers) /\ cancelling[t] # <<>>
  BY <1>0 DEF CancelNext, TypeOK
<1>2. PICK h, rest : h = Head(cancelling[t]) /\ rest = Tail(cancelling[t])
  OBVIOUS
<1>3. /\ h \in Triggers /\ rest \in Seq(Triggers) /\ h = cancelling[t][1]
      /\ 1 \in DOMAIN cancelling[t]
      /\ \A i \in DOMAIN rest : /\ i \in Nat /\ i + 1 \in DOMAIN cancelling[t]
                                /\ rest[i] = cancelling[t][i + 1]
  BY <1>1, <1>2
<1>4. PICK e : e = Event(h, "CANCELLED")
  OBVIOUS
<1>5. e \in Events /\ e.watch = h.watch /\ <<e>> \in Seq(Events) /\ h.watch \in Watches
  BY <1>3, <1>4, EventType DEF Results, Triggers
<1>6. /\ UNCHANGED <<triggers, open, armed, arming, position, immediate, adding,
                     contextOf, covered, listening, settled, cancels, late>>
      /\ Unregister(h.watch) /\ Live' = Live
      /\ events' = [events EXCEPT ![t] = <<e>>]
      /\ cancelling' = [cancelling EXCEPT ![t] = rest]
  BY <1>2, <1>4 DEF CancelNext, armVars, history, Live
<1>7. /\ SignalsSame
      /\ \A f \in Ends : \A r :
           Registered(f, r)' <=> Registered(f, r) /\ r.watch # h.watch
  BY <1>0, <1>6, UnregisterEffect DEF TypeOK, SignalsSame
<1>8. /\ cancelling' \in [Threads -> Seq(Triggers)] /\ cancelling'[t] = rest
      /\ \A u \in Threads \ {t} : cancelling'[u] = cancelling[u]
      /\ events' \in [Threads -> Seq(Events)] /\ events'[t] = <<e>>
      /\ \A u \in Threads \ {t} : events'[u] = events[u]
  BY <1>0, <1>3, <1>5, <1>6 DEF TypeOK
<1>9. TypeOK'
  BY <1>0, <1>6, <1>7, <1>8 DEF TypeOK, SignalsSame
<1>10. At(h.watch, "cancelling", t, 1)
  BY <1>3, Places
<1>11. ASSUME NEW v, NEW p, NEW u, NEW i, At(v, p, u, i)'
       PROVE  \/ p = "cancelling" /\ u = t /\ i \in Nat /\ At(v, p, u, i + 1) /\ i # 0
              \/ p = "event" /\ u = t /\ i = 1 /\ v = h.watch
              \/ ~(p \in {"cancelling", "event"} /\ u = t) /\ At(v, p, u, i)
  <2>1. CASE p = "cancelling" /\ u = t
    <3>1. i \in DOMAIN rest /\ rest[i].watch = v
      BY <1>8, <1>11, <2>1, PlacesNext
    <3>2. i \in Nat /\ i # 0
      BY <1>3, <3>1
    <3> QED BY <1>3, <2>1, <3>1, <3>2, Places
  <2>2. CASE p = "event" /\ u = t
    BY <1>5, <1>8, <1>11, <2>2, PlacesNext
  <2>3. CASE p = "cancelling" /\ u # t
    <3>1. u \in Threads /\ i \in DOMAIN cancelling'[u] /\ cancelling'[u][i].watch = v
      BY <1>11, <2>3, PlacesNext
    <3>2. At(v, "cancelling", u, i)
      BY <1>8, <2>3, <3>1, Places
    <3> QED BY <2>3, <3>2
  <2>4. CASE p = "event" /\ u # t
    <3>1. /\ u \in Threads /\ i \in DOMAIN events'[u]
          /\ events'[u][i].watch = v /\ events'[u][i].result = "CANCELLED"
      BY <1>11, <2>4, PlacesNext
    <3>2. At(v, "event", u, i)
      BY <1>8, <2>4, <3>1, Places
    <3> QED BY <2>4, <3>2
  <2>5. CASE p \notin {"cancelling", "event"}
    BY <1>6, <1>11, <2>5, PlacesKept
  <2> QED BY <2>1, <2>2, <2>3, <2>4, <2>5
<1>12. OnePlace'
  <2> SUFFICES ASSUME NEW v \in Watches, NEW p, NEW q, NEW u, NEW x, NEW i, NEW j,
                      At(v, p, u, i)', At(v, q, x, j)'
               PROVE  p = q /\ u = x /\ i = j
    BY DEF OnePlace
  <2>1. CASE p = "cancelling" /\ u = t /\ q = "cancelling" /\ x = t
    <3>1. /\ i \in Nat /\ j \in Nat
          /\ At(v, "cancelling", t, i + 1) /\ At(v, "cancelling", t, j + 1)
      BY <1>11, <2>1
    <3>2. i + 1 = j + 1
      BY <1>0, <3>1 DEF OnePlace
    <3> QED BY <2>1, <3>1, <3>2
  <2>2. CASE p = "cancelling" /\ u = t /\ ~(q = "cancelling" /\ x = t)
    <3>1. i \in Nat /\ i # 0 /\ At(v, "cancelling", t, i + 1)
      BY <1>11, <2>2
    <3>2. v # h.watch
      BY <1>0, <1>10, <3>1 DEF OnePlace
    <3>3. At(v, q, x, j)
      BY <1>11, <2>2, <3>2
    <3> QED BY <1>0, <2>2, <3>1, <3>3 DEF OnePlace
  <2>3. CASE ~(p = "cancelling" /\ u = t) /\ q = "cancelling" /\ x = t
    <3>1. j \in Nat /\ j # 0 /\ At(v, "cancelling", t, j + 1)
      BY <1>11, <2>3
    <3>2. v # h.watch
      BY <1>0, <1>10, <3>1 DEF OnePlace
    <3>3. At(v, p, u, i)
      BY <1>11, <2>3, <3>2
    <3> QED BY <1>0, <2>3, <3>1, <3>3 DEF OnePlace
  <2>4. CASE ~(p = "cancelling" /\ u = t) /\ ~(q = "cancelling" /\ x = t)
    <3>1. CASE v # h.watch
      BY <1>0, <1>11, <2>4, <3>1 DEF OnePlace
    <3>2. CASE v = h.watch
      BY <1>0, <1>10, <1>11, <2>4, <3>2 DEF OnePlace
    <3> QED BY <3>1, <3>2
  <2> QED BY <2>1, <2>2, <2>3, <2>4
<1>13. \A r : Active(r)' <=> Active(r)
  BY <1>6 DEF Active
<1>14. ASSUME NEW r, Active(r) PROVE ActiveOK(r)'
  <2>1. ActiveOK(r) /\ r.watch \in Watches /\ r.end \in Ends
    BY <1>14, ActiveKnown
  <2>2. r.watch # h.watch
    <3>1. PICK p, u, i : p \in {"adding", "live"} /\ At(r.watch, p, u, i)
      BY <1>14, ActiveAt
    <3> QED BY <1>0, <1>5, <1>10, <3>1 DEF OnePlace
  <2>3. Cancelling(r.watch)' <=> Cancelling(r.watch)
    BY <1>7 DEF SignalsSame, Cancelling, Owes
  <2> QED BY <1>6, <1>7, <2>1, <2>2, <2>3 DEF ActiveOK, SignalsSame
<1>15. UnusedOK'
  <2> SUFFICES ASSUME NEW v \in Watches, contextOf[v] = NoContext
               PROVE  Unused(v)'
    BY <1>6 DEF UnusedOK
  <2>1. Unused(v)
    BY <1>0 DEF UnusedOK
  <2>2. \A p, u, i : ~At(v, p, u, i)'
    BY <1>10, <1>11, <2>1 DEF Unused
  <2>3. ~Pending(v)'
    BY <1>7, <2>1 DEF SignalsSame, Unused, Pending, OwesAny
  <2> QED BY <1>6, <1>7, <2>1, <2>2, <2>3 DEF Unused
<1>16. LiveKept
  BY <1>6 DEF LiveKept
<1>17. EventOK' /\ SettledOK' /\ ArmingOK'
  BY <1>0, <1>6, <1>7, <1>16, EventKept, SettledKept, ArmingKept
<1>18. ImmediateOK' /\ ContextsApart' /\ AddingOK'
  BY <1>0, <1>6 DEF ImmediateOK, ContextsApart, AddingOK
<1> QED BY <1>9, <1>12, <1>13, <1>14, <1>15, <1>17, <1>18 DEF Inv

-----------------------------------------------------------------------------
(* What arm does until its unlock.                                         *)
LEMMA ArmStep ==
  ASSUME Inv, NEW t \in Threads, ArmBegin(t) \/ ArmQuery(t)
  PROVE  Inv'
<1>0. /\ TypeOK /\ ImmediateOK /\ OnePlace /\ UnusedOK /\ AddingOK
      /\ ContextsApart /\ ArmingOK /\ EventOK /\ SettledOK
      /\ \A r : Active(r) => ActiveOK(r)
  BY DEF Inv
<1>1. /\ UNCHANGED <<triggers, open, armed, adding, cancelling, events,
                     contextOf, covered, listening, settled, cancels, late>>
      /\ UNCHANGED pipeVars /\ Live' = Live /\ LiveKept
  BY DEF ArmBegin, ArmQuery, taskVars, history, Live, LiveKept
<1>2. PipeSame /\ SignalsSame
  BY <1>0, <1>1, PipeUnchanged DEF TypeOK, PipeSame
<1>3. /\ \A w, p, u, i : At(w, p, u, i)' => At(w, p, u, i)
      /\ \A r : Active(r)' => Active(r)
  BY <1>1 DEF At, Active
<1>4. OnePlace'
  BY <1>0, <1>3, FewerOnce DEF Fewer
<1>5. \A r : Active(r)' => ActiveOK(r)'
  BY <1>0, <1>1, <1>2, <1>3, ActiveKept
<1>6. UnusedOK'
  BY <1>0, <1>1, <1>2, <1>3, UnusedKept
<1>7. EventOK' /\ SettledOK'
  BY <1>0, <1>1, <1>2, EventKept, SettledKept
<1>8. ContextsApart' /\ AddingOK'
  BY <1>0, <1>1 DEF ContextsApart, AddingOK
<1>9. \A w : Pending(w)' <=> Pending(w)
  BY <1>2, CallsKept DEF SignalsSame
<1>10. ASSUME NEW i \in Live PROVE FiresNow(i)' <=> FiresNow(i)
  BY <1>0, <1>1, <1>2, FiresKept
<1>11. CASE ArmBegin(t)
  <2>1. /\ UNCHANGED <<position, immediate>> /\ arming' = t /\ arming = NoThread
    BY <1>11 DEF ArmBegin, Unlocked
  <2>2. TypeOK' /\ ImmediateOK'
    BY <1>0, <1>1, <1>2, <2>1 DEF TypeOK, SignalsSame, ImmediateOK
  <2>3. position = 0 /\ \A i \in Live : ~(i <= 0)
    BY <1>0, <2>1 DEF ArmingOK, Live, TypeOK
  <2>4. ArmingOK'
    BY <1>1, <2>1, <2>3, TrapAssumption DEF ArmingOK
  <2> QED BY <1>4, <1>5, <1>6, <1>7, <1>8, <2>2, <2>4 DEF Inv
<1>12. CASE ArmQuery(t)
  <2>1. PICK i0, r, more :
          /\ i0 = position + 1 /\ r = triggers[i0]
          /\ more = ImmediateEvents(r, QuerySignals(r.end))
    OBVIOUS
  <2>2. /\ arming = t /\ arming' = arming /\ position < Len(triggers)
        /\ position' = i0 /\ immediate' = immediate \o more
    BY <1>12, <2>1 DEF ArmQuery
  <2>3. i0 \in 1..Len(triggers) /\ r \in Triggers /\ position \in Nat /\ i0 = position + 1
    <3>1. triggers \in Seq(Triggers) /\ position \in Nat
      BY <1>0 DEF TypeOK
    <3> QED BY <2>1, <2>2, <3>1
  <2>4. \/ more = <<>> /\ (r.removed \/ ~Fires(QuerySignals(r.end), r.signals))
        \/ \E e \in Events : more = <<e>> /\ e.result # "CANCELLED"
    BY <2>1, <2>3, EventType DEF ImmediateEvents, ResultOf, Results
  <2>5. /\ immediate' \in Seq(Events) /\ ImmediateOK'
        /\ immediate' = <<>> => immediate = <<>> /\ more = <<>>
    <3>1. immediate \in Seq(Events)
      BY <1>0 DEF TypeOK
    <3>2. CASE more = <<>>
      <4>1. immediate' = immediate
        BY <2>2, <3>1, <3>2
      <4> QED BY <1>0, <3>1, <3>2, <4>1 DEF ImmediateOK
    <3>3. ASSUME NEW e \in Events, more = <<e>>, e.result # "CANCELLED"
          PROVE  /\ immediate' \in Seq(Events) /\ ImmediateOK'
                 /\ immediate' # <<>>
      <4>1. immediate' = Append(immediate, e)
        BY <2>2, <3>1, <3>3
      <4>2. /\ immediate' \in Seq(Events) /\ Len(immediate') = Len(immediate) + 1
            /\ \A i \in 1..Len(immediate') :
                 immediate'[i] = IF i = Len(immediate) + 1 THEN e ELSE immediate[i]
        BY <3>1, <4>1, AppendProperties
      <4>3. Len(immediate) \in Nat /\ DOMAIN immediate = 1..Len(immediate)
            /\ DOMAIN immediate' = 1..Len(immediate')
        BY <3>1, <4>2
      <4>4. immediate' # <<>>
        BY <4>2, <4>3
      <4>5. \A i \in 1..Len(immediate') : i = Len(immediate) + 1 \/ i \in 1..Len(immediate)
        BY <4>2, <4>3
      <4>6. ImmediateOK'
        BY <1>0, <3>3, <4>2, <4>3, <4>5 DEF ImmediateOK
      <4> QED BY <4>2, <4>4, <4>6
    <3> QED BY <2>4, <3>2, <3>3
  <2>6. TypeOK'
    <3>1. position' \in Nat
      BY <2>2, <2>3
    <3> QED BY <1>0, <1>1, <1>2, <2>2, <2>5, <3>1 DEF TypeOK, SignalsSame
  <2>7. ArmingOK'
    <3> SUFFICES ASSUME immediate' = <<>>, NEW i \in Live, i <= position', FiresNow(i)'
                 PROVE  Pending(triggers[i].watch)'
      BY <1>1, <2>2, TrapAssumption DEF ArmingOK
    <3>1. FiresNow(i) /\ immediate = <<>> /\ more = <<>> /\ ~triggers[i].removed
      BY <1>10, <2>5 DEF Live
    <3>2. i # i0
      <4>1. ~FiresNow(i0) \/ triggers[i0].removed
        BY <2>1, <2>4, <3>1 DEF FiresNow
      <4> QED BY <3>1, <4>1
    <3>3. i \in Nat
      BY <1>0, LiveType
    <3>4. i <= position
      BY <2>2, <2>3, <3>2, <3>3
    <3>5. Pending(triggers[i].watch)
      BY <1>0, <3>1, <3>4 DEF ArmingOK
    <3> QED BY <1>1, <1>2, <3>5 DEF SignalsSame, Pending, OwesAny
  <2> QED BY <1>4, <1>5, <1>6, <1>7, <1>8, <2>5, <2>6, <2>7 DEF Inv
<1> QED BY <1>11, <1>12

(* The end of arm: what it has found out still holds.                      *)
LEMMA ArmEndStep ==
  ASSUME Inv, NEW t \in Threads, ArmEnd(t)
  PROVE  Inv'
<1>0. /\ TypeOK /\ ImmediateOK /\ OnePlace /\ UnusedOK /\ AddingOK
      /\ ContextsApart /\ ArmingOK /\ EventOK /\ SettledOK
      /\ \A r : Active(r) => ActiveOK(r)
  BY DEF Inv
<1>1. /\ UNCHANGED <<triggers, open, adding, cancelling, contextOf, listening, settled,
                     cancels, late>>
      /\ UNCHANGED pipeVars /\ Live' = Live /\ LiveKept
      /\ position = Len(triggers) /\ arming' = NoThread /\ position' = 0
      /\ immediate' = <<>> /\ events' = [events EXCEPT ![t] = immediate]
      /\ armed' = (immediate = <<>>)
      /\ covered' = IF immediate = <<>> THEN {triggers[i].watch : i \in Live} ELSE covered
  BY DEF ArmEnd, Live, LiveKept
<1>2. PipeSame /\ SignalsSame
  BY <1>0, <1>1, PipeUnchanged DEF TypeOK, PipeSame
<1>3. /\ events' \in [Threads -> Seq(Events)] /\ events'[t] = immediate
      /\ \A u \in Threads \ {t} : events'[u] = events[u]
  BY <1>0, <1>1 DEF TypeOK
<1>4. ASSUME NEW i \in Live
      PROVE  triggers[i].watch \in Watches /\ contextOf[triggers[i].watch] # NoContext
  <2>1. Active(triggers[i])
    BY DEF Active
  <2> QED BY <2>1, ActiveKnown
<1>5. TypeOK' /\ ImmediateOK'
  <2>1. <<>> \in Seq(Events) /\ covered' \subseteq Watches
    BY <1>0, <1>1, <1>4 DEF TypeOK
  <2> QED BY <1>0, <1>1, <1>2, <1>3, <2>1 DEF TypeOK, SignalsSame, ImmediateOK
<1>6. ASSUME NEW w, NEW p, NEW u, NEW i, At(w, p, u, i)'
      PROVE  At(w, p, u, i)
  <2>1. CASE p = "event"
    <3>1. /\ u \in Threads /\ i \in DOMAIN events'[u]
          /\ events'[u][i].watch = w /\ events'[u][i].result = "CANCELLED"
      BY <1>6, <2>1, PlacesNext
    <3>2. u # t
      BY <1>0, <1>3, <3>1 DEF ImmediateOK
    <3>3. At(w, "event", u, i)
      BY <1>3, <3>1, <3>2, Places
    <3> QED BY <2>1, <3>3
  <2>2. CASE p # "event"
    BY <1>1, <1>6, <2>2, PlacesKept
  <2> QED BY <2>1, <2>2
<1>7. OnePlace'
  BY <1>0, <1>6, FewerOnce DEF Fewer
<1>8. \A r : Active(r)' => Active(r)
  BY <1>1 DEF Active
<1>9. \A r : Active(r)' => ActiveOK(r)'
  BY <1>0, <1>1, <1>2, <1>8, ActiveKept
<1>10. UnusedOK'
  <2>1. \A v \in Watches : v \in (covered \cup settled)' =>
          v \in covered \cup settled \/ contextOf[v] # NoContext
    BY <1>1, <1>4
  <2> QED BY <1>0, <1>1, <1>2, <1>6, <2>1, UnusedKept
<1>11. AddingOK'
  <2> SUFFICES ASSUME NEW u \in Threads, NEW j \in DOMAIN adding[u]
               PROVE  adding[u][j].watch \notin covered'
    BY <1>0, <1>1 DEF AddingOK
  <2>1. At(adding[u][j].watch, "adding", u, j)
    BY Places
  <2>2. ASSUME NEW i \in Live PROVE triggers[i].watch # adding[u][j].watch
    <3>1. At(triggers[i].watch, "live", NoThread, i)
      BY Places
    <3> QED BY <1>0, <1>4, <2>1, <3>1 DEF OnePlace
  <2> QED BY <1>0, <1>1, <2>2 DEF AddingOK
<1>12. EventOK'
  <2> SUFFICES ASSUME immediate = <<>>, NEW i \in Live, FiresNow(i)'
               PROVE  Pending(triggers[i].watch)'
    BY <1>1 DEF EventOK
  <2>1. FiresNow(i)
    BY <1>0, <1>1, <1>2, FiresKept
  <2>2. i <= position
    BY <1>0, <1>1, LiveType DEF TypeOK
  <2>3. Pending(triggers[i].watch)
    BY <1>0, <2>1, <2>2 DEF ArmingOK
  <2> QED BY <1>1, <1>2, <2>3 DEF SignalsSame, Pending, OwesAny
<1>13. SettledOK'
  BY <1>0, <1>1, <1>2, SettledKept
<1>14. ArmingOK'
  <2>1. \A i \in Live : ~(i <= 0)
    BY <1>0, LiveType
  <2> QED BY <1>1, <2>1 DEF ArmingOK
<1>15. ContextsApart'
  BY <1>0, <1>1 DEF ContextsApart
<1> QED BY <1>5, <1>7, <1>9, <1>10, <1>11, <1>12, <1>13, <1>14, <1>15 DEF Inv

(* The client's callback hears of an event.                                *)
LEMMA DeliverStep ==
  ASSUME Inv, NEW t \in Threads, Deliver(t)
  PROVE  Inv'
<1>0. /\ TypeOK /\ ImmediateOK /\ OnePlace /\ UnusedOK /\ AddingOK
      /\ ContextsApart /\ ArmingOK /\ EventOK /\ SettledOK
      /\ \A r : Active(r) => ActiveOK(r)
  BY DEF Inv
<1>1. events[t] \in Seq(Events) /\ events[t] # <<>>
  BY <1>0 DEF Deliver, TypeOK
<1>2. PICK e, rest : e = Head(events[t]) /\ rest = Tail(events[t])
  OBVIOUS
<1>3. /\ e \in Events /\ rest \in Seq(Events) /\ e = events[t][1]
      /\ 1 \in DOMAIN events[t]
      /\ \A i \in DOMAIN rest : /\ i \in Nat /\ i # 0 /\ i + 1 \in DOMAIN events[t]
                                /\ rest[i] = events[t][i + 1]
  BY <1>1, <1>2
<1>4. e.watch \in Watches
  BY <1>3 DEF Events
<1>5. /\ UNCHANGED <<triggers, open, armed, arming, position, immediate, adding,
                     cancelling, contextOf, covered, listening, settled>>
      /\ UNCHANGED pipeVars /\ Live' = Live /\ LiveKept
      /\ events' = [events EXCEPT ![t] = rest]
      /\ cancels' = IF e.result = "CANCELLED"
                    THEN [cancels EXCEPT ![e.watch] = @ + 1] ELSE cancels
      /\ late' = IF cancels[e.watch] > 0 THEN late \cup {e.watch} ELSE late
  BY <1>2 DEF Deliver, armVars, Live, LiveKept
<1>6. PipeSame /\ SignalsSame
  BY <1>0, <1>5, PipeUnchanged DEF TypeOK, PipeSame
<1>7. /\ events' \in [Threads -> Seq(Events)] /\ events'[t] = rest
      /\ \A u \in Threads \ {t} : events'[u] = events[u]
  BY <1>0, <1>3, <1>5 DEF TypeOK
<1>8. /\ cancels' \in [Watches -> Nat]
      /\ \A v \in Watches : cancels'[v] = IF v = e.watch /\ e.result = "CANCELLED"
                                          THEN cancels[v] + 1 ELSE cancels[v]
  BY <1>0, <1>4, <1>5 DEF TypeOK
<1>9. TypeOK'
  <2>1. late' \subseteq Watches
    BY <1>0, <1>4, <1>5 DEF TypeOK
  <2> QED BY <1>0, <1>5, <1>6, <1>7, <1>8, <2>1 DEF TypeOK, SignalsSame
<1>10. e.result = "CANCELLED" => At(e.watch, "event", t, 1)
  BY <1>3, Places
<1>11. ASSUME NEW v \in Watches, NEW p, NEW u, NEW i, At(v, p, u, i)'
       PROVE  \/ p = "event" /\ u = t /\ i \in Nat /\ i # 0 /\ At(v, p, u, i + 1)
              \/ /\ p = "delivered" /\ u = NoThread /\ i = cancels[v] + 1
                 /\ v = e.watch /\ e.result = "CANCELLED"
              \/ ~(p = "event" /\ u = t) /\ At(v, p, u, i)
  <2>1. CASE p = "event" /\ u = t
    <3>1. i \in DOMAIN rest /\ rest[i].watch = v /\ rest[i].result = "CANCELLED"
      BY <1>7, <1>11, <2>1, PlacesNext
    <3>2. i \in Nat /\ i # 0 /\ At(v, "event", t, i + 1)
      BY <1>3, <3>1, Places
    <3> QED BY <2>1, <3>2
  <2>2. CASE p = "event" /\ u # t
    <3>1. /\ u \in Threads /\ i \in DOMAIN events'[u]
          /\ events'[u][i].watch = v /\ events'[u][i].result = "CANCELLED"
      BY <1>11, <2>2, PlacesNext
    <3>2. At(v, "event", u, i)
      BY <1>7, <2>2, <3>1, Places
    <3> QED BY <2>2, <3>2
  <2>3. CASE p = "delivered"
    <3>1. u = NoThread /\ i \in 1..cancels'[v] /\ cancels[v] \in Nat
      BY <1>0, <1>11, <2>3, PlacesNext DEF TypeOK
    <3>2. CASE i \in 1..cancels[v]
      <4>1. At(v, "delivered", u, i)
        BY <3>1, <3>2, Places
      <4> QED BY <2>3, <4>1
    <3>3. CASE i \notin 1..cancels[v]
      BY <1>8, <2>3, <3>1, <3>3
    <3> QED BY <3>2, <3>3
  <2>4. CASE p \notin {"event", "delivered"}
    BY <1>5, <1>11, <2>4, PlacesKept
  <2> QED BY <2>1, <2>2, <2>3, <2>4
<1>12. OnePlace'
  <2> SUFFICES ASSUME NEW v \in Watches, NEW p, NEW q, NEW u, NEW x, NEW i, NEW j,
                      At(v, p, u, i)', At(v, q, x, j)'
               PROVE  p = q /\ u = x /\ i = j
    BY DEF OnePlace
  <2>1. CASE v = e.watch /\ e.result = "CANCELLED"
    <3>1. \A r, s, k : At(v, r, s, k) => r = "event" /\ s = t /\ k = 1
      BY <1>0, <1>10, <2>1 DEF OnePlace
    <3>2. ASSUME NEW r, NEW s, NEW k, At(v, r, s, k)'
          PROVE  r = "delivered" /\ s = NoThread /\ k = cancels[v] + 1
      <4>1. ~(r = "event" /\ s = t /\ k \in Nat /\ k # 0 /\ At(v, r, s, k + 1))
        BY <3>1
      <4>2. ~(~(r = "event" /\ s = t) /\ At(v, r, s, k))
        BY <3>1
      <4> QED BY <1>11, <3>2, <4>1, <4>2
    <3> QED BY <3>2
  <2>2. CASE ~(v = e.watch /\ e.result = "CANCELLED")
    <3>1. \/ p = "event" /\ u = t /\ i \in Nat /\ i # 0 /\ At(v, p, u, i + 1)
          \/ ~(p = "event" /\ u = t) /\ At(v, p, u, i)
      BY <1>11, <2>2
    <3>2. \/ q = "event" /\ x = t /\ j \in Nat /\ j # 0 /\ At(v, q, x, j + 1)
          \/ ~(q = "event" /\ x = t) /\ At(v, q, x, j)
      BY <1>11, <2>2
    <3>3. CASE p = "event" /\ u = t /\ q = "event" /\ x = t
      <4>1. i \in Nat /\ j \in Nat /\ i + 1 = j + 1
        BY <1>0, <3>1, <3>2, <3>3 DEF OnePlace
      <4> QED BY <3>3, <4>1
    <3>4. CASE ~(p = "event" /\ u = t /\ q = "event" /\ x = t)
      BY <1>0, <3>1, <3>2, <3>4 DEF OnePlace
    <3> QED BY <3>3, <3>4
  <2> QED BY <2>1, <2>2
<1>13. \A r : Active(r)' => Active(r)
  BY <1>5 DEF Active
<1>14. \A r : Active(r)' => ActiveOK(r)'
  BY <1>0, <1>5, <1>6, <1>13, ActiveKept
<1>15. UnusedOK'
  <2>1. \A v \in Watches : \A p, u, i : At(v, p, u, i)' => \E q, x, j : At(v, q, x, j)
    BY <1>10, <1>11
  <2> QED BY <1>0, <1>5, <1>6, <2>1, UnusedKept
<1>16. ContextsApart'
  <2>1. \A w \in Watches : cancels'[w] = 0 => cancels[w] = 0
    BY <1>0, <1>8 DEF TypeOK
  <2> QED BY <1>0, <1>5, <2>1, ApartKept
<1>17. EventOK' /\ SettledOK' /\ ArmingOK'
  BY <1>0, <1>5, <1>6, EventKept, SettledKept, ArmingKept
<1>18. ImmediateOK' /\ AddingOK'
  BY <1>0, <1>5 DEF ImmediateOK, AddingOK
<1> QED BY <1>9, <1>12, <1>14, <1>15, <1>16, <1>17, <1>18 DEF Inv

-----------------------------------------------------------------------------
(* on_watch finds the trigger of the watch that calls it, and no other:    *)
(* live triggers have different contexts.                                  *)
LEMMA MatchesOwn ==
  ASSUME Inv, NEW i \in Live
  PROVE  Matching(triggers[i].watch) = {i}
<1> DEFINE S == {j \in Live : triggers[j].context = contextOf[triggers[i].watch]}
<1>1. ASSUME NEW j \in Live
      PROVE  /\ triggers[j].watch \in Watches
             /\ contextOf[triggers[j].watch] = triggers[j].context
             /\ contextOf[triggers[j].watch] # NoContext
             /\ cancels[triggers[j].watch] = 0
             /\ At(triggers[j].watch, "live", NoThread, j)
  <2>1. Active(triggers[j])
    BY DEF Active
  <2>2. /\ triggers[j].watch \in Watches /\ contextOf[triggers[j].watch] # NoContext
        /\ contextOf[triggers[j].watch] = triggers[j].context
    BY <2>1, ActiveKnown DEF ActiveOK
  <2>3. At(triggers[j].watch, "live", NoThread, j)
    BY Places
  <2>4. ~At(triggers[j].watch, "delivered", NoThread, 1)
    BY <2>2, <2>3 DEF Inv, OnePlace
  <2>5. cancels[triggers[j].watch] \in Nat
    BY <2>2 DEF Inv, TypeOK
  <2>6. cancels[triggers[j].watch] = 0
    BY <2>4, <2>5, Places
  <2> QED BY <2>2, <2>3, <2>6
<1>2. i \in S /\ i \in Nat
  <2>1. i \in Nat
    BY LiveType DEF Inv
  <2> QED BY <1>1, <2>1
<1>3. ASSUME NEW j \in S PROVE j = i
  <2>1. j \in Live /\ contextOf[triggers[j].watch] = contextOf[triggers[i].watch]
    BY <1>1
  <2>2. triggers[j].watch = triggers[i].watch
    BY <1>1, <2>1 DEF Inv, ContextsApart
  <2> QED BY <1>1, <2>1, <2>2 DEF Inv, OnePlace
<1>4. S = {i}
  BY <1>2, <1>3
<1>5. Matching(triggers[i].watch) = {k \in S : \A j \in S : k <= j}
  BY DEF Matching
<1> HIDE DEF S
<1> QED BY <1>2, <1>4, <1>5

(* What on_watch does to the trap.                                         *)
LEMMA OnWatchCases ==
  ASSUME Inv, NEW t \in Threads, OnWatch(t)
  PROVE  \/ /\ UNCHANGED <<triggers, armed, events>>
            /\ Matching(Head(calls[t]).watch) # {} =>
                 Head(calls[t]).kind = "Changed" /\ ~armed
         \/ /\ UNCHANGED triggers /\ armed' = FALSE
            /\ Head(calls[t]).kind = "Changed"
            /\ \E e \in Events : /\ events' = [events EXCEPT ![t] = <<e>>]
                                 /\ e.result # "CANCELLED"
         \/ /\ armed' = armed /\ Head(calls[t]).kind = "Cancelled"
            /\ \E i \in Matching(Head(calls[t]).watch) :
                 /\ triggers' = [triggers EXCEPT ![i].removed = TRUE]
                 /\ \E e \in Events :
                      /\ events' = [events EXCEPT ![t] = <<e>>]
                      /\ e.result = "CANCELLED" /\ e.watch = triggers[i].watch
<1> DEFINE h == Head(calls[t])
<1>1. OnCancelled(t, h) \/ OnChanged(t, h) \/ OnNothing(h)
  BY DEF OnWatch
<1>2. \A i \in Matching(h.watch) : i \in Live /\ triggers[i] \in Triggers
  BY LiveType DEF Matching, Inv
<1> HIDE DEF h
<1>3. CASE OnCancelled(t, h)
  <2>1. PICK i \in Matching(h.watch) :
          /\ triggers' = [triggers EXCEPT ![i].removed = TRUE]
          /\ events' = [events EXCEPT ![t] = <<Event(triggers[i], "CANCELLED")>>]
    BY <1>3 DEF OnCancelled
  <2>2. /\ Event(triggers[i], "CANCELLED") \in Events
        /\ Event(triggers[i], "CANCELLED").watch = triggers[i].watch
        /\ Event(triggers[i], "CANCELLED").result = "CANCELLED"
    BY <1>2, EventType DEF Results
  <2> QED BY <1>3, <2>1, <2>2 DEF OnCancelled, h
<1>4. CASE OnChanged(t, h)
  <2>1. PICK i \in Matching(h.watch) :
          events' = [events EXCEPT ![t] =
            <<Event(triggers[i], ResultOf(h.state, triggers[i].signals))>>]
    BY <1>4 DEF OnChanged
  <2>2. PICK result \in {"OK", "FAILED_PRECONDITION"} :
          result = ResultOf(h.state, triggers[i].signals)
    BY DEF ResultOf
  <2>3. Event(triggers[i], result) \in Events /\ Event(triggers[i], result).result = result
    BY <1>2, EventType DEF Results
  <2> QED BY <1>4, <2>1, <2>2, <2>3 DEF OnChanged, h
<1>5. CASE OnNothing(h)
  BY <1>5 DEF OnNothing, h
<1> QED BY <1>1, <1>3, <1>4, <1>5

(* What comes of it: nobody is cancelled twice, and the trigger of the     *)
(* watch is gone or, if its endpoint is still open, the trap not armed.    *)
Answered(w, kind) ==
  /\ triggers' \in Seq(Triggers) /\ LiveKept
  /\ events' \in [Threads -> Seq(Events)] /\ armed' \in BOOLEAN
  /\ OnePlace'
  /\ \A v \in Watches : \A p, u, i : At(v, p, u, i)' => \E q, x, j : At(v, q, x, j)
  /\ \A i \in Live : triggers[i].watch = w =>
       i \notin Live' \/ (kind = "Changed" /\ ~armed')

LEMMA OnWatchAnswers ==
  ASSUME Inv, NEW t \in Threads, OnWatch(t), NEW h, h = Head(calls[t])
  PROVE  Answered(h.watch, h.kind) /\ (armed' => armed)
<1>0. TypeOK /\ OnePlace
  BY DEF Inv
<1>1. UNCHANGED <<adding, cancelling, cancels>>
  BY DEF OnWatch, history
<1>2. \A i \in Live : triggers[i].watch = h.watch => Matching(h.watch) = {i}
  <2> SUFFICES ASSUME NEW i \in Live, triggers[i].watch = h.watch
               PROVE  Matching(h.watch) = {i}
    OBVIOUS
  <2> QED BY MatchesOwn
<1>3. CASE /\ UNCHANGED <<triggers, armed, events>>
           /\ Matching(h.watch) # {} => h.kind = "Changed" /\ ~armed
  <2>1. /\ triggers' \in Seq(Triggers) /\ LiveKept
        /\ events' \in [Threads -> Seq(Events)] /\ armed' \in BOOLEAN
    BY <1>0, <1>3 DEF TypeOK, LiveKept, Live
  <2>2. \A w, p, u, i : At(w, p, u, i)' => At(w, p, u, i)
    BY <1>1, <1>3 DEF At, Live
  <2>3. OnePlace'
    BY <1>0, <2>2, FewerOnce DEF Fewer
  <2>4. \A i \in Live : triggers[i].watch = h.watch => h.kind = "Changed" /\ ~armed'
    BY <1>2, <1>3
  <2>5. armed' => armed
    BY <1>3
  <2> QED BY <2>1, <2>2, <2>3, <2>4, <2>5 DEF Answered
<1>4. ASSUME UNCHANGED triggers, armed' = FALSE, h.kind = "Changed",
             NEW e \in Events, events' = [events EXCEPT ![t] = <<e>>],
             e.result # "CANCELLED"
      PROVE  Answered(h.watch, h.kind) /\ (armed' => armed)
  <2>0. <<e>> \in Seq(Events)
    OBVIOUS
  <2>1. /\ triggers' \in Seq(Triggers) /\ LiveKept
        /\ events' \in [Threads -> Seq(Events)] /\ armed' \in BOOLEAN
        /\ events'[t] = <<e>> /\ \A u \in Threads \ {t} : events'[u] = events[u]
    BY <1>0, <1>4, <2>0 DEF TypeOK, LiveKept, Live
  <2>2. ASSUME NEW w, NEW p, NEW u, NEW i, At(w, p, u, i)'
        PROVE  At(w, p, u, i)
    <3>1. CASE p = "event"
      <4>1. /\ u \in Threads /\ i \in DOMAIN events'[u]
            /\ events'[u][i].watch = w /\ events'[u][i].result = "CANCELLED"
        BY <2>2, <3>1, PlacesNext
      <4>2. u # t
        BY <1>4, <2>1, <4>1
      <4>3. At(w, "event", u, i)
        BY <2>1, <4>1, <4>2, Places
      <4> QED BY <3>1, <4>3
    <3>2. CASE p # "event"
      BY <1>1, <1>4, <2>2, <3>2, PlacesKept
    <3> QED BY <3>1, <3>2
  <2>3. OnePlace'
    BY <1>0, <2>2, FewerOnce DEF Fewer
  <2> QED BY <1>4, <2>1, <2>2, <2>3 DEF Answered
<1>5. ASSUME armed' = armed, h.kind = "Cancelled", NEW i0 \in Matching(h.watch),
             triggers' = [triggers EXCEPT ![i0].removed = TRUE],
             NEW e \in Events, events' = [events EXCEPT ![t] = <<e>>],
             e.result = "CANCELLED", e.watch = triggers[i0].watch
      PROVE  Answered(h.watch, h.kind) /\ (armed' => armed)
  <2>0. <<e>> \in Seq(Events) /\ i0 \in Live
    BY DEF Matching
  <2>1. triggers' \in Seq(Triggers) /\ Live' = Live \ {i0} /\ LiveKept
    BY <1>0, <1>5, <2>0, LiveRemoved
  <2>2. /\ events' \in [Threads -> Seq(Events)] /\ armed' \in BOOLEAN
        /\ events'[t] = <<e>> /\ \A u \in Threads \ {t} : events'[u] = events[u]
    BY <1>0, <1>5, <2>0 DEF TypeOK
  <2>3. Moves(e.watch, "live", NoThread, i0, "event", t, 1)
    <3>1. At(e.watch, "live", NoThread, i0)
      BY <1>5, <2>0, Places
    <3> SUFFICES ASSUME NEW v \in Watches, NEW p, NEW u, NEW i, At(v, p, u, i)'
                 PROVE  \/ /\ At(v, p, u, i)
                           /\ ~(v = e.watch /\ p = "live" /\ u = NoThread /\ i = i0)
                        \/ v = e.watch /\ p = "event" /\ u = t /\ i = 1
      BY <3>1 DEF Moves
    <3>2. CASE p = "live"
      BY <2>1, <3>2, Places, PlacesNext DEF LiveKept
    <3>3. CASE p = "event"
      BY <2>2, <3>3, Places, PlacesNext
    <3>4. CASE p \notin {"live", "event"}
      BY <1>1, <3>4, PlacesKept
    <3> QED BY <3>2, <3>3, <3>4
  <2>4. OnePlace'
    BY <1>0, <2>3, MovedOnce
  <2>5. \A v \in Watches : \A p, u, i : At(v, p, u, i)' => \E q, x, j : At(v, q, x, j)
    BY <2>3 DEF Moves
  <2>6. \A i \in Live : triggers[i].watch = h.watch => i \notin Live'
    BY <1>2, <1>5, <2>1
  <2> QED BY <1>5, <2>1, <2>2, <2>4, <2>5, <2>6 DEF Answered
<1> QED BY <1>3, <1>4, <1>5, OnWatchCases

LEMMA OnWatchStep ==
  ASSUME Inv, NEW t \in Threads, OnWatch(t)
  PROVE  Inv'
<1>0. /\ TypeOK /\ ImmediateOK /\ OnePlace /\ UnusedOK /\ AddingOK
      /\ ContextsApart /\ ArmingOK /\ EventOK /\ SettledOK
      /\ \A r : Active(r) => ActiveOK(r)
  BY DEF Inv
<1>1. /\ UNCHANGED <<open, arming, position, immediate, adding, cancelling,
                     contextOf, covered, listening, settled, cancels, late>>
      /\ arming = NoThread
  BY DEF OnWatch, history, Unlocked
<1>2. PICK h : h = Head(calls[t])
  OBVIOUS
<1>3. /\ UNCHANGED <<localClosed, watchers>> /\ PipeTypeOK'
      /\ \A f \in Ends : QuerySignals(f)' = QuerySignals(f)
      /\ \A u \in Threads \ {t} : calls'[u] = calls[u]
      /\ \A x : In(x, calls[t]) <=> In(x, calls'[t]) \/ x = h
  BY <1>0, <1>2, TakeCallEffect DEF OnWatch, TypeOK
<1>4. \A f \in Ends : \A n : Registered(f, n)' <=> Registered(f, n)
  BY <1>3 DEF Registered
<1>5. ASSUME NEW w
      PROVE  /\ Pending(w)' => Pending(w)
             /\ Pending(w) => Pending(w)' \/ w = h.watch
             /\ Cancelling(w)' => Cancelling(w)
             /\ Cancelling(w) => Cancelling(w)' \/ (w = h.watch /\ h.kind = "Cancelled")
  <2>1. ASSUME NEW u \in Threads, OwesAny(u, w)' PROVE OwesAny(u, w)
    <3>1. PICK x : In(x, calls'[u]) /\ x.watch = w
      BY <2>1 DEF OwesAny, In
    <3>2. In(x, calls[u])
      BY <1>3, <3>1
    <3> QED BY <3>1, <3>2 DEF OwesAny, In
  <2>2. ASSUME NEW u \in Threads, OwesAny(u, w), w # h.watch PROVE OwesAny(u, w)'
    <3>1. PICK x : In(x, calls[u]) /\ x.watch = w
      BY <2>2 DEF OwesAny, In
    <3>2. In(x, calls'[u])
      BY <1>3, <2>2, <3>1
    <3> QED BY <3>1, <3>2 DEF OwesAny, In
  <2>3. ASSUME NEW u \in Threads, Owes(u, w, "Cancelled")'
        PROVE  Owes(u, w, "Cancelled")
    <3>1. PICK x : In(x, calls'[u]) /\ x.watch = w /\ x.kind = "Cancelled"
      BY <2>3 DEF Owes, In
    <3>2. In(x, calls[u])
      BY <1>3, <3>1
    <3> QED BY <3>1, <3>2 DEF Owes, In
  <2>4. ASSUME NEW u \in Threads, Owes(u, w, "Cancelled"),
               ~(w = h.watch /\ h.kind = "Cancelled")
        PROVE  Owes(u, w, "Cancelled")'
    <3>1. PICK x : In(x, calls[u]) /\ x.watch = w /\ x.kind = "Cancelled"
      BY <2>4 DEF Owes, In
    <3>2. In(x, calls'[u])
      BY <1>3, <2>4, <3>1
    <3> QED BY <3>1, <3>2 DEF Owes, In
  <2> QED BY <2>1, <2>2, <2>3, <2>4 DEF Pending, Cancelling
<1>6. Answered(h.watch, h.kind) /\ (armed' => armed)
  BY <1>2, OnWatchAnswers
<1>7. TypeOK'
  BY <1>0, <1>1, <1>3, <1>6 DEF TypeOK, Answered
<1>8. OnePlace' /\ LiveKept
  BY <1>6 DEF Answered
<1>9. ASSUME NEW r, Active(r)' PROVE ActiveOK(r)'
  <2>1. Active(r)
    BY <1>1, <1>8, <1>9 DEF Active, LiveKept
  <2>2. ActiveOK(r) /\ r.end \in Ends
    BY <2>1, ActiveKnown
  <2>3. Cancelling(r.watch)' => Cancelling(r.watch)
    <3>1. PICK w : w = r.watch
      OBVIOUS
    <3> QED BY <1>5, <3>1
  <2> QED BY <1>1, <1>3, <1>4, <2>2, <2>3 DEF ActiveOK
<1>10. UnusedOK'
  <2> SUFFICES ASSUME NEW v \in Watches, contextOf[v] = NoContext
               PROVE  Unused(v)'
    BY <1>1 DEF UnusedOK
  <2>1. Unused(v)
    BY <1>0 DEF UnusedOK
  <2>2. \A p, u, i : ~At(v, p, u, i)'
    BY <1>6, <2>1 DEF Answered, Unused
  <2> QED BY <1>1, <1>4, <1>5, <2>1, <2>2 DEF Unused
<1>11. EventOK'
  <2> SUFFICES ASSUME armed', NEW i \in Live', triggers'[i].watch \in covered, FiresNow(i)'
               PROVE  Pending(triggers[i].watch)'
    BY <1>1 DEF EventOK
  <2>1. i \in Live /\ triggers'[i] = triggers[i] /\ armed
    BY <1>6, <1>8 DEF LiveKept
  <2>2. PICK e \in Ends, w \in Watches : e = triggers[i].end /\ w = triggers[i].watch
    BY <1>0, <2>1, LiveType
  <2>3. FiresNow(i)
    <3>1. QuerySignals(e)' = QuerySignals(e)
      BY <1>3
    <3>2. FiresNow(i)' <=> Fires(QuerySignals(e), triggers[i].signals)'
      BY <2>1, <2>2 DEF FiresNow, QuerySignals, Fires, IsSatisfied, IsUnsatisfiable
    <3> QED BY <2>1, <2>2, <3>1, <3>2 DEF FiresNow, Fires, IsSatisfied, IsUnsatisfiable
  <2>4. Pending(w)
    BY <1>0, <2>1, <2>2, <2>3 DEF EventOK
  <2>5. w # h.watch
    BY <1>6, <2>1, <2>2 DEF Answered
  <2>6. Pending(w)' /\ w = triggers'[i].watch
    BY <1>5, <2>1, <2>2, <2>4, <2>5
  <2> QED BY <2>6 DEF Pending, OwesAny
<1>12. SettledOK'
  <2> SUFFICES ASSUME NEW i \in Live', localClosed'[triggers'[i].end],
                      triggers'[i].watch \in settled
               PROVE  Cancelling(triggers[i].watch)'
    BY <1>1 DEF SettledOK
  <2>1. i \in Live /\ triggers'[i] = triggers[i]
    BY <1>8 DEF LiveKept
  <2>2. PICK w : w = triggers[i].watch
    OBVIOUS
  <2>3. Cancelling(w)
    BY <1>0, <1>3, <2>1, <2>2 DEF SettledOK
  <2>4. ~(w = h.watch /\ h.kind = "Cancelled")
    BY <1>6, <2>1, <2>2 DEF Answered
  <2>5. Cancelling(w)' /\ w = triggers'[i].watch
    BY <1>5, <2>1, <2>2, <2>3, <2>4
  <2> QED BY <2>5 DEF Cancelling, Owes
<1>13. ArmingOK'
  <2>1. position' = 0 /\ \A i \in Live' : ~(i <= 0)
    BY <1>0, <1>1, <1>8, LiveType DEF ArmingOK, LiveKept
  <2> QED BY <1>1, <2>1 DEF ArmingOK
<1>14. ImmediateOK' /\ ContextsApart' /\ AddingOK'
  BY <1>0, <1>1 DEF ImmediateOK, ContextsApart, AddingOK
<1> QED BY <1>7, <1>8, <1>9, <1>10, <1>11, <1>12, <1>13, <1>14 DEF Inv

LEMMA NextInv ==
  ASSUME Inv, [Next]_vars
  PROVE  Inv'
<1>1. CASE UNCHANGED vars
  <2>1. /\ UNCHANGED <<localClosed, peerClosed, queue, watchers, calls, sent,
                       triggers, open, armed, arming, position, immediate, adding,
                       cancelling, events, contextOf, covered, listening, settled,
                       cancels, late>>
        /\ Live' = Live /\ LiveKept /\ PipeSame /\ SignalsSame
    BY <1>1, PipeUnchanged
       DEF Inv, TypeOK, vars, pipeVars, armVars, taskVars, history, Live, LiveKept, PipeSame
  <2>2. TypeOK' /\ ImmediateOK' /\ AddingOK' /\ ContextsApart'
    BY <2>1 DEF Inv, TypeOK, SignalsSame, ImmediateOK, AddingOK, ContextsApart
  <2>3. /\ \A w, p, u, i : At(w, p, u, i)' => At(w, p, u, i)
        /\ \A r : Active(r)' => Active(r)
    BY <2>1 DEF At, Active
  <2>4. OnePlace'
    BY <2>3, FewerOnce DEF Inv, Fewer
  <2>5. UnusedOK'
    BY <2>1, <2>3, UnusedKept DEF Inv
  <2>6. \A r : Active(r)' => ActiveOK(r)'
    BY <2>1, <2>3, ActiveKept DEF Inv
  <2>7. EventOK' /\ SettledOK' /\ ArmingOK'
    BY <2>1, EventKept, SettledKept, ArmingKept DEF Inv
  <2> QED BY <2>2, <2>4, <2>5, <2>6, <2>7 DEF Inv
<1>2. ASSUME NEW t \in Threads,
             \/ UsePipe(t) \/ AddTrigger(t) \/ RemoveTrigger(t) \/ CloseTrap(t)
             \/ ArmBegin(t) \/ Continue(t)
      PROVE  Inv'
  BY <1>2, UseStep, AddStep, RemoveStep, CloseStep, ArmStep, PushStep, CancelStep,
     ArmEndStep, OnWatchStep, DeliverStep DEF Continue
<1> QED BY <1>1, <1>2 DEF Next

(* The invariant as a whole: in every state the token of a watch is in one *)
(* place, and every armed trigger that fires has a callback on its way,    *)
(* through all steps of trap.rs and pipe.rs.                               *)
THEOREM InvAlways == Spec => []Inv
BY InitInv, NextInv, PTL DEF Spec

-----------------------------------------------------------------------------
LEMMA PendingCall ==
  ASSUME NEW w
  PROVE  /\ Pending(w) => \E c \in PendingCalls : c.watch = w
         /\ Cancelling(w) => \E c \in PendingCalls : c.watch = w /\ c.kind = "Cancelled"
BY DEF Pending, Cancelling, OwesAny, Owes, PendingCalls

(* While a trap is armed no event is lost: of every trigger that arm has   *)
(* seen and whose condition holds now, a callback is on its way, however   *)
(* the pipe changed while arm looked at one endpoint after the other       *)
(* (trap.rs, arm and on_watch).                                            *)
THEOREM EventsAreNotLost == Spec => []NoLostEvent
<1>1. Inv => NoLostEvent
  BY PendingCall DEF Inv, EventOK, NoLostEvent
<1> QED BY <1>1, InvAlways, PTL

(* A closed endpoint takes with it every trigger that was in place: each   *)
(* is gone, or its Cancelled callback is on its way (trap.rs, on_watch;    *)
(* pipe.rs, close).                                                        *)
THEOREM ClosureReachesTriggers == Spec => []CloseReachesSettled
<1>1. Inv => CloseReachesSettled
  BY PendingCall DEF Inv, SettledOK, CloseReachesSettled
<1> QED BY <1>1, InvAlways, PTL

LEMMA AtMostOnce == Inv => CancelledAtMostOnce
<1> SUFFICES ASSUME Inv, NEW w \in Watches
             PROVE  /\ cancels[w] <= 1
                    /\ cancels[w] = 1 => ~ \E e \in PendingEvents :
                                            e.watch = w /\ e.result = "CANCELLED"
  BY DEF CancelledAtMostOnce
<1>1. cancels[w] \in Nat /\ OnePlace
  BY DEF Inv, TypeOK
<1>2. \A k \in 1..cancels[w] : At(w, "delivered", NoThread, k)
  BY Places
<1>3. cancels[w] <= 1
  <2> SUFFICES ASSUME cancels[w] > 1 PROVE FALSE
    BY <1>1
  <2>1. At(w, "delivered", NoThread, 1) /\ At(w, "delivered", NoThread, 2)
    BY <1>1, <1>2
  <2> QED BY <1>1, <2>1 DEF OnePlace
<1>4. ASSUME cancels[w] = 1, NEW e \in PendingEvents, e.watch = w, e.result = "CANCELLED"
      PROVE  FALSE
  <2>1. PICK t \in Threads : \E i \in DOMAIN events[t] : events[t][i] = e
    BY <1>4 DEF PendingEvents
  <2>2. \E i : At(w, "event", t, i)
    BY <1>4, <2>1, Places
  <2>3. At(w, "delivered", NoThread, 1)
    BY <1>2, <1>4
  <2> QED BY <1>1, <2>2, <2>3 DEF OnePlace
<1> QED BY <1>3, <1>4

(* on_watch takes away no trigger whose endpoint is open, except one with  *)
(* the context of an earlier trigger.                                      *)
LEMMA OnlyWhenDue ==
  ASSUME Inv, NEW t \in Threads, OnWatch(t), NEW i \in Live,
         triggers'[i].removed
  PROVE  localClosed[triggers[i].end] \/ Reused(triggers[i])
<1>1. PICK h : h = Head(calls[t])
  OBVIOUS
<1>2. ~triggers[i].removed /\ i \in DOMAIN triggers
  BY DEF Live
<1>3. /\ h.kind = "Cancelled"
      /\ \E j \in Matching(h.watch) : triggers' = [triggers EXCEPT ![j].removed = TRUE]
  BY <1>1, <1>2, OnWatchCases
<1>4. i \in Matching(h.watch)
  <2>1. PICK j \in Matching(h.watch) : triggers' = [triggers EXCEPT ![j].removed = TRUE]
    BY <1>3
  <2>2. i # j => triggers'[i] = triggers[i]
    BY <1>2, <2>1
  <2> QED BY <1>2, <2>2
<1>5. /\ Active(triggers[i]) /\ triggers[i].context = contextOf[h.watch]
  BY <1>4 DEF Matching, Active
<1>6. /\ triggers[i].watch \in Watches /\ contextOf[triggers[i].watch] # NoContext
      /\ ActiveOK(triggers[i])
  BY <1>5, ActiveKnown
<1>7. h \in Calls /\ In(h, calls[t])
  BY <1>1, TakeCallEffect DEF Inv, TypeOK, OnWatch
<1>8. h.watch \in Watches
  BY <1>7 DEF Calls
<1>9. CASE h.watch = triggers[i].watch
  <2>1. Cancelling(triggers[i].watch)
    BY <1>3, <1>7, <1>9 DEF Cancelling, Owes, In
  <2> QED BY <1>6, <2>1 DEF ActiveOK
<1>10. CASE h.watch # triggers[i].watch
  <2>1. cancels[triggers[i].watch] = 0
    <3> SUFFICES ASSUME cancels[triggers[i].watch] # 0 PROVE FALSE
      OBVIOUS
    <3>1. cancels[triggers[i].watch] \in Nat /\ OnePlace
      BY <1>6 DEF Inv, TypeOK
    <3>2. At(triggers[i].watch, "delivered", NoThread, 1)
      BY <3>1, Places
    <3>3. At(triggers[i].watch, "live", NoThread, i)
      BY Places
    <3> QED BY <1>6, <3>1, <3>2, <3>3 DEF OnePlace
  <2>2. contextOf[h.watch] = contextOf[triggers[i].watch]
    BY <1>5, <1>6 DEF ActiveOK
  <2>3. cancels[h.watch] # 0 /\ cancels[h.watch] \in Nat
    BY <1>6, <1>8, <1>10, <2>1, <2>2 DEF Inv, TypeOK, ContextsApart
  <2> QED BY <1>5, <1>8, <1>10, <2>3 DEF Reused
<1> QED BY <1>9, <1>10

(* CancelledOnce as a whole: at most once, and only when the client has    *)
(* removed the trigger or its endpoint was closed, or its context is that  *)
(* of an earlier trigger (trap.rs, on_watch).                              *)
THEOREM CancelledOnlyWhenDue == Spec => CancelledOnce
<1>1. Inv => CancelledAtMostOnce
  BY AtMostOnce
<1>2. Inv => [\A t \in Threads, i \in DOMAIN triggers :
                OnWatch(t) /\ i \in Live /\ triggers'[i].removed =>
                  localClosed[triggers[i].end] \/ Reused(triggers[i])]_vars
  BY OnlyWhenDue
<1> QED BY <1>1, <1>2, InvAlways, PTL DEF CancelledOnce
=============================================================================
