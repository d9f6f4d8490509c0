------------------------- MODULE ProxyBypassProofs -------------------------
(***************************************************************************)
(* What is proved of routes whose portals move: for any number of moves    *)
(* and parcels, whichever proxies are bypassed, refused a bypass or left   *)
(* behind, and whatever a node reports as an error, each portal gets what  *)
(* the other one has sent, in that order, once (RouteKept).                *)
(*                                                                         *)
(* A parcel carries its number in the stream of its end (Valid), and every *)
(* link says which way it leads: outward, to the other end, or inward, to  *)
(* the next router of the same end (OutLink, Inner). The invariant says    *)
(* that a message or a queue has parcels of the stream its link leads from *)
(* only, that a router is a proxy just when its portal is further on, and  *)
(* that a descriptor on its way, of which there is one at most, says where *)
(* the two streams of its portal stand. `place` says where the portals     *)
(* are.                                                                    *)
(***************************************************************************)
EXTENDS ProxyBypass, FiniteSetTheorems, WellFoundedInduction, TLAPS

(* Every non-empty set of numbers has a least one.                         *)
LEMMA LeastNumber ==
  ASSUME NEW T \in SUBSET Nat, T # {}
  PROVE  \E m \in T : \A k \in T : m <= k
<1> DEFINE R == OpToRel(<, Nat)
<1>1. IsWellFoundedOn(R, Nat)
  BY NatLessThanWellFounded
<1>2. \A x, y \in Nat : <<x, y>> \in R <=> x < y
  BY DEF OpToRel
<1> HIDE DEF R
<1>3. PICK m \in T : \A y \in T : <<y, m>> \notin R
  BY <1>1, WFMin
<1>4. ASSUME NEW k \in T PROVE m <= k
  <2>1. k \in Nat /\ m \in Nat
    OBVIOUS
  <2>2. <<k, m>> \notin R
    BY <1>3
  <2>3. ~(k < m)
    BY <1>2, <2>1, <2>2
  <2> QED BY <2>1, <2>3
<1> QED BY <1>4

-----------------------------------------------------------------------------
(* What has which fields.                                                  *)

IsSeq(s) == Len(s) \in Nat /\ s = [i \in 1 .. Len(s) |-> s[i]]

IsQueue(q) ==
  /\ q = [current |-> q.current, final |-> q.final, buffer |-> q.buffer]
  /\ q.current \in Nat /\ IsFiniteSet(q.buffer)

IsEdge(x) ==
  x = [primary |-> x.primary, decays |-> x.decays, decaying |-> x.decaying,
       to |-> x.to, from |-> x.from]

IsRouter(r) ==
  /\ r = [outward |-> r.outward, inward |-> r.inward, proxying |-> r.proxying,
          inbound |-> r.inbound, outbound |-> r.outbound, peerClosed |-> r.peerClosed]
  /\ IsEdge(r.outward) /\ IsEdge(r.inward) /\ IsQueue(r.inbound) /\ IsQueue(r.outbound)

IsEffect(e) ==
  /\ e = [router |-> e.router, removed |-> e.removed, words |-> e.words,
          sends |-> e.sends, taken |-> e.taken]
  /\ IsRouter(e.router) /\ IsSeq(e.sends) /\ IsSeq(e.taken)

-----------------------------------------------------------------------------
(* Sequences.                                                              *)

LEMMA SeqOf ==
  ASSUME NEW s, IsSeq(s)
  PROVE  s \in Seq({s[i] : i \in 1 .. Len(s)}) /\ DOMAIN s = 1 .. Len(s)
<1> DEFINE T == {s[i] : i \in 1 .. Len(s)}
<1>1. s \in [1 .. Len(s) -> T]
  BY DEF IsSeq
<1>2. Len(s) \in Nat
  BY DEF IsSeq
<1> QED BY <1>1, <1>2

LEMMA IsSeqOf ==
  ASSUME NEW T, NEW s \in Seq(T)
  PROVE  IsSeq(s)
BY DEF IsSeq

LEMMA EmptySeq == IsSeq(<<>>) /\ Len(<<>>) = 0
BY DEF IsSeq

LEMMA SeqOfFunction ==
  ASSUME NEW n \in Nat, NEW s, s = [i \in 1 .. n |-> s[i]]
  PROVE  IsSeq(s) /\ Len(s) = n
<1> DEFINE T == {s[i] : i \in 1 .. n}
<1>1. s \in [1 .. n -> T]
  OBVIOUS
<1>2. s \in Seq(T)
  BY <1>1
<1>3. Len(s) = n
  BY <1>1, <1>2
<1> QED BY <1>2, <1>3, IsSeqOf

LEMMA AppendSeq ==
  ASSUME NEW s, IsSeq(s), NEW x
  PROVE  /\ IsSeq(Append(s, x)) /\ Len(Append(s, x)) = Len(s) + 1
         /\ Append(s, x)[Len(s) + 1] = x
         /\ \A i \in 1 .. Len(s) : Append(s, x)[i] = s[i]
<1> DEFINE T == {s[i] : i \in 1 .. Len(s)} \cup {x}
<1>1. s \in Seq(T)
  <2>1. s \in [1 .. Len(s) -> T] /\ Len(s) \in Nat
    BY DEF IsSeq
  <2> QED BY <2>1
<1>2. x \in T
  OBVIOUS
<1> HIDE DEF T
<1>3. IsSeq(Append(s, x))
  <2>1. Append(s, x) \in Seq(T)
    BY <1>1, <1>2
  <2> QED BY <2>1, IsSeqOf
<1>4. Len(Append(s, x)) = Len(s) + 1 /\ Append(s, x)[Len(s) + 1] = x
  BY <1>1, <1>2
<1>5. \A i \in 1 .. Len(s) : Append(s, x)[i] = s[i]
  BY <1>1, <1>2
<1> QED BY <1>3, <1>4, <1>5

LEMMA TailSeq ==
  ASSUME NEW s, IsSeq(s), s # <<>>
  PROVE  /\ IsSeq(Tail(s)) /\ Len(Tail(s)) = Len(s) - 1 /\ Len(s) >= 1 /\ Head(s) = s[1]
         /\ \A i \in 1 .. Len(s) - 1 : Tail(s)[i] = s[i + 1]
<1> DEFINE T == {s[i] : i \in 1 .. Len(s)}
<1>1. s \in Seq(T)
  BY SeqOf
<1> HIDE DEF T
<1>2. IsSeq(Tail(s))
  <2>1. Tail(s) \in Seq(T)
    BY <1>1
  <2> QED BY <2>1, IsSeqOf
<1>3. Len(Tail(s)) = Len(s) - 1 /\ Len(s) >= 1 /\ Head(s) = s[1]
  BY <1>1
<1>4. \A i \in 1 .. Len(s) - 1 : Tail(s)[i] = s[i + 1]
  BY <1>1
<1> QED BY <1>2, <1>3, <1>4

LEMMA ConcatSeq ==
  ASSUME NEW s, IsSeq(s), NEW t, IsSeq(t)
  PROVE  /\ IsSeq(s \o t) /\ Len(s \o t) = Len(s) + Len(t)
         /\ \A i \in 1 .. Len(s) : (s \o t)[i] = s[i]
         /\ \A i \in 1 .. Len(t) : (s \o t)[Len(s) + i] = t[i]
         /\ \A i \in 1 .. Len(s) + Len(t) :
              i > Len(s) => i - Len(s) \in 1 .. Len(t) /\ (s \o t)[i] = t[i - Len(s)]
<1> DEFINE T == {s[i] : i \in 1 .. Len(s)} \cup {t[i] : i \in 1 .. Len(t)}
<1>1. s \in Seq(T)
  <2>1. s \in [1 .. Len(s) -> T] /\ Len(s) \in Nat
    BY DEF IsSeq
  <2> QED BY <2>1
<1>2. t \in Seq(T)
  <2>1. t \in [1 .. Len(t) -> T] /\ Len(t) \in Nat
    BY DEF IsSeq
  <2> QED BY <2>1
<1> HIDE DEF T
<1>3. IsSeq(s \o t)
  <2>1. s \o t \in Seq(T)
    BY <1>1, <1>2
  <2> QED BY <2>1, IsSeqOf
<1>4. Len(s \o t) = Len(s) + Len(t) /\ Len(s) \in Nat /\ Len(t) \in Nat
  BY <1>1, <1>2
<1>5. \A i \in 1 .. Len(s) : (s \o t)[i] = s[i]
  BY <1>1, <1>2
<1>6. \A i \in 1 .. Len(s) + Len(t) :
        i > Len(s) => i - Len(s) \in 1 .. Len(t) /\ (s \o t)[i] = t[i - Len(s)]
  BY <1>1, <1>2
<1>7. ASSUME NEW i \in 1 .. Len(t) PROVE (s \o t)[Len(s) + i] = t[i]
  <2>1. Len(s) + i \in 1 .. Len(s) + Len(t) /\ Len(s) + i > Len(s) /\ (Len(s) + i) - Len(s) = i
    BY <1>4
  <2> QED BY <1>6, <2>1
<1> QED BY <1>3, <1>4, <1>5, <1>6, <1>7

-----------------------------------------------------------------------------
(* Queues.                                                                 *)

(* A finite set of parcels has no more numbers than parcels, so that a run *)
(* of numbers that starts at c ends within its size.                       *)
LEMMA RunEnds ==
  ASSUME NEW B, IsFiniteSet(B), NEW c \in Nat, NEW H \in SUBSET Nat,
         \A h \in H : \E p \in B : p.seq = h
  PROVE  \E n \in c .. c + Cardinality(B) : n \notin H /\ \A m \in c .. n - 1 : m \in H
<1> DEFINE K == Cardinality(B)
           T == {n \in c .. c + K : n \notin H}
<1>1. K \in Nat
  BY FS_CardinalityType
<1>2. T # {}
  <2> SUFFICES ASSUME T = {} PROVE FALSE
    OBVIOUS
  <2>1. \A h \in c .. c + K : \E p \in B : p.seq = h
    OBVIOUS
  <2> DEFINE f == [h \in c .. c + K |-> CHOOSE p \in B : p.seq = h]
  <2>2. \A h \in c .. c + K : f[h] \in B /\ f[h].seq = h
    BY <2>1
  <2>3. f \in [c .. c + K -> B]
    BY <2>2
  <2> HIDE DEF f
  <2>4. f \in Injection(c .. c + K, B)
    BY <2>2, <2>3 DEF Injection, IsInjective
  <2>5. IsFiniteSet(c .. c + K) /\ Cardinality(c .. c + K) = K + 1
    <3>1. c + K \in Int /\ c \in Int /\ c <= c + K
      BY <1>1
    <3> HIDE DEF K
    <3> QED BY <3>1, <1>1, FS_Interval
  <2>6. Cardinality(c .. c + K) <= K
    BY <2>4, <2>5, FS_Injection
  <2> QED BY <1>1, <2>5, <2>6
<1>3. T \in SUBSET Nat
  BY <1>1
<1>4. PICK n \in T : \A k \in T : n <= k
  BY <1>2, <1>3, LeastNumber
<1>5. n \in c .. c + K /\ n \notin H
  BY <1>4
<1>6. ASSUME NEW m \in c .. n - 1 PROVE m \in H
  <2>1. m \in c .. c + K /\ ~(n <= m)
    BY <1>1, <1>5
  <2> QED BY <1>4, <2>1
<1> QED BY <1>5, <1>6

LEMMA QueueRunEnds ==
  ASSUME NEW q, IsQueue(q), NEW H \in SUBSET Nat,
         \A h \in H : \E p \in q.buffer : p.seq = h
  PROVE  \E n \in q.current .. q.current + Cardinality(q.buffer) :
           n \notin H /\ \A m \in q.current .. n - 1 : m \in H
BY RunEnds DEF IsQueue

LEMMA SequenceLengthFacts ==
  ASSUME NEW q, IsQueue(q)
  PROVE  /\ SequenceLength(q) \in Nat /\ SequenceLength(q) >= q.current
         /\ \A m \in q.current .. SequenceLength(q) - 1 : Holds(q, m)
<1> DEFINE H == {m \in Nat : Holds(q, m)}
           K == Cardinality(q.buffer)
           OK(n) == ~Holds(q, n) /\ \A m \in q.current .. n - 1 : Holds(q, m)
<1>1. q.current \in Nat /\ IsFiniteSet(q.buffer) /\ K \in Nat
  BY FS_CardinalityType DEF IsQueue
<1>2. \A h \in H : \E p \in q.buffer : p.seq = h
  BY DEF Holds
<1>a. H \in SUBSET Nat
  OBVIOUS
<1>b. \A h \in Nat : h \in H <=> Holds(q, h)
  OBVIOUS
<1> HIDE DEF H
<1>3. \E n \in q.current .. q.current + K : n \notin H /\ \A m \in q.current .. n - 1 : m \in H
  <2> HIDE DEF K
  <2>1. K = Cardinality(q.buffer)
    BY DEF K
  <2> QED BY <1>2, <1>a, <2>1, QueueRunEnds
<1>4. \E n \in q.current .. q.current + K : OK(n)
  <2>1. PICK n \in q.current .. q.current + K : n \notin H /\ \A m \in q.current .. n - 1 : m \in H
    BY <1>3
  <2>2. n \in Nat /\ \A m \in q.current .. n - 1 : m \in Nat
    BY <1>1
  <2> QED BY <2>1, <2>2, <1>b
<1> DEFINE L == CHOOSE n \in q.current .. q.current + K : OK(n)
<1>5. L \in q.current .. q.current + K /\ OK(L)
  BY <1>4
<1>6. SequenceLength(q) = L
  BY DEF SequenceLength
<1> HIDE DEF L, K
<1> QED BY <1>1, <1>5, <1>6

LEMMA CollectEndFacts ==
  ASSUME NEW q, IsQueue(q), NEW edge
  PROVE  /\ CollectEnd(q, edge) \in Nat /\ CollectEnd(q, edge) >= q.current
         /\ ~Goes(q, edge, CollectEnd(q, edge))
         /\ \A m \in q.current .. CollectEnd(q, edge) - 1 : Goes(q, edge, m)
<1> DEFINE H == {m \in Nat : Goes(q, edge, m)}
           K == Cardinality(q.buffer)
           OK(n) == ~Goes(q, edge, n) /\ \A m \in q.current .. n - 1 : Goes(q, edge, m)
<1>1. q.current \in Nat /\ IsFiniteSet(q.buffer) /\ K \in Nat
  BY FS_CardinalityType DEF IsQueue
<1>2. \A h \in H : \E p \in q.buffer : p.seq = h
  BY DEF Holds, Goes
<1>a. H \in SUBSET Nat
  OBVIOUS
<1>b. \A h \in Nat : h \in H <=> Goes(q, edge, h)
  OBVIOUS
<1> HIDE DEF H
<1>3. \E n \in q.current .. q.current + K : n \notin H /\ \A m \in q.current .. n - 1 : m \in H
  <2> HIDE DEF K
  <2>1. K = Cardinality(q.buffer)
    BY DEF K
  <2> QED BY <1>2, <1>a, <2>1, QueueRunEnds
<1>4. \E n \in q.current .. q.current + K : OK(n)
  <2>1. PICK n \in q.current .. q.current + K : n \notin H /\ \A m \in q.current .. n - 1 : m \in H
    BY <1>3
  <2>2. n \in Nat /\ \A m \in q.current .. n - 1 : m \in Nat
    BY <1>1
  <2> QED BY <2>1, <2>2, <1>b
<1> DEFINE L == CHOOSE n \in q.current .. q.current + K : OK(n)
<1>5. L \in q.current .. q.current + K /\ OK(L)
  BY <1>4
<1>6. CollectEnd(q, edge) = L
  BY DEF CollectEnd
<1> HIDE DEF L, K
<1> QED BY <1>1, <1>5, <1>6

LEMMA RunFacts ==
  ASSUME NEW q, IsQueue(q), NEW n \in Nat, n >= q.current,
         \A m \in q.current .. n - 1 : Holds(q, m)
  PROVE  /\ IsSeq(Run(q, n)) /\ Len(Run(q, n)) = n - q.current
         /\ \A i \in 1 .. n - q.current :
              Run(q, n)[i] \in q.buffer /\ Run(q, n)[i].seq = q.current + i - 1
<1>1. q.current \in Nat /\ n - q.current \in Nat
  BY DEF IsQueue
<1> DEFINE P(i) == CHOOSE p \in q.buffer : p.seq = q.current + i - 1
<1>2. ASSUME NEW i \in 1 .. n - q.current
      PROVE  P(i) \in q.buffer /\ P(i).seq = q.current + i - 1
  <2>1. q.current + i - 1 \in q.current .. n - 1
    BY <1>1
  <2>2. \E p \in q.buffer : p.seq = q.current + i - 1
    BY <2>1 DEF Holds
  <2> QED BY <2>2
<1>3. Run(q, n) = [i \in 1 .. n - q.current |-> P(i)]
  BY DEF Run
<1> HIDE DEF P
<1>4. \A i \in 1 .. n - q.current : Run(q, n)[i] = P(i)
  BY <1>3
<1>5. Run(q, n) = [i \in 1 .. n - q.current |-> Run(q, n)[i]]
  BY <1>3, <1>4
<1>6. IsSeq(Run(q, n)) /\ Len(Run(q, n)) = n - q.current
  BY <1>1, <1>5, SeqOfFunction
<1> QED BY <1>2, <1>4, <1>6

LEMMA PopToFacts ==
  ASSUME NEW q, IsQueue(q), NEW n \in Nat
  PROVE  /\ IsQueue(PopTo(q, n)) /\ PopTo(q, n).current = n /\ PopTo(q, n).final = q.final
         /\ PopTo(q, n).buffer \subseteq q.buffer
         /\ \A p \in PopTo(q, n).buffer : p.seq >= n
<1> DEFINE B == {p \in q.buffer : p.seq >= n}
<1>1. PopTo(q, n) = [current |-> n, final |-> q.final, buffer |-> B]
  <2>1. PICK c, f, b : q = [current |-> c, final |-> f, buffer |-> b]
    BY DEF IsQueue
  <2> DEFINE x == [q EXCEPT !.current = n]
  <2>2. x = [current |-> n, final |-> f, buffer |-> b]
    BY <2>1
  <2>3. PopTo(q, n) = [x EXCEPT !.buffer = {p \in @ : p.seq >= n}]
    BY DEF PopTo
  <2> HIDE DEF x
  <2>4. PopTo(q, n) = [current |-> n, final |-> f, buffer |-> {p \in b : p.seq >= n}]
    BY <2>2, <2>3
  <2> QED BY <2>1, <2>4
<1>2. IsFiniteSet(B)
  BY FS_Subset DEF IsQueue
<1>3. B \subseteq q.buffer /\ \A p \in B : p.seq >= n
  OBVIOUS
<1> HIDE DEF B
<1> QED BY <1>1, <1>2, <1>3 DEF IsQueue

LEMMA PushFacts ==
  ASSUME NEW q, IsQueue(q), NEW p
  PROVE  /\ IsQueue(Push(q, p)) /\ Push(q, p).current = q.current /\ Push(q, p).final = q.final
         /\ Push(q, p).buffer \subseteq q.buffer \cup {p} /\ p \in Push(q, p).buffer
<1> DEFINE B == {x \in q.buffer : x.seq # p.seq} \cup {p}
<1>1. Push(q, p) = [current |-> q.current, final |-> q.final, buffer |-> B]
  <2>1. PICK c, f, b, T :
          /\ q = [current |-> c, final |-> f, buffer |-> b]
          /\ T = {x \in q.buffer : x.seq # p.seq} \cup {p}
    BY DEF IsQueue
  <2>2. q.current = c /\ q.final = f
    BY <2>1
  <2>3. Push(q, p) = [q EXCEPT !.buffer = T]
    BY <2>1 DEF Push
  <2>4. [q EXCEPT !.buffer = T] = [current |-> c, final |-> f, buffer |-> T]
    BY <2>1
  <2> QED BY <2>1, <2>2, <2>3, <2>4
<1>2. IsFiniteSet(B)
  <2>1. IsFiniteSet({x \in q.buffer : x.seq # p.seq})
    BY FS_Subset DEF IsQueue
  <2> QED BY <2>1, FS_AddElement
<1>3. B \subseteq q.buffer \cup {p} /\ p \in B
  OBVIOUS
<1> HIDE DEF B
<1> QED BY <1>1, <1>2, <1>3 DEF IsQueue

LEMMA SetFinalFacts ==
  ASSUME NEW q, IsQueue(q), NEW length
  PROVE  /\ IsQueue(SetFinal(q, length)) /\ SetFinal(q, length).current = q.current
         /\ SetFinal(q, length).final = length /\ SetFinal(q, length).buffer = q.buffer
<1>1. SetFinal(q, length) = [current |-> q.current, final |-> length, buffer |-> q.buffer]
  BY DEF SetFinal, IsQueue
<1> QED BY <1>1 DEF IsQueue

(* The messages that a flush sends for the parcels of one queue.           *)
ParcelFrom(m, q, edge) ==
  \E p \in q.buffer, l \in {edge.primary, edge.decaying} :
    /\ l # NoLink
    /\ m = [type |-> "AcceptParcel", link |-> l, seq |-> p.seq, body |-> p.body]

LEMMA CollectedFacts ==
  ASSUME NEW q, IsQueue(q), NEW edge
  PROVE  /\ IsSeq(ParcelMessages(Collected(q, edge)))
         /\ \A i \in 1 .. Len(ParcelMessages(Collected(q, edge))) :
              ParcelFrom(ParcelMessages(Collected(q, edge))[i], q, edge)
<1> DEFINE n == CollectEnd(q, edge)
           k == n - q.current
           c == Collected(q, edge)
           M(i) == [type |-> "AcceptParcel", link |-> c[i].link,
                    seq |-> c[i].parcel.seq, body |-> c[i].parcel.body]
<1>1. n \in Nat /\ n >= q.current /\ q.current \in Nat /\ k \in Nat
  BY CollectEndFacts DEF IsQueue
<1>2. \A m \in q.current .. n - 1 : Holds(q, m) /\ LinkFor(edge, m) # NoLink
  BY CollectEndFacts DEF Goes
<1>3. c = [i \in 1 .. k |-> [link |-> LinkFor(edge, q.current + i - 1), parcel |-> Run(q, n)[i]]]
  BY DEF Collected
<1> HIDE DEF n, c
<1>4. \A i \in 1 .. k : Run(q, n)[i] \in q.buffer
  BY <1>1, <1>2, RunFacts
<1>5. DOMAIN c = 1 .. k
  BY <1>3
<1>6. ParcelMessages(c) = [i \in 1 .. k |-> M(i)]
  BY <1>5 DEF ParcelMessages
<1>7. ASSUME NEW i \in 1 .. k
      PROVE  /\ c[i].link \in {edge.primary, edge.decaying} /\ c[i].link # NoLink
             /\ c[i].parcel \in q.buffer
  <2>1. c[i].link = LinkFor(edge, q.current + i - 1) /\ c[i].parcel = Run(q, n)[i]
    BY <1>3
  <2>2. q.current + i - 1 \in q.current .. n - 1
    BY <1>1
  <2>3. LinkFor(edge, q.current + i - 1) \in {edge.primary, edge.decaying}
    BY DEF LinkFor
  <2> QED BY <1>2, <1>4, <2>1, <2>2, <2>3
<1> HIDE DEF M
<1>8. \A i \in 1 .. k : ParcelMessages(c)[i] = M(i)
  BY <1>6
<1>9. ParcelMessages(c) = [i \in 1 .. k |-> ParcelMessages(c)[i]]
  BY <1>6, <1>8
<1> HIDE DEF k
<1>10. IsSeq(ParcelMessages(c)) /\ Len(ParcelMessages(c)) = k
  BY <1>1, <1>9, SeqOfFunction
<1>11. ASSUME NEW i \in 1 .. Len(ParcelMessages(c))
       PROVE  ParcelFrom(ParcelMessages(c)[i], q, edge)
  <2>1. i \in 1 .. k
    BY <1>10
  <2>2. ParcelMessages(c)[i] = [type |-> "AcceptParcel", link |-> c[i].link,
                    seq |-> c[i].parcel.seq, body |-> c[i].parcel.body]
    BY <1>8, <2>1 DEF M
  <2> QED BY <1>7, <2>1, <2>2 DEF ParcelFrom
<1> QED BY <1>10, <1>11 DEF c

-----------------------------------------------------------------------------
(* Routers, links and messages.                                            *)

Pred(n) == <<n[1], n[2] - 1>>
Inner(n) == Link("peripheral", n, Successor(n))

\* The routers up to those that have the portals now.
Places(place) == {n \in Routers : n[2] <= place[End(n)]}

\* What router n may have as an outward link: a central link to a router of the
\* other end, or the link to the proxy it has replaced.
OutLink(n, l, place) ==
  \/ /\ IsCentral(l) /\ l.a \in Places(place) /\ l.b \in Places(place)
     /\ End(l.a) # End(l.b) /\ n \in {l.a, l.b}
  \/ n[2] > 0 /\ l = Inner(Pred(n))

\* A parcel of a stream of `most` parcels.
Valid(p, most) == p.seq \in Nat /\ p.body = p.seq + 1 /\ p.body <= most

\* A message n may send, and one y may get.
SendOk(n, m, place, s) ==
  \/ /\ OutLink(n, m.link, place)
     /\ m.type = "AcceptParcel" => Valid(m, s[End(n)])
     /\ m.type = "AcceptBypassLink" => IsCentral(m.link)
  \/ /\ m.link = Inner(n) /\ n[2] < place[End(n)]
     /\ m.type = "AcceptParcel" => Valid(m, s[Peer(End(n))])
     /\ m.type # "AcceptBypassLink"

MsgOk(y, m, place, s) ==
  /\ y \in Places(place)
  /\ \/ /\ OutLink(y, m.link, place)
        /\ m.type = "AcceptParcel" => Valid(m, s[Peer(End(y))])
     \/ /\ m.link = Inner(y) /\ y[2] < place[End(y)]
        /\ m.type = "AcceptParcel" => Valid(m, s[End(y)])
        /\ m.type # "AcceptBypassLink"

IsDescriptor(m) == m.type = "Descriptor"

LEMMA EndFacts ==
  /\ Ends = {"left", "right"} /\ "left" # "right"
  /\ Peer("left") = "right" /\ Peer("right") = "left"
  /\ \A e \in Ends : Peer(e) \in Ends /\ Peer(e) # e /\ Peer(Peer(e)) = e
  /\ \A e, d \in Ends : d # e => d = Peer(e)
<1>1. Ends = {"left", "right"} /\ "left" # "right"
  BY DEF Ends
<1>2. Peer("left") = "right"
  <2>1. \A d \in Ends : d # "left" <=> d = "right"
    BY <1>1
  <2>2. "right" \in Ends
    BY <1>1
  <2> QED BY <2>1, <2>2 DEF Peer
<1>3. Peer("right") = "left"
  <2>1. \A d \in Ends : d # "right" <=> d = "left"
    BY <1>1
  <2>2. "left" \in Ends
    BY <1>1
  <2> QED BY <2>1, <2>2 DEF Peer
<1> QED BY <1>1, <1>2, <1>3

LEMMA RouterFacts ==
  ASSUME NEW n \in Routers
  PROVE  /\ End(n) \in Ends /\ n[2] \in Nat /\ n[2] <= MaxMoves /\ n = <<End(n), n[2]>>
         /\ \A x \in Routers : End(x) = End(n) /\ x[2] = n[2] => x = n
         /\ n[2] > 0 => Pred(n) \in Routers /\ Successor(Pred(n)) = n
         /\ End(Pred(n)) = End(n) /\ Pred(n)[2] = n[2] - 1
         /\ End(Successor(n)) = End(n) /\ Successor(n)[2] = n[2] + 1
         /\ n[2] < MaxMoves => Successor(n) \in Routers
         /\ Pred(Successor(n)) = n
<1>1. PICK e \in Ends, i \in 0 .. MaxMoves : n = <<e, i>>
  BY DEF Routers
<1>2. MaxMoves \in Nat
  BY ProxyBypassAssumption
<1>3. End(n) = e /\ n[2] = i /\ i \in Nat /\ i <= MaxMoves
  BY <1>1, <1>2 DEF End
<1>4. ASSUME NEW x \in Routers, End(x) = End(n), x[2] = n[2] PROVE x = n
  <2>1. PICK d \in Ends, j \in 0 .. MaxMoves : x = <<d, j>>
    BY DEF Routers
  <2> QED BY <1>1, <1>4, <2>1 DEF End
<1>5. Pred(n) = <<e, i - 1>> /\ Successor(n) = <<e, i + 1>>
  BY <1>1 DEF Pred, Successor
<1>6. i > 0 => Pred(n) \in Routers /\ Successor(Pred(n)) = n
  <2>1. i > 0 => i - 1 \in 0 .. MaxMoves /\ (i - 1) + 1 = i
    BY <1>2, <1>3
  <2>2. Successor(Pred(n)) = <<e, (i - 1) + 1>>
    BY <1>5 DEF Successor
  <2> QED BY <1>1, <1>5, <2>1, <2>2 DEF Routers
<1>7. i < MaxMoves => Successor(n) \in Routers
  <2>1. i < MaxMoves => i + 1 \in 0 .. MaxMoves
    BY <1>2, <1>3
  <2> QED BY <1>5, <2>1 DEF Routers
<1>8. Pred(Successor(n)) = n
  <2>1. Pred(Successor(n)) = <<e, (i + 1) - 1>> /\ (i + 1) - 1 = i
    BY <1>3, <1>5 DEF Pred
  <2> QED BY <1>1, <2>1
<1>9. /\ End(Pred(n)) = e /\ Pred(n)[2] = i - 1
      /\ End(Successor(n)) = e /\ Successor(n)[2] = i + 1
  BY <1>5 DEF End
<1> QED BY <1>1, <1>3, <1>4, <1>6, <1>7, <1>8, <1>9

LEMMA LinkFacts ==
  /\ ~IsCentral(NoLink)
  /\ \A n : Inner(n) # NoLink /\ ~IsCentral(Inner(n)) /\ Inner(n).a = n
  /\ \A n, x : Inner(n) = Inner(x) => n = x
<1>1. \A n : Inner(n).kind = "peripheral" /\ Inner(n).a = n
  BY DEF Inner, Link
<1>2. NoLink.kind = "none"
  BY DEF NoLink, Link
<1> QED BY <1>1, <1>2 DEF IsCentral

LEMMA OutLinkFacts ==
  ASSUME NEW n \in Routers, NEW place, NEW l, OutLink(n, l, place)
  PROVE  l # NoLink /\ l # Inner(n)
<1>1. CASE IsCentral(l)
  BY <1>1, LinkFacts
<1>2. CASE n[2] > 0 /\ l = Inner(Pred(n))
  <2>1. Pred(n) # n
    <3>1. Pred(n)[2] = n[2] - 1 /\ n[2] \in Nat
      BY RouterFacts
    <3> QED BY <3>1
  <2> QED BY <1>2, <2>1, LinkFacts
<1> QED BY <1>1, <1>2 DEF OutLink

(* A message goes to the router across its link, which may get it.         *)
LEMMA SendReaches ==
  ASSUME NEW place \in [Ends -> 0 .. MaxMoves], NEW s, NEW n \in Places(place),
         NEW m, SendOk(n, m, place, s)
  PROVE  /\ MsgOk(Across(n, m.link), m, place, s)
         /\ Across(n, m.link) # n /\ Across(n, m.link) \in Routers
<1> DEFINE l == m.link
           y == Across(n, l)
<1>1. n \in Routers /\ n[2] <= place[End(n)] /\ n[2] \in Nat /\ End(n) \in Ends
  BY RouterFacts DEF Places
<1>2. place[End(n)] \in 0 .. MaxMoves /\ MaxMoves \in Nat
  BY <1>1, ProxyBypassAssumption
<1>3. CASE IsCentral(l) /\ OutLink(n, l, place)
  <2>1. /\ l.a \in Places(place) /\ l.b \in Places(place)
        /\ End(l.a) # End(l.b) /\ n \in {l.a, l.b}
    BY <1>3, LinkFacts DEF OutLink
  <2>2. y \in Places(place) /\ y \in {l.a, l.b} /\ End(y) # End(n)
    BY <2>1 DEF Across
  <2>3. y \in Routers /\ End(y) \in Ends
    BY <2>2, RouterFacts DEF Places
  <2>4. OutLink(y, l, place)
    BY <1>3, <2>1, <2>2 DEF OutLink
  <2>5. Peer(End(y)) = End(n)
    BY <1>1, <2>2, <2>3, EndFacts
  <2>6. m.type = "AcceptParcel" => Valid(m, s[End(n)])
    <3>1. l # Inner(n)
      BY <1>3, LinkFacts
    <3> QED BY <3>1 DEF SendOk
  <2> QED BY <2>2, <2>3, <2>4, <2>5, <2>6 DEF MsgOk
<1>4. CASE ~IsCentral(l) /\ OutLink(n, l, place) /\ l # Inner(n)
  <2>1. n[2] > 0 /\ l = Inner(Pred(n))
    BY <1>4 DEF OutLink
  <2>2. l.a = Pred(n) /\ Pred(n)[2] = n[2] - 1 /\ End(Pred(n)) = End(n) /\ Pred(n) \in Routers
    BY <1>1, <2>1, LinkFacts, RouterFacts
  <2>3. Pred(n) # n
    BY <1>1, <2>2
  <2>4. y = Pred(n)
    BY <2>2, <2>3 DEF Across
  <2>5. y[2] < place[End(y)]
    BY <1>1, <1>2, <2>2, <2>4
  <2>6. y \in Places(place)
    BY <1>1, <1>2, <2>2, <2>4, <2>5 DEF Places
  <2>7. (m.type = "AcceptParcel" => Valid(m, s[End(n)])) /\ m.type # "AcceptBypassLink"
    BY <1>4 DEF SendOk
  <2> QED BY <2>1, <2>2, <2>3, <2>4, <2>5, <2>6, <2>7 DEF MsgOk
<1>5. CASE l = Inner(n)
  <2>1. n[2] < place[End(n)] /\ (m.type = "AcceptParcel" => Valid(m, s[Peer(End(n))]))
        /\ m.type # "AcceptBypassLink"
    <3>1. ~OutLink(n, l, place)
      BY <1>1, <1>5, OutLinkFacts
    <3> QED BY <3>1 DEF SendOk
  <2>2. y = Successor(n)
    BY <1>5 DEF Across, Inner, Link
  <2>3. /\ n[2] < MaxMoves
        /\ Successor(n) \in Routers /\ End(y) = End(n) /\ y[2] = n[2] + 1 /\ Pred(y) = n
    BY <1>1, <1>2, <2>1, <2>2, RouterFacts
  <2>4. y \in Places(place) /\ y # n
    BY <1>1, <1>2, <2>1, <2>2, <2>3 DEF Places
  <2>5. OutLink(y, l, place)
    BY <1>1, <1>5, <2>3 DEF OutLink
  <2> QED BY <2>1, <2>2, <2>3, <2>4, <2>5 DEF MsgOk
<1>6. OutLink(n, l, place) \/ l = Inner(n)
  BY DEF SendOk
<1> QED BY <1>3, <1>4, <1>5, <1>6
-----------------------------------------------------------------------------
(* Flushes.                                                                *)

\* The queue q holds every parcel of a stream of `most` that it has not passed.
Loaded(q, most) ==
  /\ q.current <= most
  /\ \A p \in q.buffer : Valid(p, most)
  /\ \A m \in q.current .. most - 1 : Holds(q, m)

\* Router n before a flush, when its portal has been given k parcels.
Ready(n, r, place, s, k) ==
  /\ IsRouter(r)
  /\ r.proxying \in BOOLEAN /\ (r.proxying <=> n[2] < place[End(n)])
  /\ \A l \in {r.outward.primary, r.outward.decaying} : l = NoLink \/ OutLink(n, l, place)
  /\ \A l \in {r.inward.primary, r.inward.decaying} : l = NoLink \/ l = Inner(n)
  /\ \A p \in r.inbound.buffer : Valid(p, s[Peer(End(n))])
  /\ r.proxying => \A p \in r.outbound.buffer : Valid(p, s[End(n)])
  /\ ~r.proxying =>
       /\ r.inbound.current = k
       /\ r.outward.decaying # NoLink =>
            r.outward.to \in Nat /\ r.outward.to <= r.outbound.current
       /\ r.outward.primary # NoLink => Loaded(r.outbound, s[End(n)])

\* Between two handlers, the portal of an open link has nothing left to send.
RouterOk(n, r, place, s, k) ==
  /\ Ready(n, r, place, s, k)
  /\ ~r.proxying /\ r.outward.primary # NoLink => r.outbound.buffer = {}

\* What a handler of router n is given: where the portals are, how many parcels
\* were sent, how many the portal of n has got; whether n waits for its bypass
\* (calm) and whether n has closed its inward direction (hush); and whether the
\* first message of the handler is the descriptor `head`.
SendFor(n, i, m, c) ==
  /\ SendOk(n, m, c.place, c.sent)
  /\ IsDescriptor(m) => c.described /\ i = 1 /\ m = c.head
  /\ c.hush => ~(m.type = "RouteClosed" /\ m.link = Inner(n))

NewSend(n, m, c) ==
  /\ SendOk(n, m, c.place, c.sent) /\ ~IsDescriptor(m)
  /\ c.hush => ~(m.type = "RouteClosed" /\ m.link = Inner(n))

SendsFor(n, s, c) == IsSeq(s) /\ \A i \in 1 .. Len(s) : SendFor(n, i, s[i], c)

EffectFor(n, e, c) ==
  /\ IsEffect(e)
  /\ \A i \in 1 .. Len(e.taken) :
       e.taken[i].body = c.got + i /\ c.got + i <= c.sent[Peer(End(n))]
  /\ e.router.proxying => Len(e.taken) = 0
  /\ SendsFor(n, e.sends, c)
  /\ c.calm =>
       /\ n[2] > 0 /\ e.router.outward = EdgeOn(Inner(Pred(n)))
       /\ e.router.inbound.final = None /\ ~e.removed
  /\ c.hush => e.router.proxying /\ e.router.inward.primary = NoLink

EffectReady(n, e, c) ==
  EffectFor(n, e, c) /\ Ready(n, e.router, c.place, c.sent, c.got + Len(e.taken))
EffectOk(n, e, c) ==
  EffectFor(n, e, c) /\ RouterOk(n, e.router, c.place, c.sent, c.got + Len(e.taken))

Given(c) == c.place \in [Ends -> 0 .. MaxMoves] /\ c.sent \in [Ends -> Nat] /\ c.got \in Nat

\* The link a flush finds in the outward edge when it begins.
LinkOk(n, l, c) ==
  /\ l = NoLink \/ OutLink(n, l, c.place)
  /\ c.calm => ~IsCentral(l)

LEMMA EdgeFacts ==
  /\ \A l : /\ IsEdge(EdgeOn(l)) /\ EdgeOn(l).primary = l /\ EdgeOn(l).decaying = NoLink
            /\ ~EdgeOn(l).decays /\ EdgeOn(l).to = None /\ EdgeOn(l).from = None
  /\ \A x : IsEdge(x) =>
       /\ IsEdge(ReleasePrimaryLink(x)) /\ ReleasePrimaryLink(x).primary = NoLink
       /\ ReleasePrimaryLink(x).decaying = x.decaying /\ ReleasePrimaryLink(x).to = x.to
  /\ \A x : IsEdge(x) => IsEdge(FinishDecay(x)) /\ FinishDecay(x).primary = x.primary
                         /\ FinishDecay(x).decaying = NoLink
<1>1. \A l : /\ IsEdge(EdgeOn(l)) /\ EdgeOn(l).primary = l /\ EdgeOn(l).decaying = NoLink
             /\ ~EdgeOn(l).decays /\ EdgeOn(l).to = None /\ EdgeOn(l).from = None
  BY DEF EdgeOn, IsEdge
<1>2. ASSUME NEW x, IsEdge(x)
      PROVE  /\ IsEdge(ReleasePrimaryLink(x)) /\ ReleasePrimaryLink(x).primary = NoLink
             /\ ReleasePrimaryLink(x).decaying = x.decaying /\ ReleasePrimaryLink(x).to = x.to
  <2>1. ReleasePrimaryLink(x) = [primary |-> NoLink, decays |-> x.decays,
                                 decaying |-> x.decaying, to |-> x.to, from |-> x.from]
    BY <1>2 DEF IsEdge, ReleasePrimaryLink
  <2> QED BY <2>1 DEF IsEdge
<1>3. ASSUME NEW x, IsEdge(x)
      PROVE  IsEdge(FinishDecay(x)) /\ FinishDecay(x).primary = x.primary
             /\ FinishDecay(x).decaying = NoLink
  BY <1>1 DEF FinishDecay
<1> QED BY <1>1, <1>2, <1>3

LEMMA SameInterval ==
  ASSUME NEW j \in Nat, NEW k \in Nat, 1 .. j = 1 .. k
  PROVE  j = k
<1>1. k > j => k \in 1 .. k /\ k \notin 1 .. j
  OBVIOUS
<1>2. j > k => j \in 1 .. j /\ j \notin 1 .. k
  OBVIOUS
<1> QED BY <1>1, <1>2

LEMMA CollectedLength ==
  ASSUME NEW q, IsQueue(q), NEW edge
  PROVE  Len(ParcelMessages(Collected(q, edge))) = CollectEnd(q, edge) - q.current
<1> DEFINE k == CollectEnd(q, edge) - q.current
           ms == ParcelMessages(Collected(q, edge))
<1>1. k \in Nat
  BY CollectEndFacts DEF IsQueue
<1>2. DOMAIN Collected(q, edge) = 1 .. k
  BY DEF Collected
<1>3. DOMAIN ms = 1 .. k
  BY <1>2 DEF ParcelMessages
<1>4. IsSeq(ms)
  BY CollectedFacts
<1>5. DOMAIN ms = 1 .. Len(ms) /\ Len(ms) \in Nat
  BY <1>4, SeqOf DEF IsSeq
<1> HIDE DEF k, ms
<1>6. 1 .. Len(ms) = 1 .. k
  BY <1>3, <1>5, Zenon
<1>7. Len(ms) = k
  BY <1>1, <1>5, <1>6, SameInterval, Zenon
<1> QED BY <1>7 DEF k, ms

(* What the collection of the outbound queue of a ready portal leaves.     *)
LEMMA PortalCollects ==
  ASSUME NEW q, IsQueue(q), NEW edge, NEW most \in Nat,
         edge.decaying # NoLink => edge.to \in Nat /\ edge.to <= q.current
  PROVE  /\ edge.primary = NoLink => CollectEnd(q, edge) = q.current
         /\ edge.primary # NoLink /\ Loaded(q, most) =>
              /\ CollectEnd(q, edge) = most
              /\ PopTo(q, most).buffer = {} /\ Loaded(PopTo(q, most), most)
<1> DEFINE E == CollectEnd(q, edge)
<1>1. E \in Nat /\ E >= q.current /\ q.current \in Nat
      /\ ~Goes(q, edge, E) /\ \A m \in q.current .. E - 1 : Goes(q, edge, m)
  BY CollectEndFacts DEF IsQueue
<1> HIDE DEF E
<1>2. \A m \in Nat : m >= q.current => LinkFor(edge, m) = edge.primary
  <2>1. ASSUME NEW m \in Nat, m >= q.current PROVE LinkFor(edge, m) = edge.primary
    <3>1. None = -1
      BY DEF None
    <3>2. ~ShouldTransmitOnDecayingLink(edge, m)
      BY <2>1, <1>1, <3>1 DEF ShouldTransmitOnDecayingLink
    <3> QED BY <3>2 DEF LinkFor
  <2> QED BY <2>1
<1>3. ASSUME edge.primary = NoLink PROVE E = q.current
  <2>1. ASSUME E > q.current PROVE FALSE
    <3>1. q.current \in q.current .. E - 1
      BY <1>1, <2>1
    <3>2. LinkFor(edge, q.current) # NoLink
      BY <1>1, <3>1 DEF Goes
    <3> QED BY <1>1, <1>2, <1>3, <3>2
  <2> QED BY <1>1, <2>1
<1>4. ASSUME edge.primary # NoLink, Loaded(q, most)
      PROVE  E = most /\ PopTo(q, most).buffer = {} /\ Loaded(PopTo(q, most), most)
  <2>1. \A m \in Nat : m >= q.current => (Goes(q, edge, m) <=> Holds(q, m))
    BY <1>2, <1>4 DEF Goes
  <2>2. \A p \in q.buffer : p.seq \in Nat /\ p.seq < most
    <3>1. ASSUME NEW p \in q.buffer PROVE p.seq \in Nat /\ p.seq < most
      <4>1. p.seq \in Nat /\ p.body = p.seq + 1 /\ p.body <= most
        BY <1>4 DEF Loaded, Valid
      <4> QED BY <4>1
    <3> QED BY <3>1
  <2>3. \A m \in Nat : Holds(q, m) => m < most
    BY <2>2 DEF Holds
  <2>4. ~(E > most)
    <3>1. SUFFICES ASSUME E > most PROVE FALSE
      OBVIOUS
    <3>2. most >= q.current /\ most \in q.current .. E - 1
      BY <1>1, <1>4, <3>1 DEF Loaded
    <3>3. Holds(q, most)
      BY <1>1, <2>1, <3>2
    <3> QED BY <2>3, <3>3
  <2>5. ~(E < most)
    <3>1. SUFFICES ASSUME E < most PROVE FALSE
      OBVIOUS
    <3>2. E \in q.current .. most - 1
      BY <1>1, <3>1
    <3>3. Holds(q, E)
      BY <1>4, <3>2 DEF Loaded
    <3> QED BY <1>1, <2>1, <3>3
  <2>6. PopTo(q, most).buffer = {}
    <3>1. \A p \in PopTo(q, most).buffer : p \in q.buffer /\ p.seq >= most
      BY PopToFacts
    <3>2. \A p \in PopTo(q, most).buffer : FALSE
      BY <2>2, <3>1
    <3> QED BY <3>2
  <2>7. PopTo(q, most).current = most
    BY PopToFacts
  <2>8. Loaded(PopTo(q, most), most)
    BY <2>6, <2>7 DEF Loaded
  <2> QED BY <1>1, <2>4, <2>5, <2>6, <2>8
<1> QED BY <1>3, <1>4 DEF E
(* What the three passes of a flush do to a router.                        *)
LEMMA RouterShape ==
  ASSUME NEW o, IsEdge(o), NEW i, IsEdge(i), NEW p, NEW qi, IsQueue(qi),
         NEW qo, IsQueue(qo), NEW z, NEW r,
         r = [outward |-> o, inward |-> i, proxying |-> p,
              inbound |-> qi, outbound |-> qo, peerClosed |-> z]
  PROVE  /\ IsRouter(r) /\ r.outward = o /\ r.inward = i /\ r.proxying = p
         /\ r.inbound = qi /\ r.outbound = qo /\ r.peerClosed = z
BY DEF IsRouter

LEMMA AfterCollectShape ==
  ASSUME NEW r, IsRouter(r)
  PROVE  /\ IsRouter(AfterCollect(r))
         /\ AfterCollect(r).outward = r.outward /\ AfterCollect(r).inward = r.inward
         /\ AfterCollect(r).proxying = r.proxying
         /\ AfterCollect(r).outbound = PopTo(r.outbound, CollectEnd(r.outbound, r.outward))
         /\ ~r.proxying => AfterCollect(r).inbound = r.inbound
         /\ AfterCollect(r).inbound.final = r.inbound.final
         /\ AfterCollect(r).inbound.buffer \subseteq r.inbound.buffer
         /\ IsQueue(AfterCollect(r).inbound)
<1> DEFINE qo == PopTo(r.outbound, CollectEnd(r.outbound, r.outward))
           qi == IF r.proxying THEN PopTo(r.inbound, CollectEnd(r.inbound, r.inward))
                 ELSE r.inbound
<1>1. IsQueue(r.inbound) /\ IsQueue(r.outbound) /\ IsEdge(r.outward) /\ IsEdge(r.inward)
  BY DEF IsRouter
<1>2. IsQueue(qo)
  BY <1>1, CollectEndFacts, PopToFacts
<1>3. IsQueue(qi) /\ qi.final = r.inbound.final /\ qi.buffer \subseteq r.inbound.buffer
  BY <1>1, CollectEndFacts, PopToFacts
<1>4. ~r.proxying => qi = r.inbound
  OBVIOUS
<1>5. AfterCollect(r) = [outward |-> r.outward, inward |-> r.inward, proxying |-> r.proxying,
                         inbound |-> qi, outbound |-> qo, peerClosed |-> r.peerClosed]
  <2> DEFINE x == [r EXCEPT !.outbound = qo]
  <2>1. x = [outward |-> r.outward, inward |-> r.inward, proxying |-> r.proxying,
             inbound |-> r.inbound, outbound |-> qo, peerClosed |-> r.peerClosed]
    BY DEF IsRouter
  <2>2. AfterCollect(r) = [x EXCEPT !.inbound = IF r.proxying
                             THEN PopTo(@, CollectEnd(@, r.inward)) ELSE @]
    BY DEF AfterCollect
  <2>3. x.inbound = r.inbound
    BY <2>1
  <2>4. AfterCollect(r) = [x EXCEPT !.inbound = qi]
    BY <2>2, <2>3
  <2> HIDE DEF x, qi, qo
  <2> QED BY <2>1, <2>4
<1> HIDE DEF qo, qi
<1>6. /\ IsRouter(AfterCollect(r)) /\ AfterCollect(r).inbound = qi /\ AfterCollect(r).outbound = qo
      /\ AfterCollect(r).outward = r.outward /\ AfterCollect(r).inward = r.inward
      /\ AfterCollect(r).proxying = r.proxying
  BY <1>1, <1>2, <1>3, <1>5, RouterShape
<1> QED BY <1>3, <1>4, <1>6 DEF qo

LEMMA AfterDecaysShape ==
  ASSUME NEW r, IsRouter(r)
  PROVE  /\ IsRouter(AfterDecays(r)) /\ AfterDecays(r).proxying = r.proxying
         /\ AfterDecays(r).inbound = r.inbound /\ AfterDecays(r).outbound = r.outbound
         /\ AfterDecays(r).outward \in {r.outward, FinishDecay(r.outward)}
         /\ r.outward.decaying = NoLink => AfterDecays(r).outward = r.outward
         /\ AfterDecays(r).inward \in {r.inward, FinishDecay(r.inward)}
<1> DEFINE o == IF OutwardDecayed(r) THEN FinishDecay(r.outward) ELSE r.outward
           i == IF InwardDecayed(r) THEN FinishDecay(r.inward) ELSE r.inward
<1>1. IsQueue(r.inbound) /\ IsQueue(r.outbound) /\ IsEdge(r.outward) /\ IsEdge(r.inward)
  BY DEF IsRouter
<1>2. o \in {r.outward, FinishDecay(r.outward)} /\ i \in {r.inward, FinishDecay(r.inward)}
  OBVIOUS
<1>3. r.outward.decaying = NoLink => o = r.outward
  BY DEF OutwardDecayed, FinishesDecay
<1>4. IsEdge(o) /\ IsEdge(i)
  BY <1>1, <1>2, EdgeFacts
<1>5. AfterDecays(r) = [outward |-> o, inward |-> i, proxying |-> r.proxying,
                        inbound |-> r.inbound, outbound |-> r.outbound,
                        peerClosed |-> r.peerClosed]
  <2> DEFINE x == [r EXCEPT !.outward = o]
  <2>1. x = [outward |-> o, inward |-> r.inward, proxying |-> r.proxying,
             inbound |-> r.inbound, outbound |-> r.outbound, peerClosed |-> r.peerClosed]
    BY DEF IsRouter
  <2>2. AfterDecays(r) = [x EXCEPT !.inward = IF InwardDecayed(r) THEN FinishDecay(@) ELSE @]
    BY DEF AfterDecays
  <2>3. x.inward = r.inward
    BY <2>1
  <2>4. AfterDecays(r) = [x EXCEPT !.inward = i]
    BY <2>2, <2>3
  <2> HIDE DEF x, o, i
  <2> QED BY <2>1, <2>4
<1> HIDE DEF o, i
<1>6. /\ IsRouter(AfterDecays(r)) /\ AfterDecays(r).proxying = r.proxying
      /\ AfterDecays(r).inbound = r.inbound /\ AfterDecays(r).outbound = r.outbound
      /\ AfterDecays(r).outward = o /\ AfterDecays(r).inward = i
  BY <1>1, <1>4, <1>5, RouterShape
<1> QED BY <1>2, <1>3, <1>6

LEMMA AfterDeliveryShape ==
  ASSUME NEW r, IsRouter(r), NEW keep
  PROVE  /\ IsRouter(AfterDelivery(r, keep)) /\ AfterDelivery(r, keep).proxying = r.proxying
         /\ AfterDelivery(r, keep).outbound = r.outbound
         /\ AfterDelivery(r, keep).outward = r.outward
         /\ AfterDelivery(r, keep).inward = r.inward
         /\ AfterDelivery(r, keep).inbound.final = r.inbound.final
         /\ AfterDelivery(r, keep).inbound.buffer \subseteq r.inbound.buffer
         /\ keep \/ r.proxying => AfterDelivery(r, keep) = r
         /\ ~(keep \/ r.proxying) =>
              AfterDelivery(r, keep).inbound.current = SequenceLength(r.inbound)
<1> DEFINE q == PopTo(r.inbound, SequenceLength(r.inbound))
<1>1. IsQueue(r.inbound) /\ IsQueue(r.outbound) /\ IsEdge(r.outward) /\ IsEdge(r.inward)
  BY DEF IsRouter
<1>2. /\ IsQueue(q) /\ q.final = r.inbound.final /\ q.buffer \subseteq r.inbound.buffer
      /\ q.current = SequenceLength(r.inbound)
  BY <1>1, SequenceLengthFacts, PopToFacts
<1>3. CASE keep \/ r.proxying
  <2>1. AfterDelivery(r, keep) = r
    BY <1>3 DEF AfterDelivery
  <2> QED BY <1>3, <2>1
<1>4. CASE ~(keep \/ r.proxying)
  <2>1. AfterDelivery(r, keep) = [outward |-> r.outward, inward |-> r.inward,
           proxying |-> r.proxying, inbound |-> q, outbound |-> r.outbound,
           peerClosed |-> r.peerClosed]
    BY <1>4 DEF AfterDelivery, IsRouter
  <2> HIDE DEF q
  <2>2. /\ IsRouter(AfterDelivery(r, keep)) /\ AfterDelivery(r, keep).proxying = r.proxying
        /\ AfterDelivery(r, keep).inbound = q
        /\ AfterDelivery(r, keep).outbound = r.outbound
        /\ AfterDelivery(r, keep).outward = r.outward
        /\ AfterDelivery(r, keep).inward = r.inward
    BY <1>1, <1>2, <2>1, RouterShape
  <2> QED BY <1>2, <1>4, <2>2
<1> QED BY <1>3, <1>4

LEMMA EffectShape ==
  ASSUME NEW r, IsRouter(r), NEW rm, NEW w, NEW s, IsSeq(s), NEW t, IsSeq(t), NEW e,
         e = [router |-> r, removed |-> rm, words |-> w, sends |-> s, taken |-> t]
  PROVE  /\ IsEffect(e) /\ e.router = r /\ e.removed = rm /\ e.words = w
         /\ e.sends = s /\ e.taken = t
BY DEF IsEffect

(* The router of n after the collection, the decays and the delivery.      *)
LEMMA ForwardedRouter ==
  ASSUME NEW n \in Routers, NEW r, NEW place, NEW s \in [Ends -> Nat], NEW k \in Nat,
         Ready(n, r, place, s, k), NEW keep
  PROVE  LET f == AfterDelivery(AfterDecays(AfterCollect(r)), keep)
             t == PortalTakes(AfterDecays(AfterCollect(r)), keep)
         IN  /\ RouterOk(n, f, place, s, k + Len(t))
             /\ f.proxying = r.proxying /\ f.inbound.final = r.inbound.final
             /\ f.outward.primary = r.outward.primary /\ f.inward.primary = r.inward.primary
             /\ r.outward.decaying = NoLink => f.outward = r.outward
             /\ IsSeq(t) /\ (r.proxying => Len(t) = 0)
             /\ \A i \in 1 .. Len(t) : t[i].body = k + i /\ k + i <= s[Peer(End(n))]
<1> DEFINE a == AfterCollect(r)
           d == AfterDecays(a)
           f == AfterDelivery(d, keep)
           t == PortalTakes(d, keep)
<1>1. IsRouter(r) /\ IsQueue(r.inbound) /\ IsQueue(r.outbound) /\ IsEdge(r.outward) /\ IsEdge(r.inward)
  BY DEF Ready, IsRouter
<1>2. End(n) \in Ends /\ s[End(n)] \in Nat /\ s[Peer(End(n))] \in Nat
  BY RouterFacts, EndFacts
<1>3. /\ IsRouter(a) /\ a.outward = r.outward /\ a.inward = r.inward /\ a.proxying = r.proxying
      /\ a.outbound = PopTo(r.outbound, CollectEnd(r.outbound, r.outward))
      /\ ~r.proxying => a.inbound = r.inbound
      /\ a.inbound.final = r.inbound.final /\ a.inbound.buffer \subseteq r.inbound.buffer
      /\ IsQueue(a.inbound)
  BY <1>1, AfterCollectShape
<1> HIDE DEF a
<1>4. /\ IsRouter(d) /\ d.proxying = a.proxying /\ d.inbound = a.inbound
      /\ d.outbound = a.outbound /\ d.outward \in {a.outward, FinishDecay(a.outward)}
      /\ a.outward.decaying = NoLink => d.outward = a.outward
      /\ d.inward \in {a.inward, FinishDecay(a.inward)}
  BY <1>3, AfterDecaysShape
<1> HIDE DEF d
<1>5. /\ IsRouter(f) /\ f.proxying = d.proxying /\ f.outbound = d.outbound
      /\ f.outward = d.outward /\ f.inward = d.inward
      /\ f.inbound.final = d.inbound.final /\ f.inbound.buffer \subseteq d.inbound.buffer
      /\ keep \/ d.proxying => f = d
      /\ ~(keep \/ d.proxying) => f.inbound.current = SequenceLength(d.inbound)
  BY <1>4, AfterDeliveryShape
<1> HIDE DEF f
<1>6. /\ f.outward.primary = r.outward.primary
      /\ f.outward.decaying \in {NoLink, r.outward.decaying}
      /\ f.outward.decaying # NoLink => f.outward = r.outward
      /\ r.outward.decaying = NoLink => f.outward = r.outward
      /\ f.inward.primary = r.inward.primary /\ f.inward.decaying \in {NoLink, r.inward.decaying}
  BY <1>1, <1>3, <1>4, <1>5, EdgeFacts
<1>7. /\ f.proxying = r.proxying /\ f.inbound.final = r.inbound.final
      /\ f.inbound.buffer \subseteq r.inbound.buffer
      /\ f.outbound = PopTo(r.outbound, CollectEnd(r.outbound, r.outward))
  BY <1>3, <1>4, <1>5
<1>8. /\ CollectEnd(r.outbound, r.outward) \in Nat
      /\ CollectEnd(r.outbound, r.outward) >= r.outbound.current /\ r.outbound.current \in Nat
  BY <1>1, CollectEndFacts DEF IsQueue
<1>9. /\ f.outbound.buffer \subseteq r.outbound.buffer
      /\ f.outbound.current = CollectEnd(r.outbound, r.outward)
  <2> DEFINE E == CollectEnd(r.outbound, r.outward)
  <2>1. E \in Nat /\ f.outbound = PopTo(r.outbound, E)
    BY <1>7, <1>8
  <2> HIDE DEF E
  <2>2. PopTo(r.outbound, E).buffer \subseteq r.outbound.buffer /\ PopTo(r.outbound, E).current = E
    BY <1>1, <2>1, PopToFacts
  <2> QED BY <2>1, <2>2 DEF E
<1>10. /\ IsSeq(t) /\ (r.proxying => Len(t) = 0)
       /\ \A i \in 1 .. Len(t) : t[i].body = k + i /\ k + i <= s[Peer(End(n))]
       /\ ~r.proxying => f.inbound.current = k + Len(t)
  <2>1. CASE keep \/ d.proxying
    <3>1. t = <<>>
      BY <2>1 DEF PortalTakes
    <3>2. ~r.proxying => f.inbound.current = k
      BY <1>3, <1>4, <1>5, <2>1 DEF Ready
    <3> QED BY <3>1, <3>2, EmptySeq
  <2>2. CASE ~(keep \/ d.proxying)
    <3> DEFINE q == r.inbound
               L == SequenceLength(q)
    <3>1. ~r.proxying /\ d.inbound = q /\ q.current = k
      BY <1>3, <1>4, <2>2 DEF Ready
    <3>2. t = Run(q, L)
      BY <2>2, <3>1 DEF PortalTakes
    <3>3. L \in Nat /\ L >= k /\ \A m \in q.current .. L - 1 : Holds(q, m)
      BY <1>1, <3>1, SequenceLengthFacts
    <3>4. f.inbound.current = L
      BY <1>5, <2>2, <3>1
    <3>5. \A p \in q.buffer : Valid(p, s[Peer(End(n))])
      BY DEF Ready
    <3> HIDE DEF q, L, t
    <3>6. /\ IsSeq(t) /\ Len(t) = L - k
          /\ \A i \in 1 .. L - k : t[i] \in q.buffer /\ t[i].seq = k + i - 1
      <4>1. IsQueue(q)
        BY <1>1 DEF q
      <4> QED BY <3>1, <3>2, <3>3, <4>1, RunFacts
    <3>7. ASSUME NEW i \in 1 .. Len(t) PROVE t[i].body = k + i /\ k + i <= s[Peer(End(n))]
      <4>1. t[i].body = t[i].seq + 1 /\ t[i].body <= s[Peer(End(n))]
        BY <3>5, <3>6 DEF Valid
      <4>2. t[i].seq = k + i - 1 /\ i \in Nat
        BY <3>3, <3>6
      <4> QED BY <4>1, <4>2
    <3>8. f.inbound.current = k + Len(t)
      BY <3>3, <3>4, <3>6
    <3> QED BY <3>1, <3>6, <3>7, <3>8
  <2> QED BY <2>1, <2>2
<1> HIDE DEF t
<1>11. Ready(n, f, place, s, k + Len(t))
  <2>1. IsRouter(f) /\ f.proxying \in BOOLEAN /\ (f.proxying <=> n[2] < place[End(n)])
    BY <1>5, <1>7 DEF Ready
  <2>2. \A l \in {f.outward.primary, f.outward.decaying} : l = NoLink \/ OutLink(n, l, place)
    BY <1>6 DEF Ready
  <2>3. \A l \in {f.inward.primary, f.inward.decaying} : l = NoLink \/ l = Inner(n)
    BY <1>6 DEF Ready
  <2>4. \A p \in f.inbound.buffer : Valid(p, s[Peer(End(n))])
    BY <1>7 DEF Ready
  <2>5. f.proxying => \A p \in f.outbound.buffer : Valid(p, s[End(n)])
    BY <1>7, <1>9 DEF Ready
  <2>6. ASSUME ~f.proxying
        PROVE  /\ f.inbound.current = k + Len(t)
               /\ f.outward.decaying # NoLink =>
                    f.outward.to \in Nat /\ f.outward.to <= f.outbound.current
               /\ f.outward.primary # NoLink => Loaded(f.outbound, s[End(n)])
    <3>1. f.inbound.current = k + Len(t)
      BY <1>7, <1>10, <2>6
    <3>2. r.outward.decaying # NoLink => r.outward.to \in Nat /\ r.outward.to <= r.outbound.current
      BY <1>7, <2>6 DEF Ready
    <3>3. f.outward.decaying # NoLink => f.outward.to \in Nat /\ f.outward.to <= f.outbound.current
      BY <1>6, <1>8, <1>9, <3>2
    <3>4. ASSUME f.outward.primary # NoLink PROVE Loaded(f.outbound, s[End(n)])
      <4>1. r.outward.primary # NoLink /\ Loaded(r.outbound, s[End(n)])
        BY <1>6, <1>7, <2>6, <3>4 DEF Ready
      <4> QED BY <1>1, <1>2, <1>7, <3>2, <4>1, PortalCollects
    <3> QED BY <3>1, <3>3, <3>4
  <2> QED BY <2>1, <2>2, <2>3, <2>4, <2>5, <2>6 DEF Ready
<1>12. ASSUME ~f.proxying, f.outward.primary # NoLink PROVE f.outbound.buffer = {}
  <2>1. /\ r.outward.primary # NoLink /\ Loaded(r.outbound, s[End(n)])
        /\ r.outward.decaying # NoLink => r.outward.to \in Nat /\ r.outward.to <= r.outbound.current
    BY <1>6, <1>7, <1>12 DEF Ready
  <2> QED BY <1>1, <1>2, <1>7, <2>1, PortalCollects
<1>13. RouterOk(n, f, place, s, k + Len(t))
  BY <1>11, <1>12 DEF RouterOk
<1> QED BY <1>6, <1>7, <1>10, <1>13 DEF a, d, f, t
LEMMA SendsAppend ==
  ASSUME NEW n, NEW c, NEW s, SendsFor(n, s, c), NEW m, NewSend(n, m, c)
  PROVE  SendsFor(n, Append(s, m), c)
<1> DEFINE t == Append(s, m)
<1>1. /\ IsSeq(t) /\ Len(t) = Len(s) + 1 /\ t[Len(s) + 1] = m
      /\ \A i \in 1 .. Len(s) : t[i] = s[i]
  BY AppendSeq DEF SendsFor
<1>2. Len(s) \in Nat
  BY DEF SendsFor, IsSeq
<1> HIDE DEF t
<1>3. ASSUME NEW i \in 1 .. Len(t) PROVE SendFor(n, i, t[i], c)
  <2>1. CASE i \in 1 .. Len(s)
    BY <1>1, <2>1 DEF SendsFor
  <2>2. CASE i = Len(s) + 1
    BY <1>1, <2>2 DEF NewSend, SendFor
  <2> QED BY <1>1, <1>2, <2>1, <2>2
<1> QED BY <1>1, <1>3 DEF SendsFor, t

LEMMA SendsConcat ==
  ASSUME NEW n, NEW c, NEW s, SendsFor(n, s, c), NEW t, IsSeq(t),
         \A i \in 1 .. Len(t) : NewSend(n, t[i], c)
  PROVE  SendsFor(n, s \o t, c)
<1> DEFINE u == s \o t
<1>1. /\ IsSeq(u) /\ Len(u) = Len(s) + Len(t)
      /\ \A i \in 1 .. Len(s) : u[i] = s[i]
      /\ \A i \in 1 .. Len(s) + Len(t) :
           i > Len(s) => i - Len(s) \in 1 .. Len(t) /\ u[i] = t[i - Len(s)]
  BY ConcatSeq DEF SendsFor
<1>2. Len(s) \in Nat /\ Len(t) \in Nat
  BY DEF SendsFor, IsSeq
<1> HIDE DEF u
<1>3. ASSUME NEW i \in 1 .. Len(u) PROVE SendFor(n, i, u[i], c)
  <2>1. CASE i \in 1 .. Len(s)
    BY <1>1, <2>1 DEF SendsFor
  <2>2. CASE i > Len(s)
    <3>1. NewSend(n, u[i], c)
      BY <1>1, <2>2
    <3> QED BY <3>1 DEF NewSend, SendFor
  <2> QED BY <1>1, <1>2, <2>1, <2>2
<1> QED BY <1>1, <1>3 DEF SendsFor, u

(* The parcels that a flush sends on.                                      *)
LEMMA CollectedSends ==
  ASSUME NEW n \in Routers, NEW c, Given(c), NEW r, NEW k, Ready(n, r, c.place, c.sent, k)
  PROVE  /\ IsSeq(ParcelMessages(Collected(r.outbound, r.outward)))
         /\ \A i \in 1 .. Len(ParcelMessages(Collected(r.outbound, r.outward))) :
              NewSend(n, ParcelMessages(Collected(r.outbound, r.outward))[i], c)
         /\ IsSeq(ParcelMessages(Collected(r.inbound, r.inward)))
         /\ r.proxying => \A i \in 1 .. Len(ParcelMessages(Collected(r.inbound, r.inward))) :
              NewSend(n, ParcelMessages(Collected(r.inbound, r.inward))[i], c)
<1> DEFINE out == ParcelMessages(Collected(r.outbound, r.outward))
           in == ParcelMessages(Collected(r.inbound, r.inward))
<1>1. IsQueue(r.inbound) /\ IsQueue(r.outbound)
  BY DEF Ready, IsRouter
<1>2. /\ IsSeq(out)
      /\ \A i \in 1 .. Len(out) : ParcelFrom(out[i], r.outbound, r.outward)
  BY <1>1, CollectedFacts
<1>a. /\ IsSeq(in)
      /\ \A i \in 1 .. Len(in) : ParcelFrom(in[i], r.inbound, r.inward)
  BY <1>1, CollectedFacts
<1>3. Len(out) = CollectEnd(r.outbound, r.outward) - r.outbound.current
  BY <1>1, CollectedLength
<1> HIDE DEF out, in
<1>4. ASSUME NEW i \in 1 .. Len(out) PROVE NewSend(n, out[i], c)
  <2>1. PICK p \in r.outbound.buffer, l \in {r.outward.primary, r.outward.decaying} :
             /\ l # NoLink
             /\ out[i] = [type |-> "AcceptParcel", link |-> l, seq |-> p.seq, body |-> p.body]
    BY <1>2 DEF ParcelFrom
  <2>2. OutLink(n, l, c.place)
    BY <2>1 DEF Ready
  <2>3. Valid(p, c.sent[End(n)])
    <3>1. CASE r.proxying
      BY <3>1 DEF Ready
    <3>2. CASE ~r.proxying
      <4>1. r.outward.decaying # NoLink => r.outward.to \in Nat /\ r.outward.to <= r.outbound.current
        BY <3>2 DEF Ready
      <4>2. c.sent[End(n)] \in Nat
        BY RouterFacts DEF Given
      <4>3. r.outward.primary = NoLink => CollectEnd(r.outbound, r.outward) = r.outbound.current
        BY <1>1, <4>1, <4>2, PortalCollects
      <4>4. r.outbound.current \in Nat
        BY <1>1 DEF IsQueue
      <4>5. r.outward.primary # NoLink
        BY <1>3, <4>3, <4>4
      <4>6. Loaded(r.outbound, c.sent[End(n)])
        BY <3>2, <4>5 DEF Ready
      <4> QED BY <4>6 DEF Loaded
    <3> QED BY <3>1, <3>2
  <2>4. /\ out[i].type = "AcceptParcel" /\ out[i].link = l
        /\ out[i].seq = p.seq /\ out[i].body = p.body
    BY <2>1
  <2>5. SendOk(n, out[i], c.place, c.sent)
    BY <2>2, <2>3, <2>4 DEF SendOk, Valid
  <2> QED BY <2>4, <2>5 DEF NewSend, IsDescriptor
<1>5. ASSUME r.proxying, NEW i \in 1 .. Len(in) PROVE NewSend(n, in[i], c)
  <2>1. PICK p \in r.inbound.buffer, l \in {r.inward.primary, r.inward.decaying} :
             /\ l # NoLink
             /\ in[i] = [type |-> "AcceptParcel", link |-> l, seq |-> p.seq, body |-> p.body]
    BY <1>a DEF ParcelFrom
  <2>2. l = Inner(n) /\ n[2] < c.place[End(n)] /\ Valid(p, c.sent[Peer(End(n))])
    BY <1>5, <2>1 DEF Ready
  <2>3. /\ in[i].type = "AcceptParcel" /\ in[i].link = l
        /\ in[i].seq = p.seq /\ in[i].body = p.body
    BY <2>1
  <2>4. SendOk(n, in[i], c.place, c.sent)
    BY <2>2, <2>3 DEF SendOk, Valid
  <2> QED BY <2>3, <2>4 DEF NewSend, IsDescriptor
<1> QED BY <1>2, <1>a, <1>4, <1>5 DEF out, in

LEMMA ForwardedOk ==
  ASSUME NEW n \in Routers, NEW c, Given(c), NEW e, EffectReady(n, e, c), NEW keep
  PROVE  /\ EffectOk(n, Forwarded(e, keep), c)
         /\ Forwarded(e, keep).router.outward.primary = e.router.outward.primary
         /\ Forwarded(e, keep).router.proxying = e.router.proxying
<1> DEFINE r == e.router
           d == AfterDecays(AfterCollect(r))
           g == AfterDelivery(d, keep)
           t == PortalTakes(d, keep)
           out == ParcelMessages(Collected(r.outbound, r.outward))
           in == IF r.proxying THEN ParcelMessages(Collected(r.inbound, r.inward)) ELSE <<>>
           f == Forwarded(e, keep)
           k == c.got + Len(e.taken)
           gone == r.proxying /\ HasNoLinks(d.outward)
<1>1. /\ IsEffect(e) /\ Ready(n, r, c.place, c.sent, k) /\ EffectFor(n, e, c)
      /\ c.got \in Nat /\ c.sent \in [Ends -> Nat]
      /\ SendsFor(n, e.sends, c) /\ IsSeq(e.taken) /\ Len(e.taken) \in Nat
  BY DEF EffectReady, EffectFor, IsEffect, Given, IsSeq
<1>2. /\ RouterOk(n, g, c.place, c.sent, k + Len(t))
      /\ g.proxying = r.proxying /\ g.inbound.final = r.inbound.final
      /\ g.outward.primary = r.outward.primary /\ g.inward.primary = r.inward.primary
      /\ r.outward.decaying = NoLink => g.outward = r.outward
      /\ IsSeq(t) /\ (r.proxying => Len(t) = 0)
      /\ \A i \in 1 .. Len(t) : t[i].body = k + i /\ k + i <= c.sent[Peer(End(n))]
  <2>1. k \in Nat
    BY <1>1
  <2> QED BY <1>1, <2>1, ForwardedRouter
<1>3. /\ IsSeq(out) /\ \A i \in 1 .. Len(out) : NewSend(n, out[i], c)
      /\ IsSeq(in) /\ \A i \in 1 .. Len(in) : NewSend(n, in[i], c)
  <2>1. IsSeq(out) /\ \A i \in 1 .. Len(out) : NewSend(n, out[i], c)
    BY <1>1, CollectedSends
  <2>2. CASE r.proxying
    <3>1. in = ParcelMessages(Collected(r.inbound, r.inward))
      BY <2>2
    <3> HIDE DEF in
    <3>2. IsSeq(in) /\ \A i \in 1 .. Len(in) : NewSend(n, in[i], c)
      BY <1>1, <2>2, <3>1, CollectedSends
    <3> QED BY <2>1, <3>2
  <2>3. CASE ~r.proxying
    <3>1. in = <<>>
      BY <2>3
    <3> HIDE DEF in
    <3>2. IsSeq(in) /\ \A i \in 1 .. Len(in) : NewSend(n, in[i], c)
      BY <3>1, EmptySeq
    <3> QED BY <2>1, <3>2
  <2> QED BY <2>2, <2>3
<1>4. d.outward = g.outward
  <2>1. IsRouter(r)
    BY <1>1 DEF Ready
  <2>2. IsRouter(d)
    BY <2>1, AfterCollectShape, AfterDecaysShape
  <2> QED BY <2>2, AfterDeliveryShape
<1>5. f = [router |-> g, removed |-> gone, words |-> e.words,
           sends |-> e.sends \o out \o in, taken |-> e.taken \o t]
  <2> DEFINE w == [e EXCEPT !.router = g]
             x == [w EXCEPT !.removed = gone]
             y == [x EXCEPT !.sends = @ \o out \o in]
  <2>1. f = [y EXCEPT !.taken = @ \o t]
    BY DEF Forwarded, AfterForwarding
  <2> HIDE DEF g, t, out, in, f, k, d, gone
  <2>2. PICK er, em, ew, es, et :
          e = [router |-> er, removed |-> em, words |-> ew, sends |-> es, taken |-> et]
    BY <1>1 DEF IsEffect
  <2>3. w = [router |-> g, removed |-> em, words |-> ew, sends |-> es, taken |-> et]
    BY <2>2
  <2> HIDE DEF w
  <2>4. x = [router |-> g, removed |-> gone, words |-> ew, sends |-> es, taken |-> et]
    BY <2>3
  <2> HIDE DEF x
  <2>5. y = [router |-> g, removed |-> gone, words |-> ew, sends |-> es \o out \o in,
             taken |-> et]
    <3>1. x.sends \o out \o in = es \o out \o in
      BY <2>4
    <3> DEFINE z == es \o out \o in
    <3>2. y = [x EXCEPT !.sends = z]
      BY <3>1
    <3> HIDE DEF y, z
    <3>3. y = [router |-> g, removed |-> gone, words |-> ew, sends |-> z, taken |-> et]
      BY <2>4, <3>2
    <3> QED BY <3>3 DEF z
  <2> HIDE DEF y
  <2>6. f = [router |-> g, removed |-> gone, words |-> ew, sends |-> es \o out \o in,
             taken |-> et \o t]
    BY <2>1, <2>5
  <2> QED BY <2>2, <2>6
<1> HIDE DEF g, t, out, in, f, k, d
<1>6. SendsFor(n, e.sends \o out \o in, c)
  <2>1. SendsFor(n, e.sends \o out, c)
    BY <1>1, <1>3, SendsConcat
  <2> QED BY <1>3, <2>1, SendsConcat
<1>7. /\ IsSeq(e.taken \o t) /\ Len(e.taken \o t) = Len(e.taken) + Len(t)
      /\ \A i \in 1 .. Len(e.taken) : (e.taken \o t)[i] = e.taken[i]
      /\ \A i \in 1 .. Len(e.taken) + Len(t) :
           i > Len(e.taken) => i - Len(e.taken) \in 1 .. Len(t)
                               /\ (e.taken \o t)[i] = t[i - Len(e.taken)]
  BY <1>1, <1>2, ConcatSeq
<1>8. IsRouter(g)
  BY <1>2 DEF RouterOk, Ready
<1>9. /\ IsEffect(f) /\ f.router = g /\ f.removed = gone
      /\ f.sends = e.sends \o out \o in /\ f.taken = e.taken \o t
  <2>1. IsSeq(e.sends \o out \o in)
    BY <1>6 DEF SendsFor
  <2>2. /\ f.router = g /\ f.removed = gone /\ f.words = e.words
        /\ f.sends = e.sends \o out \o in /\ f.taken = e.taken \o t
    BY <1>5
  <2>3. f = [router |-> f.router, removed |-> f.removed, words |-> f.words,
             sends |-> f.sends, taken |-> f.taken]
    BY <1>5, <2>2
  <2> QED BY <1>7, <1>8, <2>1, <2>2, <2>3 DEF IsEffect
<1>10. ASSUME NEW i \in 1 .. Len(f.taken)
       PROVE  f.taken[i].body = c.got + i /\ c.got + i <= c.sent[Peer(End(n))]
  <2>1. i \in 1 .. Len(e.taken) + Len(t) /\ Len(t) \in Nat
    BY <1>2, <1>7, <1>9 DEF IsSeq
  <2>2. CASE i \in 1 .. Len(e.taken)
    BY <1>1, <1>7, <1>9, <2>2 DEF EffectFor
  <2>3. CASE i > Len(e.taken)
    <3>1. i - Len(e.taken) \in 1 .. Len(t) /\ f.taken[i] = t[i - Len(e.taken)]
      BY <1>7, <1>9, <2>1, <2>3
    <3>2. f.taken[i].body = k + (i - Len(e.taken)) /\ k + (i - Len(e.taken)) <= c.sent[Peer(End(n))]
      BY <1>2, <3>1
    <3>3. k + (i - Len(e.taken)) = c.got + i
      BY <1>1, <2>1 DEF k
    <3> QED BY <3>2, <3>3
  <2> QED BY <1>1, <2>1, <2>2, <2>3
<1>11. f.router.proxying => Len(f.taken) = 0
  BY <1>1, <1>2, <1>7, <1>9 DEF EffectFor
<1>12. c.calm => /\ n[2] > 0 /\ f.router.outward = EdgeOn(Inner(Pred(n)))
                 /\ f.router.inbound.final = None /\ ~f.removed
  <2>1. SUFFICES ASSUME c.calm
                 PROVE  /\ n[2] > 0 /\ g.outward = EdgeOn(Inner(Pred(n)))
                        /\ g.inbound.final = None /\ ~gone
    BY <1>9
  <2>2. n[2] > 0 /\ r.outward = EdgeOn(Inner(Pred(n))) /\ r.inbound.final = None
    BY <1>1, <2>1 DEF EffectFor
  <2>3. g.outward = EdgeOn(Inner(Pred(n))) /\ g.inbound.final = None
    BY <1>2, <2>2, EdgeFacts
  <2>4. ~HasNoLinks(g.outward)
    BY <2>3, EdgeFacts, LinkFacts DEF HasNoLinks
  <2> QED BY <1>4, <2>2, <2>3, <2>4
<1>13. c.hush => f.router.proxying /\ f.router.inward.primary = NoLink
  BY <1>1, <1>2, <1>9 DEF EffectFor
<1>14. EffectFor(n, f, c)
  BY <1>6, <1>9, <1>10, <1>11, <1>12, <1>13 DEF EffectFor
<1>15. RouterOk(n, f.router, c.place, c.sent, c.got + Len(f.taken))
  <2>1. c.got + Len(f.taken) = k + Len(t)
    <3>1. Len(f.taken) = Len(e.taken) + Len(t) /\ k = c.got + Len(e.taken)
      BY <1>7, <1>9 DEF k
    <3>2. Len(t) \in Nat
      BY <1>2 DEF IsSeq
    <3> QED BY <1>1, <3>1, <3>2
  <2> QED BY <1>2, <1>9, <2>1
<1>16. EffectOk(n, f, c)
  BY <1>14, <1>15 DEF EffectOk
<1> QED BY <1>2, <1>9, <1>16 DEF f
LEMMA ReleaseKeeps ==
  ASSUME NEW n, NEW place, NEW s, NEW k, NEW r, RouterOk(n, r, place, s, k),
         NEW q, IsRouter(q), q.proxying = r.proxying,
         q.inbound = r.inbound, q.outbound = r.outbound,
         q.outward \in {r.outward, ReleasePrimaryLink(r.outward)},
         q.inward \in {r.inward, ReleasePrimaryLink(r.inward)}
  PROVE  RouterOk(n, q, place, s, k)
<1>1. Ready(n, r, place, s, k) /\ IsEdge(r.outward) /\ IsEdge(r.inward)
  BY DEF RouterOk, Ready, IsRouter
<1>2. /\ q.outward.primary \in {NoLink, r.outward.primary}
      /\ q.outward.decaying = r.outward.decaying /\ q.outward.to = r.outward.to
      /\ q.inward.primary \in {NoLink, r.inward.primary}
      /\ q.inward.decaying = r.inward.decaying
  BY <1>1, EdgeFacts
<1>3. \A l \in {q.outward.primary, q.outward.decaying} : l = NoLink \/ OutLink(n, l, place)
  BY <1>1, <1>2 DEF Ready
<1>4. \A l \in {q.inward.primary, q.inward.decaying} : l = NoLink \/ l = Inner(n)
  BY <1>1, <1>2 DEF Ready
<1>5. Ready(n, q, place, s, k)
  BY <1>1, <1>2, <1>3, <1>4 DEF Ready
<1>6. ~q.proxying /\ q.outward.primary # NoLink => q.outbound.buffer = {}
  BY <1>2 DEF RouterOk
<1> QED BY <1>5, <1>6 DEF RouterOk

(* An effect to which a step of the flush adds at most messages.           *)
LEMMA EffectGoesOn ==
  ASSUME NEW n, NEW c, NEW e, EffectOk(n, e, c), NEW f,
         f = [router |-> f.router, removed |-> f.removed, words |-> f.words,
              sends |-> f.sends, taken |-> f.taken],
         f.taken = e.taken, f.removed = e.removed,
         IsRouter(f.router), f.router.proxying = e.router.proxying,
         f.router.inbound = e.router.inbound, f.router.outbound = e.router.outbound,
         f.router.outward \in {e.router.outward, ReleasePrimaryLink(e.router.outward)},
         f.router.inward \in {e.router.inward, ReleasePrimaryLink(e.router.inward)},
         c.calm => f.router.outward = e.router.outward,
         SendsFor(n, f.sends, c)
  PROVE  EffectOk(n, f, c)
<1>1. /\ EffectFor(n, e, c) /\ IsEffect(e)
      /\ RouterOk(n, e.router, c.place, c.sent, c.got + Len(e.taken))
  BY DEF EffectOk, EffectFor
<1>2. RouterOk(n, f.router, c.place, c.sent, c.got + Len(f.taken))
  BY <1>1, ReleaseKeeps
<1>3. IsEffect(f)
  BY <1>1 DEF IsEffect, SendsFor
<1>4. c.hush => f.router.proxying /\ f.router.inward.primary = NoLink
  <2>1. IsEdge(e.router.inward)
    BY <1>1 DEF IsEffect, IsRouter
  <2> QED BY <1>1, <2>1, EdgeFacts DEF EffectFor
<1>5. c.calm => /\ n[2] > 0 /\ f.router.outward = EdgeOn(Inner(Pred(n)))
                /\ f.router.inbound.final = None /\ ~f.removed
  BY <1>1 DEF EffectFor
<1>6. EffectFor(n, f, c)
  BY <1>1, <1>3, <1>4, <1>5 DEF EffectFor
<1> QED BY <1>2, <1>6 DEF EffectOk

(* The steps a flush is made of, after the decays.                         *)
Tried(e, l, side) == [e EXCEPT !.words[l] = AfterTryLock(@, side)]
Woken(e, l, side) == [e EXCEPT !.words[l].waiting = @ \ {side}]
ReleasedOut(e) == [e EXCEPT !.router.outward = ReleasePrimaryLink(@)]
ReleasedIn(e) == [e EXCEPT !.router.inward = ReleasePrimaryLink(@)]
Sending(e, m) == [e EXCEPT !.sends = Append(@, m)]

LEMMA WordsOk ==
  ASSUME NEW n, NEW c, NEW e, EffectOk(n, e, c), NEW l, NEW side
  PROVE  /\ EffectOk(n, Tried(e, l, side), c) /\ Tried(e, l, side).router = e.router
         /\ EffectOk(n, Woken(e, l, side), c) /\ Woken(e, l, side).router = e.router
         /\ EffectOk(n, MarkStable(e, l, side), c) /\ MarkStable(e, l, side).router = e.router
         /\ MarkStable(e, l, side).removed = e.removed
<1>1. PICK er, em, ew, es, et :
        e = [router |-> er, removed |-> em, words |-> ew, sends |-> es, taken |-> et]
  BY DEF EffectOk, EffectFor, IsEffect
<1>2. IsRouter(er) /\ SendsFor(n, es, c)
  BY <1>1 DEF EffectOk, EffectFor, IsEffect
<1>3. ASSUME NEW f, NEW w,
             f = [router |-> er, removed |-> em, words |-> w, sends |-> es, taken |-> et]
      PROVE  EffectOk(n, f, c) /\ f.router = e.router /\ f.removed = e.removed
  <2>1. /\ f.router = e.router /\ f.removed = e.removed /\ f.sends = e.sends
        /\ f.taken = e.taken /\ f.router = er /\ e.sends = es
    BY <1>1, <1>3
  <2>2. f = [router |-> f.router, removed |-> f.removed, words |-> f.words,
             sends |-> f.sends, taken |-> f.taken]
    BY <1>3
  <2> QED BY <1>2, <2>1, <2>2, EffectGoesOn
<1>4. Tried(e, l, side)
        = [router |-> er, removed |-> em, words |-> [ew EXCEPT ![l] = AfterTryLock(@, side)],
           sends |-> es, taken |-> et]
  BY <1>1 DEF Tried
<1>5. Woken(e, l, side)
        = [router |-> er, removed |-> em, words |-> [ew EXCEPT ![l].waiting = @ \ {side}],
           sends |-> es, taken |-> et]
  BY <1>1 DEF Woken
<1>6. MarkStable(e, l, side)
        = [router |-> er, removed |-> em, words |-> [ew EXCEPT ![l].stable = @ \cup {side}],
           sends |-> es, taken |-> et]
  BY <1>1 DEF MarkStable
<1> QED BY <1>3, <1>4, <1>5, <1>6

LEMMA ReleasedOk ==
  ASSUME NEW n, NEW c, NEW e, EffectOk(n, e, c)
  PROVE  /\ ~c.calm => EffectOk(n, ReleasedOut(e), c)
         /\ EffectOk(n, ReleasedIn(e), c)
<1>1. PICK r, em, ew, es, et :
        e = [router |-> r, removed |-> em, words |-> ew, sends |-> es, taken |-> et]
  BY DEF EffectOk, EffectFor, IsEffect
<1>2. IsRouter(r) /\ SendsFor(n, es, c) /\ e.router = r /\ e.sends = es
  BY <1>1 DEF EffectOk, EffectFor, IsEffect
<1>3. PICK o, i, p, qi, qo, z :
        r = [outward |-> o, inward |-> i, proxying |-> p,
             inbound |-> qi, outbound |-> qo, peerClosed |-> z]
  BY <1>2 DEF IsRouter
<1>4. /\ IsEdge(o) /\ IsEdge(i) /\ IsQueue(qi) /\ IsQueue(qo)
      /\ IsEdge(ReleasePrimaryLink(o)) /\ IsEdge(ReleasePrimaryLink(i))
  BY <1>2, <1>3, EdgeFacts DEF IsRouter
<1> DEFINE q1 == [outward |-> ReleasePrimaryLink(o), inward |-> i, proxying |-> p,
                  inbound |-> qi, outbound |-> qo, peerClosed |-> z]
           q2 == [outward |-> o, inward |-> ReleasePrimaryLink(i), proxying |-> p,
                  inbound |-> qi, outbound |-> qo, peerClosed |-> z]
<1>5. ReleasedOut(e) = [router |-> q1, removed |-> em, words |-> ew, sends |-> es, taken |-> et]
  BY <1>1, <1>3 DEF ReleasedOut
<1>6. ReleasedIn(e) = [router |-> q2, removed |-> em, words |-> ew, sends |-> es, taken |-> et]
  BY <1>1, <1>3 DEF ReleasedIn
<1>7. /\ IsRouter(q1) /\ q1.proxying = r.proxying /\ q1.inbound = r.inbound
      /\ q1.outbound = r.outbound /\ q1.inward = r.inward
      /\ q1.outward = ReleasePrimaryLink(r.outward)
  BY <1>3, <1>4 DEF IsRouter
<1>8. /\ IsRouter(q2) /\ q2.proxying = r.proxying /\ q2.inbound = r.inbound
      /\ q2.outbound = r.outbound /\ q2.outward = r.outward
      /\ q2.inward = ReleasePrimaryLink(r.inward)
  BY <1>3, <1>4 DEF IsRouter
<1> HIDE DEF q1, q2
<1>9. ASSUME NEW f, NEW q, IsRouter(q), q.proxying = r.proxying,
             q.inbound = r.inbound, q.outbound = r.outbound,
             q.outward \in {r.outward, ReleasePrimaryLink(r.outward)},
             q.inward \in {r.inward, ReleasePrimaryLink(r.inward)},
             c.calm => q.outward = r.outward,
             f = [router |-> q, removed |-> em, words |-> ew, sends |-> es, taken |-> et]
      PROVE  EffectOk(n, f, c)
  <2>1. /\ f.router = q /\ f.removed = e.removed /\ f.sends = es /\ f.taken = e.taken
    BY <1>1, <1>9
  <2>2. f = [router |-> f.router, removed |-> f.removed, words |-> f.words,
             sends |-> f.sends, taken |-> f.taken]
    BY <1>9
  <2> QED BY <1>2, <1>9, <2>1, <2>2, EffectGoesOn
<1>10. ~c.calm => EffectOk(n, ReleasedOut(e), c)
  BY <1>5, <1>7, <1>9
<1>11. EffectOk(n, ReleasedIn(e), c)
  BY <1>6, <1>8, <1>9
<1> QED BY <1>10, <1>11

LEMMA SendingOk ==
  ASSUME NEW n, NEW c, NEW e, EffectOk(n, e, c), NEW m, NewSend(n, m, c)
  PROVE  EffectOk(n, Sending(e, m), c)
<1>1. PICK r, em, ew, es, et :
        e = [router |-> r, removed |-> em, words |-> ew, sends |-> es, taken |-> et]
  BY DEF EffectOk, EffectFor, IsEffect
<1>2. IsRouter(r) /\ SendsFor(n, es, c) /\ e.router = r
  BY <1>1 DEF EffectOk, EffectFor, IsEffect
<1> DEFINE f == Sending(e, m)
<1>3. f = [router |-> r, removed |-> em, words |-> ew, sends |-> Append(es, m), taken |-> et]
  <2>1. PICK s : s = Append(es, m)
    OBVIOUS
  <2>2. f = [e EXCEPT !.sends = s]
    <3>1. e.sends = es
      BY <1>1
    <3> QED BY <2>1, <3>1 DEF Sending
  <2>3. f = [router |-> r, removed |-> em, words |-> ew, sends |-> s, taken |-> et]
    BY <1>1, <2>2
  <2> QED BY <2>1, <2>3
<1> HIDE DEF f
<1>4. /\ f.router = e.router /\ f.removed = e.removed /\ f.sends = Append(es, m)
      /\ f.taken = e.taken
  BY <1>1, <1>3
<1>5. f = [router |-> f.router, removed |-> f.removed, words |-> f.words,
           sends |-> f.sends, taken |-> f.taken]
  BY <1>3
<1>6. SendsFor(n, f.sends, c)
  BY <1>2, <1>4, SendsAppend
<1>7. EffectOk(n, f, c)
  BY <1>2, <1>4, <1>5, <1>6, EffectGoesOn
<1> QED BY <1>7 DEF f

(* A closure or a wake-up that a flush sends.                              *)
LEMMA ClosureSend ==
  ASSUME NEW n \in Routers, NEW c, NEW l, NEW length
  PROVE  /\ IsCentral(l) /\ OutLink(n, l, c.place) => NewSend(n, RouteClosed(l, length), c)
         /\ IsCentral(l) /\ OutLink(n, l, c.place) =>
              NewSend(n, [type |-> "FlushRouter", link |-> l], c)
         /\ l = Inner(n) /\ n[2] < c.place[End(n)] /\ ~c.hush =>
              NewSend(n, RouteClosed(l, length), c)
<1>1. RouteClosed(l, length).type = "RouteClosed" /\ RouteClosed(l, length).link = l
  BY DEF RouteClosed
<1>2. [type |-> "FlushRouter", link |-> l].type = "FlushRouter"
      /\ [type |-> "FlushRouter", link |-> l].link = l
  OBVIOUS
<1>3. IsCentral(l) => l # Inner(n)
  BY LinkFacts
<1> QED BY <1>1, <1>2, <1>3 DEF NewSend, SendOk, IsDescriptor

LEMMA PassClosureOutwardOk ==
  ASSUME NEW n \in Routers, NEW c, NEW e, EffectOk(n, e, c), NEW l, LinkOk(n, l, c), NEW side
  PROVE  EffectOk(n, PassClosureOutward(e, l, side), c)
<1> DEFINE f == PassClosureOutward(e, l, side)
<1>1. CASE IsCentral(l) /\ FullyConsumed(e.router.outbound)
  <2> DEFINE t == Tried(e, l, side)
             m == RouteClosed(l, e.router.outbound.final)
  <2>1. EffectOk(n, t, c)
    BY WordsOk
  <2>2. CASE CanLock(e.words[l])
    <3>1. f = Sending(ReleasedOut(t), m)
      BY <1>1, <2>2 DEF PassClosureOutward, Sending, ReleasedOut, Tried
    <3>2. ~c.calm /\ OutLink(n, l, c.place)
      BY <1>1, LinkFacts DEF LinkOk
    <3>3. NewSend(n, m, c)
      BY <1>1, <3>2, ClosureSend
    <3> HIDE DEF f, t, m
    <3>4. EffectOk(n, ReleasedOut(t), c)
      BY <2>1, <3>2, ReleasedOk
    <3>5. EffectOk(n, f, c)
      BY <3>1, <3>3, <3>4, SendingOk
    <3> QED BY <3>5 DEF f
  <2>3. CASE ~CanLock(e.words[l])
    <3>1. f = t
      BY <1>1, <2>3 DEF PassClosureOutward, Tried
    <3> QED BY <2>1, <3>1
  <2> QED BY <2>2, <2>3
<1>2. CASE ~(IsCentral(l) /\ FullyConsumed(e.router.outbound)) /\ ExpectsMore(e.router.inbound)
  <2>1. f = e
    BY <1>2 DEF PassClosureOutward
  <2> QED BY <2>1
<1>3. CASE ~(IsCentral(l) /\ FullyConsumed(e.router.outbound)) /\ ~ExpectsMore(e.router.inbound)
  <2>1. f = ReleasedOut(e)
    BY <1>3 DEF PassClosureOutward, ReleasedOut
  <2>2. ~c.calm
    <3>1. c.calm => e.router.inbound.final = None
      BY DEF EffectOk, EffectFor
    <3> QED BY <1>3, <3>1 DEF ExpectsMore
  <2> QED BY <2>1, <2>2, ReleasedOk
<1> QED BY <1>1, <1>2, <1>3

LEMMA PassClosureInwardOk ==
  ASSUME NEW n \in Routers, NEW c, NEW e, EffectOk(n, e, c), NEW l,
         l = NoLink \/ l = Inner(n), c.hush => l = NoLink
  PROVE  EffectOk(n, PassClosureInward(e, l), c)
<1> DEFINE f == PassClosureInward(e, l)
           m == RouteClosed(l, e.router.inbound.final)
<1>1. CASE e.router.proxying /\ FullyConsumed(e.router.inbound) /\ l # NoLink
  <2>1. f = Sending(ReleasedIn(e), m)
    BY <1>1 DEF PassClosureInward, Sending, ReleasedIn
  <2>2. n[2] < c.place[End(n)]
    BY <1>1 DEF EffectOk, RouterOk, Ready
  <2>3. NewSend(n, m, c)
    BY <1>1, <2>2, ClosureSend
  <2> HIDE DEF f, m
  <2>4. EffectOk(n, ReleasedIn(e), c)
    BY ReleasedOk
  <2>5. EffectOk(n, f, c)
    BY <2>1, <2>3, <2>4, SendingOk
  <2> QED BY <2>5 DEF f
<1>2. CASE ~(e.router.proxying /\ FullyConsumed(e.router.inbound) /\ l # NoLink)
  <2>1. f = e
    BY <1>2 DEF PassClosureInward
  <2> QED BY <2>1
<1> QED BY <1>1, <1>2

LEMMA WakeOtherOk ==
  ASSUME NEW n \in Routers, NEW c, NEW e, EffectOk(n, e, c), NEW l, LinkOk(n, l, c), NEW side
  PROVE  EffectOk(n, WakeOther(e, l, side), c)
<1> DEFINE f == WakeOther(e, l, side)
           m == [type |-> "FlushRouter", link |-> l]
<1>1. CASE /\ IsCentral(l) /\ e.router.outward.primary = l
           /\ IsWaiting(e.words[l], side)
  <2>1. f = Sending(Woken(e, l, side), m)
    BY <1>1 DEF WakeOther, Sending, Woken
  <2>2. OutLink(n, l, c.place)
    BY <1>1, LinkFacts DEF LinkOk
  <2>3. NewSend(n, m, c)
    BY <1>1, <2>2, ClosureSend
  <2> HIDE DEF f, m
  <2>4. EffectOk(n, Woken(e, l, side), c)
    BY WordsOk
  <2>5. EffectOk(n, f, c)
    BY <2>1, <2>3, <2>4, SendingOk
  <2> QED BY <2>5 DEF f
<1>2. CASE ~(/\ IsCentral(l) /\ e.router.outward.primary = l
             /\ IsWaiting(e.words[l], side))
  <2>1. f = e
    BY <1>2 DEF WakeOther
  <2> QED BY <2>1
<1> QED BY <1>1, <1>2

LEMMA PassClosuresOk ==
  ASSUME NEW n \in Routers, NEW c, NEW e, EffectOk(n, e, c), NEW l, LinkOk(n, l, c), NEW side
  PROVE  EffectOk(n, PassClosures(e, l, side), c)
<1>1. EffectOk(n, PassClosureOutward(e, l, side), c)
  BY PassClosureOutwardOk
<1>2. e.router.inward.primary = NoLink \/ e.router.inward.primary = Inner(n)
  BY DEF EffectOk, RouterOk, Ready
<1>3. c.hush => e.router.inward.primary = NoLink
  BY DEF EffectOk, EffectFor
<1> QED BY <1>1, <1>2, <1>3, PassClosureInwardOk DEF PassClosures

(* A flush keeps an effect in order, whatever it finds.                    *)
LEMMA FlushOk ==
  ASSUME NEW n \in Routers, NEW c, Given(c), NEW e, EffectReady(n, e, c), NEW force, NEW keep
  PROVE  EffectOk(n, Flush(n, e, force, keep), c)
<1> DEFINE l == e.router.outward.primary
           side == Side(n, l)
           stable == Stabilises(e.router, AfterCollect(e.router))
           f == Forwarded(e, keep)
<1>1. EffectOk(n, f, c)
  BY ForwardedOk
<1>2. LinkOk(n, l, c)
  <2>1. l = NoLink \/ OutLink(n, l, c.place)
    BY DEF EffectReady, Ready
  <2>2. c.calm => l = Inner(Pred(n))
    BY EdgeFacts DEF EffectReady, EffectFor
  <2> QED BY <2>1, <2>2, LinkFacts DEF LinkOk
<1>3. Flush(n, e, force, keep) = Settled(f, l, side, stable, force)
  BY DEF Flush
<1> HIDE DEF l, side, stable, f
<1>4. CASE f.removed
  BY <1>1, <1>3, <1>4 DEF Settled
<1>5. CASE ~f.removed /\ stable
  <2>1. EffectOk(n, MarkStable(f, l, side), c)
    BY <1>1, WordsOk
  <2>2. EffectOk(n, PassClosures(MarkStable(f, l, side), l, side), c)
    BY <1>2, <2>1, PassClosuresOk
  <2>3. EffectOk(n, WakeOther(PassClosures(MarkStable(f, l, side), l, side), l, Opposite(side)), c)
    BY <1>2, <2>2, WakeOtherOk
  <2> QED BY <1>3, <1>5, <2>3 DEF Settled
<1>6. CASE ~f.removed /\ ~stable
  <2>1. EffectOk(n, PassClosures(f, l, side), c)
    BY <1>1, <1>2, PassClosuresOk
  <2>2. EffectOk(n, WakeOther(PassClosures(f, l, side), l, Opposite(side)), c)
    BY <1>2, <2>1, WakeOtherOk
  <2>3. Settled(f, l, side, stable, force)
          \in {WakeOther(PassClosures(f, l, side), l, Opposite(side)), PassClosures(f, l, side)}
    BY <1>6 DEF Settled
  <2> QED BY <1>3, <2>1, <2>2, <2>3
<1> QED BY <1>4, <1>5, <1>6

-----------------------------------------------------------------------------
(* Channels.                                                               *)

\* The channel `new` of `pair` is `old` with some of the first k messages of n
\* appended, in their order.
QueuedTo(old, new, ms, n, pair, k) ==
  /\ IsSeq(new) /\ Len(new) >= Len(old)
  /\ \A i \in 1 .. Len(old) : new[i] = old[i]
  /\ \E g : \A i \in 1 .. Len(new) : i > Len(old) =>
       /\ g[i] \in 1 .. k /\ new[i] = ms[g[i]]
       /\ pair = <<n, Across(n, ms[g[i]].link)>>
       /\ \A j \in 1 .. Len(new) : j > Len(old) /\ j < i => g[j] < g[i]

LEMMA QueuedStep ==
  ASSUME NEW old, IsSeq(old), NEW new, NEW ms, NEW n, NEW pair, NEW k \in Nat,
         QueuedTo(old, new, ms, n, pair, k)
  PROVE  /\ QueuedTo(old, new, ms, n, pair, k + 1)
         /\ pair = <<n, Across(n, ms[k + 1].link)>> =>
              QueuedTo(old, Append(new, ms[k + 1]), ms, n, pair, k + 1)
<1>1. /\ IsSeq(new) /\ Len(new) >= Len(old) /\ Len(new) \in Nat /\ Len(old) \in Nat
      /\ \A i \in 1 .. Len(old) : new[i] = old[i]
  BY DEF QueuedTo, IsSeq
<1>2. PICK g : \A i \in 1 .. Len(new) : i > Len(old) =>
       /\ g[i] \in 1 .. k /\ new[i] = ms[g[i]]
       /\ pair = <<n, Across(n, ms[g[i]].link)>>
       /\ \A j \in 1 .. Len(new) : j > Len(old) /\ j < i => g[j] < g[i]
  BY DEF QueuedTo
<1>3. QueuedTo(old, new, ms, n, pair, k + 1)
  <2>1. \A i \in 1 .. Len(new) : i > Len(old) =>
       /\ g[i] \in 1 .. k + 1 /\ new[i] = ms[g[i]]
       /\ pair = <<n, Across(n, ms[g[i]].link)>>
       /\ \A j \in 1 .. Len(new) : j > Len(old) /\ j < i => g[j] < g[i]
    BY <1>2
  <2> QED BY <1>1, <2>1 DEF QueuedTo
<1>4. ASSUME pair = <<n, Across(n, ms[k + 1].link)>>
      PROVE  QueuedTo(old, Append(new, ms[k + 1]), ms, n, pair, k + 1)
  <2> DEFINE t == Append(new, ms[k + 1])
             h == [i \in 1 .. Len(new) + 1 |-> IF i = Len(new) + 1 THEN k + 1 ELSE g[i]]
  <2>1. /\ IsSeq(t) /\ Len(t) = Len(new) + 1 /\ t[Len(new) + 1] = ms[k + 1]
        /\ \A i \in 1 .. Len(new) : t[i] = new[i]
    BY <1>1, AppendSeq
  <2>2. h[Len(new) + 1] = k + 1 /\ \A i \in 1 .. Len(new) : h[i] = g[i]
    BY <1>1
  <2> HIDE DEF t, h
  <2>3. ASSUME NEW i \in 1 .. Len(t), i > Len(old)
        PROVE  /\ h[i] \in 1 .. k + 1 /\ t[i] = ms[h[i]]
               /\ pair = <<n, Across(n, ms[h[i]].link)>>
               /\ \A j \in 1 .. Len(t) : j > Len(old) /\ j < i => h[j] < h[i]
    <3>1. CASE i = Len(new) + 1
      <4>1. h[i] = k + 1 /\ t[i] = ms[k + 1]
        BY <2>1, <2>2, <3>1
      <4>2. ASSUME NEW j \in 1 .. Len(t), j > Len(old), j < i PROVE h[j] < h[i]
        <5>1. j \in 1 .. Len(new)
          BY <1>1, <2>1, <3>1, <4>2
        <5>2. h[j] = g[j] /\ g[j] \in 1 .. k
          BY <1>2, <2>2, <4>2, <5>1
        <5> QED BY <4>1, <5>2
      <4>3. h[i] \in 1 .. k + 1 /\ ms[h[i]] = ms[k + 1]
        BY <4>1
      <4> QED BY <1>4, <4>1, <4>2, <4>3
    <3>2. CASE i \in 1 .. Len(new)
      <4>1. h[i] = g[i] /\ t[i] = new[i] /\ g[i] \in 1 .. k /\ new[i] = ms[g[i]]
            /\ pair = <<n, Across(n, ms[g[i]].link)>>
        BY <1>2, <2>1, <2>2, <2>3, <3>2
      <4>2. ASSUME NEW j \in 1 .. Len(t), j > Len(old), j < i PROVE h[j] < h[i]
        <5>1. j \in 1 .. Len(new)
          BY <1>1, <3>2, <4>2
        <5> QED BY <1>2, <2>2, <2>3, <3>2, <4>1, <4>2, <5>1
      <4>3. h[i] \in 1 .. k + 1
        BY <4>1
      <4> QED BY <4>1, <4>2, <4>3
    <3> QED BY <1>1, <2>1, <3>1, <3>2
  <2>4. /\ Len(t) >= Len(old)
        /\ \A i \in 1 .. Len(old) : t[i] = old[i]
    <3>1. \A i \in 1 .. Len(old) : i \in 1 .. Len(new)
      BY <1>1
    <3> QED BY <1>1, <2>1, <3>1
  <2>5. QueuedTo(old, t, ms, n, pair, k + 1)
    BY <2>1, <2>3, <2>4 DEF QueuedTo
  <2> QED BY <2>5 DEF t
<1> QED BY <1>3, <1>4

LEMMA QueuedFacts ==
  ASSUME NEW n, NEW ms, IsSeq(ms), NEW ch, ch = [pair \in Pairs |-> ch[pair]],
         \A pair \in Pairs : IsSeq(ch[pair])
  PROVE  /\ Queued(ch, n, ms) = [pair \in Pairs |-> Queued(ch, n, ms)[pair]]
         /\ \A pair \in Pairs :
              QueuedTo(ch[pair], Queued(ch, n, ms)[pair], ms, n, pair, Len(ms))
<1> DEFINE N == Len(ms)
           To(i) == <<n, Across(n, ms[i].link)>>
           Put1(x, i) == [x EXCEPT ![To(i)] = Append(@, ms[i])]
           Is(f, k) == f = [i \in 0 .. k |-> IF i = 0 THEN ch ELSE Put1(f[i - 1], i)]
           after == CHOOSE f : Is(f, N)
           Fine(x, k) == /\ x = [pair \in Pairs |-> x[pair]]
                         /\ \A pair \in Pairs : QueuedTo(ch[pair], x[pair], ms, n, pair, k)
<1>1. Queued(ch, n, ms) = after[N]
  BY DEF Queued
<1>2. N \in Nat
  BY DEF IsSeq
<1>3. Fine(ch, 0)
  <2>1. ASSUME NEW pair \in Pairs PROVE QueuedTo(ch[pair], ch[pair], ms, n, pair, 0)
    <3>1. IsSeq(ch[pair]) /\ Len(ch[pair]) \in Nat
      BY DEF IsSeq
    <3>2. \A i \in 1 .. Len(ch[pair]) : ~(i > Len(ch[pair]))
      BY <3>1
    <3> QED BY <3>1, <3>2 DEF QueuedTo
  <2> QED BY <2>1
<1>4. ASSUME NEW x, NEW k \in Nat, Fine(x, k) PROVE Fine(Put1(x, k + 1), k + 1)
  <2> DEFINE y == Put1(x, k + 1)
  <2>1. y = [pair \in Pairs |-> IF pair = To(k + 1) THEN Append(x[pair], ms[k + 1]) ELSE x[pair]]
    BY <1>4
  <2> HIDE DEF y
  <2>2. y = [pair \in Pairs |-> y[pair]]
    BY <2>1
  <2>3. ASSUME NEW pair \in Pairs PROVE QueuedTo(ch[pair], y[pair], ms, n, pair, k + 1)
    <3>1. QueuedTo(ch[pair], x[pair], ms, n, pair, k)
      BY <1>4
    <3>2. /\ QueuedTo(ch[pair], x[pair], ms, n, pair, k + 1)
          /\ pair = To(k + 1) =>
               QueuedTo(ch[pair], Append(x[pair], ms[k + 1]), ms, n, pair, k + 1)
      BY <3>1, QueuedStep
    <3>3. y[pair] = IF pair = To(k + 1) THEN Append(x[pair], ms[k + 1]) ELSE x[pair]
      BY <2>1
    <3> QED BY <3>2, <3>3
  <2> QED BY <2>2, <2>3 DEF y
<1> HIDE DEF Put1, Fine
<1>5. \A k \in Nat : \E f : Is(f, k) /\ Fine(f[k], k)
  <2> DEFINE T == {k \in Nat : ~\E f : Is(f, k) /\ Fine(f[k], k)}
  <2>1. SUFFICES ASSUME T # {} PROVE FALSE
    OBVIOUS
  <2>2. PICK k \in T : \A j \in T : k <= j
    BY <2>1, LeastNumber
  <2>3. CASE k = 0
    <3> DEFINE f == [i \in 0 .. 0 |-> ch]
    <3>1. Is(f, 0)
      OBVIOUS
    <3>2. Fine(f[0], 0)
      BY <1>3
    <3> QED BY <2>2, <2>3, <3>1, <3>2
  <2>4. CASE k # 0
    <3>1. k \in Nat /\ k - 1 \in Nat /\ k - 1 \notin T /\ (k - 1) + 1 = k
      BY <2>2, <2>4
    <3>2. PICK f : Is(f, k - 1) /\ Fine(f[k - 1], k - 1)
      BY <3>1
    <3> DEFINE h == [i \in 0 .. k |-> IF i = k THEN Put1(f[k - 1], k) ELSE f[i]]
    <3>3. \A i \in 0 .. k - 1 : h[i] = f[i] /\ i # k /\ i \in 0 .. k
      BY <3>1
    <3>4. h[k] = Put1(f[k - 1], k)
      BY <3>1
    <3>5. ASSUME NEW i \in 0 .. k PROVE h[i] = IF i = 0 THEN ch ELSE Put1(h[i - 1], i)
      <4>1. CASE i = k
        <5>1. k - 1 \in 0 .. k - 1
          BY <3>1
        <5>2. h[k - 1] = f[k - 1]
          BY <3>3, <5>1
        <5> QED BY <2>4, <3>4, <4>1, <5>2
      <4>2. CASE i # k
        <5>1. i \in 0 .. k - 1
          BY <3>1, <4>2
        <5>2. h[i] = f[i] /\ f[i] = IF i = 0 THEN ch ELSE Put1(f[i - 1], i)
          BY <3>2, <3>3, <5>1
        <5>3. i # 0 => i - 1 \in 0 .. k - 1
          BY <3>1, <5>1
        <5>4. i # 0 => h[i - 1] = f[i - 1]
          BY <3>3, <5>3
        <5> QED BY <5>2, <5>4
      <4> QED BY <4>1, <4>2
    <3>6. h = [i \in 0 .. k |-> h[i]]
      OBVIOUS
    <3>7. Fine(h[k], k)
      BY <1>4, <3>1, <3>2, <3>4
    <3> HIDE DEF h
    <3>8. Is(h, k)
      BY <3>5, <3>6
    <3> QED BY <2>2, <3>7, <3>8
  <2> QED BY <2>3, <2>4
<1>6. ASSUME NEW f, Is(f, N), NEW g, Is(g, N) PROVE f[N] = g[N]
  <2> DEFINE T == {k \in 0 .. N : f[k] # g[k]}
  <2>1. SUFFICES ASSUME T # {} PROVE FALSE
    BY <1>2
  <2>a. T \in SUBSET Nat
    BY <1>2
  <2>2. PICK k \in T : \A j \in T : k <= j
    <3> HIDE DEF T
    <3> QED BY <2>1, <2>a, LeastNumber
  <2>3. k \in 0 .. N /\ f[k] # g[k]
    BY <2>2
  <2>4. f[k] = (IF k = 0 THEN ch ELSE Put1(f[k - 1], k)) /\ g[k] = (IF k = 0 THEN ch ELSE Put1(g[k - 1], k))
    BY <1>6, <2>3
  <2>5. k # 0
    BY <2>3, <2>4
  <2>6. k - 1 \in 0 .. N /\ ~(k <= k - 1)
    BY <1>2, <2>3, <2>5
  <2>7. f[k - 1] = g[k - 1]
    BY <2>2, <2>6
  <2> QED BY <2>3, <2>4, <2>5, <2>7
<1>7. Is(after, N)
  BY <1>2, <1>5
<1>8. PICK f : Is(f, N) /\ Fine(f[N], N)
  BY <1>2, <1>5
<1>9. Fine(after[N], N)
  BY <1>6, <1>7, <1>8
<1> QED BY <1>1, <1>9 DEF Fine
-----------------------------------------------------------------------------
(* The inductive invariant.                                                *)

Entries(s) == {s[i] : i \in 1 .. Len(s)}

\* The messages y has still to handle.
Inboxes(channels, y) == {Entries(channels[pair]) : pair \in {p \in Pairs : p[2] = y}}
InFlight(channels, buffers, y) ==
  (UNION Inboxes(channels, y)) \cup Entries(buffers[y])

Wired(channels, buffers) ==
  /\ channels = [pair \in Pairs |-> channels[pair]]
  /\ buffers = [y \in Routers |-> buffers[y]]
  /\ \A pair \in Pairs : IsSeq(channels[pair])
  /\ \A y \in Routers : IsSeq(buffers[y])

\* A router gets at most one descriptor, from the router before it.
Once(channels, buffers) ==
  /\ \A pair \in Pairs : \A i \in 1 .. Len(channels[pair]) : IsDescriptor(channels[pair][i]) =>
       /\ pair[1] = Pred(pair[2])
       /\ \A j \in 1 .. Len(channels[pair]) : IsDescriptor(channels[pair][j]) => j = i
       /\ \A j \in 1 .. Len(buffers[pair[2]]) : ~IsDescriptor(buffers[pair[2]][j])
  /\ \A y \in Routers : \A i, j \in 1 .. Len(buffers[y]) :
       IsDescriptor(buffers[y][i]) /\ IsDescriptor(buffers[y][j]) => i = j

EarlyOk(parcels, place, s) ==
  /\ parcels = [y \in Routers |-> parcels[y]]
  /\ \A y \in Routers :
       /\ IsSeq(parcels[y])
       /\ \A i \in 1 .. Len(parcels[y]) :
            MsgOk(y, parcels[y][i], place, s) /\ parcels[y][i].type = "AcceptParcel"

\* Proxy p has left the link to the next router, and no closure will come on it.
Quiet(p) ==
  /\ p \in DOMAIN routers => routers[p].proxying /\ routers[p].inward.primary = NoLink
  /\ \A m \in InFlight(chan, deferred, Successor(p)) :
       ~(m.type = "RouteClosed" /\ m.link = Inner(p))

\* The descriptor of router y describes the router before it as it still is.
DescriptorOk(y, m, place) ==
  /\ y[2] > 0 /\ y[2] = place[End(y)] /\ y \notin DOMAIN routers
  /\ m.link = Inner(Pred(y))
  /\ m.incoming = Len(received[End(y)]) /\ m.outgoing = sent[End(y)]
  /\ m.bypass # NoLink =>
       /\ OutLink(Pred(y), m.bypass, place) /\ IsCentral(m.bypass)
       /\ ~m.peerClosed /\ Quiet(Pred(y))

\* A router that waits for its bypass has kept the link to the proxy.
Waits(n, place) ==
  /\ n[2] > 0 /\ n \in DOMAIN routers
  /\ routers[n].outward = EdgeOn(Inner(Pred(n))) /\ routers[n].inbound.final = None
  /\ OutLink(Pred(n), bypass[n].old, place) /\ IsCentral(bypass[n].old)
  /\ Quiet(Pred(n))

PlacesOk(place) ==
  /\ place \in [Ends -> 0 .. MaxMoves]
  /\ moves = place["left"] + place["right"] /\ moves <= MaxMoves

HistoryOk ==
  /\ sent \in [Ends -> Nat]
  /\ received = [d \in Ends |-> received[d]]
  /\ \A d \in Ends :
       /\ Len(received[d]) \in Nat /\ Len(received[d]) <= sent[Peer(d)]
       /\ received[d] = [i \in 1 .. Len(received[d]) |-> i]

RoutersOk(place) ==
  \A n \in DOMAIN routers :
    n \in Places(place) /\ RouterOk(n, routers[n], place, sent, Len(received[End(n)]))

OwnersOk == \A o \in owners : o[1] \in DOMAIN routers

MessagesOk(place) ==
  /\ Wired(chan, deferred) /\ Once(chan, deferred) /\ EarlyOk(early, place, sent)
  /\ \A y \in Routers : \A m \in InFlight(chan, deferred, y) : MsgOk(y, m, place, sent)

DescriptorsOk(place) ==
  \A y \in Routers : \A m \in InFlight(chan, deferred, y) :
    IsDescriptor(m) => DescriptorOk(y, m, place)

BypassOk(place) ==
  /\ bypass = [n \in Routers |-> [state |-> bypass[n].state, old |-> bypass[n].old]]
  /\ \A n \in Routers : bypass[n].state = "requested" => Waits(n, place)

Inv(place) ==
  /\ PlacesOk(place) /\ HistoryOk /\ RoutersOk(place) /\ OwnersOk
  /\ MessagesOk(place) /\ DescriptorsOk(place) /\ BypassOk(place)

-----------------------------------------------------------------------------
(* What a handler leaves behind.                                           *)

LEMMA CommitFacts ==
  ASSUME NEW n, NEW e, NEW channels, NEW links, Commit(n, e, channels, links)
  PROVE  /\ \A x \in DOMAIN routers' : x # n => x \in DOMAIN routers /\ routers'[x] = routers[x]
         /\ \A x \in DOMAIN routers : x # n => x \in DOMAIN routers'
         /\ n \in DOMAIN routers' => ~e.removed /\ routers'[n] = e.router
         /\ ~e.removed => n \in DOMAIN routers'
         /\ \A o \in owners' : o[1] # n => o \in owners
         /\ \A o \in owners' : o[1] = n => n \in DOMAIN routers'
         /\ chan' = Queued(channels, n, e.sends)
<1>1. CASE e.removed
  <2>1. routers' = [m \in DOMAIN routers \ {n} |-> routers[m]]
    BY <1>1 DEF Commit
  <2>2. owners' = {o \in owners : o[1] # n}
    BY <1>1 DEF Commit, OwnersAfter
  <2> QED BY <1>1, <2>1, <2>2 DEF Commit
<1>2. CASE ~e.removed
  <2>2. routers' = [x \in DOMAIN routers \cup {n} |-> IF x = n THEN e.router ELSE routers[x]]
    BY <1>2 DEF Commit, With
  <2>3. owners' = owners \cup ({n} \X links)
    BY <1>2 DEF Commit, OwnersAfter
  <2>4. \A o \in {n} \X links : o[1] = n
    OBVIOUS
  <2> QED BY <1>2, <2>2, <2>3, <2>4 DEF Commit
<1> QED BY <1>1, <1>2
LEMMA InFlightFacts ==
  ASSUME NEW ch, NEW df, NEW y
  PROVE  /\ \A pair \in Pairs : pair[2] = y =>
              \A i \in 1 .. Len(ch[pair]) : ch[pair][i] \in InFlight(ch, df, y)
         /\ \A i \in 1 .. Len(df[y]) : df[y][i] \in InFlight(ch, df, y)
         /\ \A m \in InFlight(ch, df, y) :
              \/ \E pair \in Pairs : pair[2] = y /\ \E i \in 1 .. Len(ch[pair]) : m = ch[pair][i]
              \/ \E i \in 1 .. Len(df[y]) : m = df[y][i]
<1>1. \A s, m : m \in Entries(s) <=> \E i \in 1 .. Len(s) : m = s[i]
  BY DEF Entries
<1>2. \A m : m \in InFlight(ch, df, y) <=>
        \/ \E pair \in Pairs : pair[2] = y /\ m \in Entries(ch[pair])
        \/ m \in Entries(df[y])
  <2>1. \A x : x \in Inboxes(ch, y) <=> \E pair \in Pairs : pair[2] = y /\ x = Entries(ch[pair])
    BY DEF Inboxes
  <2>2. \A m : m \in InFlight(ch, df, y) <=>
          (\E x \in Inboxes(ch, y) : m \in x) \/ m \in Entries(df[y])
    BY DEF InFlight
  <2> QED BY <2>1, <2>2
<1>3. \A m \in InFlight(ch, df, y) :
        \/ \E pair \in Pairs : pair[2] = y /\ \E i \in 1 .. Len(ch[pair]) : m = ch[pair][i]
        \/ \E i \in 1 .. Len(df[y]) : m = df[y][i]
  BY <1>1, <1>2
<1>4. ASSUME NEW pair \in Pairs, pair[2] = y, NEW i \in 1 .. Len(ch[pair])
      PROVE  ch[pair][i] \in InFlight(ch, df, y)
  <2>1. ch[pair][i] \in Entries(ch[pair])
    BY <1>1
  <2> QED BY <1>2, <1>4, <2>1
<1>5. ASSUME NEW i \in 1 .. Len(df[y]) PROVE df[y][i] \in InFlight(ch, df, y)
  <2>1. df[y][i] \in Entries(df[y])
    BY <1>1
  <2> QED BY <1>2, <2>1
<1> QED BY <1>3, <1>4, <1>5

LEMMA InFlightCases ==
  ASSUME NEW ch, NEW df, NEW y, NEW m \in InFlight(ch, df, y)
  PROVE  \/ \E pair \in Pairs : pair[2] = y /\ \E i \in 1 .. Len(ch[pair]) : m = ch[pair][i]
         \/ \E i \in 1 .. Len(df[y]) : m = df[y][i]
BY InFlightFacts

LEMMA PairFacts ==
  ASSUME NEW pair \in Pairs
  PROVE  /\ pair[1] \in Routers /\ pair[2] \in Routers /\ pair[1] # pair[2]
         /\ pair = <<pair[1], pair[2]>>
BY DEF Pairs

(* The messages of a handler are added to those that were on their way.    *)
LEMMA NewMessages ==
  ASSUME NEW ch, NEW df, Wired(ch, df), NEW n, NEW ms, IsSeq(ms), NEW q, q = Queued(ch, n, ms)
  PROVE  /\ Wired(q, df)
         /\ \A y \in Routers : \A m \in InFlight(q, df, y) :
              \/ m \in InFlight(ch, df, y)
              \/ \E j \in 1 .. Len(ms) : m = ms[j] /\ y = Across(n, m.link) /\ n # y
<1>1. ch = [pair \in Pairs |-> ch[pair]] /\ \A pair \in Pairs : IsSeq(ch[pair])
  BY DEF Wired
<1>2. /\ q = [pair \in Pairs |-> q[pair]]
      /\ \A pair \in Pairs : QueuedTo(ch[pair], q[pair], ms, n, pair, Len(ms))
  <2>1. Queued(ch, n, ms) = [pair \in Pairs |-> Queued(ch, n, ms)[pair]]
    BY <1>1, QueuedFacts
  <2>2. \A pair \in Pairs :
          QueuedTo(ch[pair], Queued(ch, n, ms)[pair], ms, n, pair, Len(ms))
    BY <1>1, QueuedFacts
  <2> QED BY <2>1, <2>2
<1>3. Wired(q, df)
  BY <1>2 DEF Wired, QueuedTo
<1>4. ASSUME NEW y \in Routers, NEW m \in InFlight(q, df, y), m \notin InFlight(ch, df, y)
      PROVE  \E j \in 1 .. Len(ms) : m = ms[j] /\ y = Across(n, m.link) /\ n # y
  <2>1. ~\E i \in 1 .. Len(df[y]) : m = df[y][i]
    BY <1>4, InFlightFacts
  <2>2. PICK pair \in Pairs : pair[2] = y /\ \E i \in 1 .. Len(q[pair]) : m = q[pair][i]
    BY <2>1, InFlightFacts
  <2>a. PICK i \in 1 .. Len(q[pair]) : m = q[pair][i]
    BY <2>2
  <2>3. QueuedTo(ch[pair], q[pair], ms, n, pair, Len(ms))
    BY <1>2
  <2>4. ~(i \in 1 .. Len(ch[pair]))
    BY <1>4, <2>2, <2>a, <2>3, InFlightFacts DEF QueuedTo
  <2>5. i > Len(ch[pair])
    BY <1>1, <2>4 DEF IsSeq
  <2>6. PICK j \in 1 .. Len(ms) : m = ms[j] /\ pair = <<n, Across(n, ms[j].link)>>
    BY <2>a, <2>3, <2>5 DEF QueuedTo
  <2>7. y = Across(n, m.link) /\ n # y
    BY <2>2, <2>6, PairFacts
  <2> QED BY <2>6, <2>7
<1> QED BY <1>3, <1>4

(* A descriptor a handler sends is the only one for its receiver, if there *)
(* was none.                                                               *)
LEMMA OnceStays ==
  ASSUME NEW ch, NEW df, Wired(ch, df), Once(ch, df), NEW n, NEW c, NEW ms, SendsFor(n, ms, c),
         c.described =>
           /\ n = Pred(Across(n, c.head.link))
           /\ \A m \in InFlight(ch, df, Across(n, c.head.link)) : ~IsDescriptor(m),
         NEW q, q = Queued(ch, n, ms)
  PROVE  Once(q, df)
<1>1. ch = [pair \in Pairs |-> ch[pair]] /\ \A pair \in Pairs : IsSeq(ch[pair])
  BY DEF Wired
<1>2. \A pair \in Pairs : QueuedTo(ch[pair], q[pair], ms, n, pair, Len(ms))
  BY <1>1, QueuedFacts DEF SendsFor
<1> DEFINE Old(pair, i) == i \in 1 .. Len(ch[pair]) /\ q[pair][i] = ch[pair][i]
           New(pair, i) == /\ i > Len(ch[pair]) /\ c.described
                           /\ pair[2] = Across(n, c.head.link) /\ pair[1] = n
<1>3. ASSUME NEW pair \in Pairs, NEW i \in 1 .. Len(q[pair]), IsDescriptor(q[pair][i])
      PROVE  Old(pair, i) \/ New(pair, i)
  <2>1. QueuedTo(ch[pair], q[pair], ms, n, pair, Len(ms))
    BY <1>2
  <2>2. CASE i \in 1 .. Len(ch[pair])
    BY <2>1, <2>2 DEF QueuedTo
  <2>3. CASE ~(i \in 1 .. Len(ch[pair]))
    <3>1. i > Len(ch[pair])
      BY <1>1, <2>3 DEF IsSeq
    <3>2. PICK j \in 1 .. Len(ms) : q[pair][i] = ms[j] /\ pair = <<n, Across(n, ms[j].link)>>
      BY <2>1, <3>1 DEF QueuedTo
    <3>3. c.described /\ ms[j] = c.head
      BY <1>3, <3>2 DEF SendsFor, SendFor
    <3> QED BY <3>1, <3>2, <3>3
  <2> QED BY <2>2, <2>3
<1>4. ASSUME NEW pair \in Pairs, NEW i \in 1 .. Len(q[pair]), NEW j \in 1 .. Len(q[pair]),
             IsDescriptor(q[pair][i]), IsDescriptor(q[pair][j]),
             New(pair, i), New(pair, j)
      PROVE  ~(j < i)
  <2>1. SUFFICES ASSUME j < i PROVE FALSE
    OBVIOUS
  <2>2. QueuedTo(ch[pair], q[pair], ms, n, pair, Len(ms))
    BY <1>2
  <2>3. PICK g : \A a \in 1 .. Len(q[pair]) : a > Len(ch[pair]) =>
            /\ g[a] \in 1 .. Len(ms) /\ q[pair][a] = ms[g[a]]
            /\ \A b \in 1 .. Len(q[pair]) : b > Len(ch[pair]) /\ b < a => g[b] < g[a]
    BY <2>2 DEF QueuedTo
  <2>4. g[i] \in 1 .. Len(ms) /\ g[j] \in 1 .. Len(ms) /\ g[j] < g[i]
        /\ q[pair][i] = ms[g[i]] /\ q[pair][j] = ms[g[j]]
    BY <1>4, <2>1, <2>3
  <2>5. g[i] = 1 /\ g[j] = 1
    BY <1>4, <2>4 DEF SendsFor, SendFor
  <2> QED BY <2>4, <2>5
<1>5. ASSUME NEW pair \in Pairs, NEW i \in 1 .. Len(q[pair]), NEW j \in 1 .. Len(q[pair]),
             IsDescriptor(q[pair][i]), IsDescriptor(q[pair][j]), Old(pair, i)
      PROVE  i = j
  <2>1. CASE Old(pair, j)
    BY <1>5, <2>1 DEF Once
  <2>2. CASE New(pair, j)
    BY <1>5, <2>2, InFlightFacts
  <2> QED BY <1>3, <1>5, <2>1, <2>2
<1>6. ASSUME NEW pair \in Pairs, NEW i \in 1 .. Len(q[pair]), IsDescriptor(q[pair][i])
      PROVE  /\ pair[1] = Pred(pair[2])
             /\ \A j \in 1 .. Len(q[pair]) : IsDescriptor(q[pair][j]) => j = i
             /\ \A j \in 1 .. Len(df[pair[2]]) : ~IsDescriptor(df[pair[2]][j])
  <2>1. CASE Old(pair, i)
    <3>1. /\ pair[1] = Pred(pair[2])
          /\ \A j \in 1 .. Len(df[pair[2]]) : ~IsDescriptor(df[pair[2]][j])
      BY <1>6, <2>1 DEF Once
    <3> QED BY <1>5, <1>6, <2>1, <3>1
  <2>2. CASE New(pair, i)
    <3>1. pair[1] = Pred(pair[2])
      BY <2>2
    <3>2. \A j \in 1 .. Len(df[pair[2]]) : ~IsDescriptor(df[pair[2]][j])
      BY <2>2, InFlightFacts
    <3>3. ASSUME NEW j \in 1 .. Len(q[pair]), IsDescriptor(q[pair][j]) PROVE j = i
      <4>1. CASE Old(pair, j)
        BY <1>5, <1>6, <3>3, <4>1
      <4>2. CASE New(pair, j)
        <5>1. ~(j < i) /\ ~(i < j)
          BY <1>4, <1>6, <2>2, <3>3, <4>2
        <5>2. IsSeq(q[pair])
          BY <1>2 DEF QueuedTo
        <5>3. i \in Int /\ j \in Int
          BY <5>2 DEF IsSeq
        <5> QED BY <5>1, <5>3
      <4> QED BY <1>3, <3>3, <4>1, <4>2
    <3> QED BY <3>1, <3>2, <3>3
  <2> QED BY <1>3, <1>6, <2>1, <2>2
<1> HIDE DEF Old, New
<1> QED BY <1>6 DEF Once

-----------------------------------------------------------------------------
(* What stays true as portals move on and send more.                       *)

Grows(place, next) ==
  /\ place \in [Ends -> 0 .. MaxMoves] /\ next \in [Ends -> 0 .. MaxMoves]
  /\ \A d \in Ends : place[d] <= next[d]

SentGrows(s, t) ==
  s \in [Ends -> Nat] /\ t \in [Ends -> Nat] /\ \A d \in Ends : s[d] <= t[d]

LEMMA PlacesGrow ==
  ASSUME NEW place, NEW next, Grows(place, next)
  PROVE  /\ Places(place) \subseteq Places(next)
         /\ \A n, l : OutLink(n, l, place) => OutLink(n, l, next)
         /\ \A n \in Routers : n[2] < place[End(n)] => n[2] < next[End(n)]
<1>1. ASSUME NEW n \in Routers
      PROVE  /\ n[2] <= place[End(n)] => n[2] <= next[End(n)]
             /\ n[2] < place[End(n)] => n[2] < next[End(n)]
  <2>1. /\ n[2] \in Nat /\ End(n) \in Ends /\ MaxMoves \in Nat
        /\ place[End(n)] \in 0 .. MaxMoves /\ next[End(n)] \in 0 .. MaxMoves
        /\ place[End(n)] <= next[End(n)]
    BY RouterFacts, ProxyBypassAssumption DEF Grows
  <2> QED BY <2>1
<1>2. Places(place) \subseteq Places(next)
  BY <1>1 DEF Places
<1>3. \A n, l : OutLink(n, l, place) => OutLink(n, l, next)
  BY <1>2 DEF OutLink
<1> QED BY <1>1, <1>2, <1>3

LEMMA ValidGrows ==
  ASSUME NEW s, NEW t, SentGrows(s, t)
  PROVE  \A p : \A d \in Ends : Valid(p, s[d]) => Valid(p, t[d])
<1>1. ASSUME NEW p, NEW d \in Ends, Valid(p, s[d]) PROVE Valid(p, t[d])
  <2>1. s[d] \in Nat /\ t[d] \in Nat /\ s[d] <= t[d]
    BY DEF SentGrows
  <2>2. p.seq \in Nat /\ p.body = p.seq + 1 /\ p.body <= s[d]
    BY <1>1 DEF Valid
  <2>3. p.body <= t[d]
    BY <2>1, <2>2
  <2> QED BY <2>2, <2>3 DEF Valid
<1> QED BY <1>1

LEMMA MsgOkGrows ==
  ASSUME NEW place, NEW next, Grows(place, next), NEW s, NEW t, SentGrows(s, t),
         NEW y, NEW m, MsgOk(y, m, place, s)
  PROVE  MsgOk(y, m, next, t)
<1>1. y \in Places(place) /\ y \in Routers
  BY DEF MsgOk, Places
<1>2. End(y) \in Ends /\ Peer(End(y)) \in Ends
  BY <1>1, RouterFacts, EndFacts
<1>3. y \in Places(next) /\ (OutLink(y, m.link, place) => OutLink(y, m.link, next))
      /\ (y[2] < place[End(y)] => y[2] < next[End(y)])
  BY <1>1, PlacesGrow
<1>4. (Valid(m, s[End(y)]) => Valid(m, t[End(y)]))
      /\ (Valid(m, s[Peer(End(y))]) => Valid(m, t[Peer(End(y))]))
  BY <1>2, ValidGrows
<1> QED BY <1>3, <1>4 DEF MsgOk

(* A router on which nobody works keeps in order: a portal because nothing *)
(* happens at its end, a proxy because it is not concerned.                *)
LEMMA RouterOkGrows ==
  ASSUME NEW place, NEW next, Grows(place, next), NEW s, NEW t, SentGrows(s, t),
         NEW x \in Routers, NEW r, NEW k, NEW j, RouterOk(x, r, place, s, k),
         x[2] < place[End(x)] \/ (next[End(x)] = place[End(x)] /\ j = k /\ t[End(x)] = s[End(x)])
  PROVE  RouterOk(x, r, next, t, j)
<1>1. End(x) \in Ends /\ Peer(End(x)) \in Ends
  BY RouterFacts, EndFacts
<1>2. \A l : OutLink(x, l, place) => OutLink(x, l, next)
  BY PlacesGrow
<1>3. x[2] < place[End(x)] => x[2] < next[End(x)]
  BY PlacesGrow
<1>4. \A p : (Valid(p, s[End(x)]) => Valid(p, t[End(x)]))
             /\ (Valid(p, s[Peer(End(x))]) => Valid(p, t[Peer(End(x))]))
  BY <1>1, ValidGrows
<1>5. Ready(x, r, place, s, k)
  BY DEF RouterOk
<1>6. /\ IsRouter(r) /\ r.proxying \in BOOLEAN /\ (r.proxying <=> x[2] < next[End(x)])
      /\ \A l \in {r.outward.primary, r.outward.decaying} : l = NoLink \/ OutLink(x, l, next)
      /\ \A l \in {r.inward.primary, r.inward.decaying} : l = NoLink \/ l = Inner(x)
  BY <1>2, <1>3, <1>5 DEF Ready
<1>7. /\ \A p \in r.inbound.buffer : Valid(p, t[Peer(End(x))])
      /\ r.proxying => \A p \in r.outbound.buffer : Valid(p, t[End(x)])
  BY <1>4, <1>5 DEF Ready
<1>8. ~r.proxying =>
       /\ r.inbound.current = j
       /\ r.outward.decaying # NoLink =>
            r.outward.to \in Nat /\ r.outward.to <= r.outbound.current
       /\ r.outward.primary # NoLink => Loaded(r.outbound, t[End(x)])
  BY <1>5 DEF Ready
<1>9. Ready(x, r, next, t, j)
  BY <1>6, <1>7, <1>8 DEF Ready
<1> QED BY <1>9 DEF RouterOk

-----------------------------------------------------------------------------
(* The turn of a router: a handler of n with effect e, that has taken its  *)
(* message from `channels`, while the portals go from `place` to `next`.   *)

\* The descriptor n sends when its portal leaves.
Describes(n, c, place, next) ==
  /\ n \in DOMAIN routers /\ n[2] = place[End(n)] /\ next[End(n)] = n[2] + 1
  /\ c.head.link = Inner(n)
  /\ c.head.incoming = Len(received[End(n)]) /\ c.head.outgoing = sent'[End(n)]
  /\ c.head.bypass # NoLink =>
       OutLink(n, c.head.bypass, next) /\ IsCentral(c.head.bypass) /\ ~c.head.peerClosed /\ c.hush

\* The request n waits for after its turn.
Requests(n, c, place) ==
  bypass'[n].state = "requested" =>
    /\ c.calm
    /\ OutLink(Pred(n), bypass'[n].old, place) /\ IsCentral(bypass'[n].old) /\ Quiet(Pred(n))

\* The messages n has left, and those n has kept for later.
Leaves(channels, next) ==
  /\ Wired(channels, deferred') /\ Once(channels, deferred') /\ EarlyOk(early', next, sent')
  /\ \A y \in Routers : \A m \in InFlight(channels, deferred', y) : m \in InFlight(chan, deferred, y)

Turn(n, e, c, channels, links, place, next) ==
  /\ n \in Places(place) /\ Grows(place, next) /\ SentGrows(sent, sent')
  /\ \A d \in Ends : d # End(n) => next[d] = place[d] /\ sent'[d] = sent[d]
  /\ n[2] < place[End(n)] => next = place /\ sent' = sent
  /\ n \notin DOMAIN routers =>
       /\ n[2] = place[End(n)] /\ next = place
       /\ \A m \in InFlight(channels, deferred', n) : ~IsDescriptor(m)
  /\ PlacesOk(next)'
  /\ Commit(n, e, channels, links) /\ EffectOk(n, e, c)
  /\ c.place = next /\ c.sent = sent' /\ c.got = Len(received[End(n)])
  /\ n \in DOMAIN routers /\ routers[n].proxying /\ routers[n].inward.primary = NoLink => c.hush
  /\ c.described => Describes(n, c, place, next)
  /\ Leaves(channels, next)
  /\ bypass' = [x \in Routers |-> [state |-> bypass'[x].state, old |-> bypass'[x].old]]
  /\ \A x \in Routers : x # n => bypass'[x] = bypass[x]
  /\ Requests(n, c, place)

\* What the portal of n is given is what the other portal has sent.
Delivered(n) ==
  \E k \in Len(received[End(n)]) .. sent[Peer(End(n))] :
    received' = [received EXCEPT ![End(n)] = [i \in 1 .. k |-> i]]

LEMMA TurnFacts ==
  ASSUME NEW place, Inv(place), NEW next, NEW n, NEW e, NEW c, NEW channels, NEW links,
         Turn(n, e, c, channels, links, place, next)
  PROVE  /\ n \in Routers /\ End(n) \in Ends /\ Peer(End(n)) \in Ends /\ Peer(End(n)) # End(n)
         /\ n \in Places(place) /\ n \in Places(next) /\ n[2] \in Nat
         /\ \A d \in Ends : place[d] \in Nat /\ next[d] \in Nat
         /\ Grows(place, next) /\ SentGrows(sent, sent') /\ Given(c)
         /\ c.place = next /\ c.sent = sent' /\ c.got = Len(received[End(n)])
         /\ EffectOk(n, e, c) /\ Commit(n, e, channels, links)
         /\ sent'[Peer(End(n))] = sent[Peer(End(n))]
<1>1. n \in Places(place) /\ Grows(place, next) /\ SentGrows(sent, sent')
      /\ \A d \in Ends : d # End(n) => next[d] = place[d] /\ sent'[d] = sent[d]
  BY DEF Turn
<1>2. c.place = next /\ c.sent = sent' /\ c.got = Len(received[End(n)])
      /\ EffectOk(n, e, c) /\ Commit(n, e, channels, links)
  BY DEF Turn
<1>3. n \in Routers
  BY <1>1 DEF Places
<1>4. End(n) \in Ends /\ n[2] \in Nat /\ Peer(End(n)) \in Ends /\ Peer(End(n)) # End(n)
  BY <1>3, RouterFacts, EndFacts
<1>5. n \in Places(next)
  BY <1>1, PlacesGrow
<1>6. \A d \in Ends : place[d] \in Nat /\ next[d] \in Nat
  <2>1. MaxMoves \in Nat
    BY ProxyBypassAssumption
  <2>2. place \in [Ends -> 0 .. MaxMoves] /\ next \in [Ends -> 0 .. MaxMoves]
    BY <1>1 DEF Grows
  <2> QED BY <2>1, <2>2
<1>7. c.got \in Nat
  BY <1>2, <1>4 DEF Inv, HistoryOk
<1>8. Given(c)
  BY <1>1, <1>2, <1>7 DEF Given, Grows, SentGrows
<1> QED BY <1>1, <1>2, <1>3, <1>4, <1>5, <1>6, <1>8

LEMMA TurnHistory ==
  ASSUME NEW place, Inv(place), NEW next, NEW n, NEW e, NEW c, NEW channels, NEW links,
         Turn(n, e, c, channels, links, place, next)
  PROVE  /\ HistoryOk' /\ Delivered(n)
         /\ Len(received'[End(n)]) = c.got + Len(e.taken)
         /\ \A d \in Ends : d # End(n) => received'[d] = received[d]
         /\ e.router.proxying => received' = received
<1> DEFINE E == End(n)
           t == e.taken
           got == Len(received[E])
           k == got + Len(t)
           b == [i \in DOMAIN t |-> t[i].body]
<1>1. /\ E \in Ends /\ Peer(E) \in Ends /\ Peer(E) # E /\ SentGrows(sent, sent')
      /\ sent'[Peer(E)] = sent[Peer(E)] /\ c.sent = sent' /\ c.got = got
      /\ EffectOk(n, e, c) /\ Commit(n, e, channels, links)
  BY TurnFacts
<1>2. /\ received = [d \in Ends |-> received[d]]
      /\ \A d \in Ends :
           /\ Len(received[d]) \in Nat /\ Len(received[d]) <= sent[Peer(d)]
           /\ received[d] = [i \in 1 .. Len(received[d]) |-> i]
      /\ sent \in [Ends -> Nat] /\ sent' \in [Ends -> Nat]
  BY <1>1 DEF Inv, HistoryOk, SentGrows
<1>3. /\ IsSeq(t)
      /\ \A i \in 1 .. Len(t) : t[i].body = got + i /\ got + i <= sent'[Peer(E)]
      /\ e.router.proxying => Len(t) = 0
  BY <1>1 DEF EffectOk, EffectFor, IsEffect
<1>4. received' = [received EXCEPT ![E] = @ \o b]
  BY <1>1 DEF Commit
<1>5. Len(t) \in Nat /\ DOMAIN t = 1 .. Len(t)
  BY <1>3, SeqOf DEF IsSeq
<1>6. b = [i \in 1 .. Len(t) |-> got + i]
  BY <1>3, <1>5
<1>7. received[E] \o b = [i \in 1 .. k |-> i]
  <2> HIDE DEF t, b
  <2>1. got \in Nat /\ received[E] = [i \in 1 .. got |-> i]
    BY <1>1, <1>2
  <2> HIDE DEF got
  <2>2. IsSeq(received[E]) /\ Len(received[E]) = got
    <3>1. received[E] = [i \in 1 .. got |-> received[E][i]]
      BY <2>1
    <3> QED BY <2>1, <3>1, SeqOfFunction
  <2>3. IsSeq(b) /\ Len(b) = Len(t)
    <3>1. b = [i \in 1 .. Len(t) |-> b[i]]
      BY <1>6
    <3> QED BY <1>5, <3>1, SeqOfFunction
  <2>4. /\ IsSeq(received[E] \o b) /\ Len(received[E] \o b) = k
        /\ \A i \in 1 .. got : (received[E] \o b)[i] = received[E][i]
        /\ \A i \in 1 .. k : i > got => i - got \in 1 .. Len(t) /\ (received[E] \o b)[i] = b[i - got]
    <3>1. PICK s : s = received[E]
      OBVIOUS
    <3>2. PICK z : z = b
      OBVIOUS
    <3>3. IsSeq(s) /\ Len(s) = got /\ IsSeq(z) /\ Len(z) = Len(t)
      BY <2>2, <2>3, <3>1, <3>2
    <3>4. /\ IsSeq(s \o z) /\ Len(s \o z) = Len(s) + Len(z)
          /\ \A i \in 1 .. Len(s) : (s \o z)[i] = s[i]
          /\ \A i \in 1 .. Len(s) + Len(z) :
               i > Len(s) => i - Len(s) \in 1 .. Len(z) /\ (s \o z)[i] = z[i - Len(s)]
      BY <3>3, ConcatSeq, ZenonT(30)
    <3> QED BY <3>1, <3>2, <3>3, <3>4
  <2>5. ASSUME NEW i \in 1 .. k PROVE (received[E] \o b)[i] = i
    <3>1. CASE i > got
      <4>1. i - got \in 1 .. Len(t) /\ (received[E] \o b)[i] = b[i - got]
        BY <2>4, <3>1
      <4>2. b[i - got] = got + (i - got)
        BY <1>6, <4>1
      <4>3. got + (i - got) = i
        BY <1>5, <2>1
      <4> QED BY <4>1, <4>2, <4>3
    <3>2. CASE ~(i > got)
      <4>1. i \in 1 .. got
        BY <1>5, <2>1, <3>2
      <4> QED BY <2>1, <2>4, <4>1
    <3> QED BY <3>1, <3>2
  <2> DEFINE u == received[E] \o b
  <2>6. u = [i \in 1 .. k |-> u[i]]
    <3>1. IsSeq(u) /\ Len(u) = k
      BY <2>4
    <3> QED BY <3>1 DEF IsSeq
  <2>7. \A i \in 1 .. k : u[i] = i
    BY <2>5
  <2> HIDE DEF u, k
  <2>8. u = [i \in 1 .. k |-> i]
    BY <2>6, <2>7
  <2> QED BY <2>8 DEF u
<1>8. k \in Nat /\ k >= got /\ k <= sent[Peer(E)]
  <2>1. got \in Nat /\ got <= sent[Peer(E)] /\ sent[Peer(E)] \in Nat
    BY <1>1, <1>2
  <2> HIDE DEF got, t
  <2>2. CASE Len(t) = 0
    BY <2>1, <2>2
  <2>3. CASE Len(t) # 0
    <3>1. Len(t) \in 1 .. Len(t)
      BY <1>5, <2>3
    <3>2. got + Len(t) <= sent'[Peer(E)]
      BY <1>3, <3>1
    <3> QED BY <1>1, <1>5, <2>1, <3>2
  <2> QED BY <2>2, <2>3
<1>9. received' = [received EXCEPT ![E] = [i \in 1 .. k |-> i]]
  BY <1>4, <1>7
<1>10. Delivered(n)
  <2>1. k \in got .. sent[Peer(E)]
    <3>1. got \in Nat /\ sent[Peer(E)] \in Nat
      BY <1>1, <1>2
    <3> HIDE DEF k, got
    <3> QED BY <1>8, <3>1
  <2> QED BY <1>9, <2>1 DEF Delivered
<1> HIDE DEF k
<1>11. received'[E] = [i \in 1 .. k |-> i] /\ \A d \in Ends : d # E => received'[d] = received[d]
  BY <1>1, <1>2, <1>9
<1>12. Len(received'[E]) = k
  <2>1. received'[E] = [i \in 1 .. k |-> received'[E][i]]
    BY <1>11
  <2> QED BY <1>8, <2>1, SeqOfFunction
<1>13. received' = [d \in Ends |-> received'[d]]
  <2>1. received' = [d \in Ends |-> IF d = E THEN [i \in 1 .. k |-> i] ELSE received[d]]
    BY <1>2, <1>9
  <2> QED BY <2>1
<1>14. ASSUME NEW d \in Ends
       PROVE  /\ Len(received'[d]) \in Nat /\ Len(received'[d]) <= sent'[Peer(d)]
              /\ received'[d] = [i \in 1 .. Len(received'[d]) |-> i]
  <2>1. CASE d = E
    BY <1>1, <1>8, <1>11, <1>12, <2>1
  <2>2. CASE d # E
    <3>1. received'[d] = received[d]
      BY <1>11, <2>2
    <3>2. sent[Peer(d)] <= sent'[Peer(d)] /\ sent[Peer(d)] \in Nat /\ sent'[Peer(d)] \in Nat
      BY <1>1, EndFacts DEF SentGrows
    <3>3. Len(received[d]) \in Nat /\ Len(received[d]) <= sent[Peer(d)]
          /\ received[d] = [i \in 1 .. Len(received[d]) |-> i]
      BY <1>2
    <3> QED BY <3>1, <3>2, <3>3
  <2> QED BY <2>1, <2>2
<1>15. HistoryOk'
  BY <1>2, <1>13, <1>14 DEF HistoryOk
<1>16. e.router.proxying => received' = received
  <2>1. ASSUME e.router.proxying PROVE received' = received
    <3>1. k = got /\ got \in Nat
      BY <1>1, <1>2, <1>3, <2>1 DEF k
    <3>2. \A d \in Ends : received'[d] = received[d]
      BY <1>1, <1>2, <1>11, <3>1
    <3> QED BY <1>2, <1>13, <3>2
  <2> QED BY <2>1
<1> QED BY <1>1, <1>10, <1>11, <1>12, <1>15, <1>16 DEF k

\* A portal at which it is not the turn of n keeps what it has and sends nothing.
LEMMA OtherPortal ==
  ASSUME NEW place, Inv(place), NEW next, NEW n, NEW e, NEW c, NEW channels, NEW links,
         Turn(n, e, c, channels, links, place, next),
         NEW x \in Routers, x # n, x[2] = place[End(x)]
  PROVE  /\ next[End(x)] = place[End(x)] /\ sent'[End(x)] = sent[End(x)]
         /\ received'[End(x)] = received[End(x)]
<1>1. /\ n \in Routers /\ n \in Places(place) /\ n[2] \in Nat /\ place[End(n)] \in Nat
      /\ c.place = next /\ EffectOk(n, e, c)
  BY TurnFacts
<1>2. End(x) \in Ends
  BY RouterFacts
<1>3. CASE End(x) # End(n)
  BY <1>2, <1>3, TurnHistory DEF Turn
<1>4. CASE End(x) = End(n)
  <2>1. n[2] # x[2]
    BY <1>1, <1>4, RouterFacts
  <2>2. n[2] < place[End(n)]
    BY <1>1, <1>4, <2>1 DEF Places
  <2>3. next = place /\ sent' = sent
    BY <2>2 DEF Turn
  <2>4. e.router.proxying
    BY <1>1, <2>2, <2>3 DEF EffectOk, RouterOk, Ready
  <2> QED BY <2>3, <2>4, TurnHistory
<1> QED BY <1>3, <1>4

LEMMA TurnRouters ==
  ASSUME NEW place, Inv(place), NEW next, NEW n, NEW e, NEW c, NEW channels, NEW links,
         Turn(n, e, c, channels, links, place, next)
  PROVE  RoutersOk(next)' /\ OwnersOk'
<1>1. /\ n \in Routers /\ n \in Places(next)
      /\ Grows(place, next) /\ SentGrows(sent, sent')
      /\ c.place = next /\ c.sent = sent' /\ EffectOk(n, e, c) /\ Commit(n, e, channels, links)
  BY TurnFacts
<1>2. ASSUME NEW x \in DOMAIN routers'
      PROVE  x \in Places(next) /\ RouterOk(x, routers'[x], next, sent', Len(received'[End(x)]))
  <2>1. CASE x = n
    <3>1. routers'[n] = e.router
      BY <1>1, <1>2, <2>1, CommitFacts
    <3>2. Len(received'[End(n)]) = c.got + Len(e.taken)
      BY TurnHistory
    <3> QED BY <1>1, <2>1, <3>1, <3>2 DEF EffectOk
  <2>2. CASE x # n
    <3>1. x \in DOMAIN routers /\ routers'[x] = routers[x]
      BY <1>1, <2>2, CommitFacts
    <3>2. x \in Places(place) /\ RouterOk(x, routers[x], place, sent, Len(received[End(x)]))
      BY <3>1 DEF Inv, RoutersOk
    <3>3. x \in Routers /\ x[2] <= place[End(x)] /\ x[2] \in Nat /\ End(x) \in Ends
      BY <3>2, RouterFacts DEF Places
    <3>4. place[End(x)] \in Nat
      BY <3>3, TurnFacts
    <3>5. x \in Places(next)
      BY <1>1, <3>2, PlacesGrow
    <3>6. x[2] < place[End(x)] \/ (/\ next[End(x)] = place[End(x)]
                                   /\ Len(received'[End(x)]) = Len(received[End(x)])
                                   /\ sent'[End(x)] = sent[End(x)])
      <4>1. CASE x[2] = place[End(x)]
        BY <2>2, <3>3, <4>1, OtherPortal
      <4>2. CASE x[2] # place[End(x)]
        BY <3>3, <3>4, <4>2
      <4> QED BY <4>1, <4>2
    <3>7. RouterOk(x, routers[x], next, sent', Len(received'[End(x)]))
      BY <1>1, <3>2, <3>3, <3>6, RouterOkGrows
    <3> QED BY <3>1, <3>5, <3>7
  <2> QED BY <2>1, <2>2
<1>3. ASSUME NEW o \in owners' PROVE o[1] \in DOMAIN routers'
  <2>1. CASE o[1] = n
    BY <1>1, <1>3, <2>1, CommitFacts
  <2>2. CASE o[1] # n
    <3>1. o \in owners
      BY <1>1, <1>3, <2>2, CommitFacts
    <3>2. o[1] \in DOMAIN routers
      BY <3>1 DEF Inv, OwnersOk
    <3> QED BY <1>1, <2>2, <3>2, CommitFacts
  <2> QED BY <2>1, <2>2
<1> QED BY <1>2, <1>3 DEF RoutersOk, OwnersOk

(* A message in flight after the turn was there before it or is new.       *)
LEMMA TurnInFlight ==
  ASSUME NEW place, Inv(place), NEW next, NEW n, NEW e, NEW c, NEW channels, NEW links,
         Turn(n, e, c, channels, links, place, next)
  PROVE  /\ Wired(chan', deferred')
         /\ \A y \in Routers : \A m \in InFlight(chan', deferred', y) :
              \/ m \in InFlight(chan, deferred, y) /\ m \in InFlight(channels, deferred', y)
              \/ \E j \in 1 .. Len(e.sends) :
                   /\ m = e.sends[j] /\ SendFor(n, j, m, c)
                   /\ y = Across(n, m.link) /\ n # y
<1>1. EffectOk(n, e, c) /\ Commit(n, e, channels, links)
  BY TurnFacts
<1>2. SendsFor(n, e.sends, c)
  BY <1>1 DEF EffectOk, EffectFor
<1>3. chan' = Queued(channels, n, e.sends)
  BY <1>1 DEF Commit
<1>4. /\ Wired(channels, deferred')
      /\ \A y \in Routers : \A m \in InFlight(channels, deferred', y) : m \in InFlight(chan, deferred, y)
  BY DEF Turn, Leaves
<1>5. IsSeq(e.sends)
  BY <1>2 DEF SendsFor
<1>6. /\ Wired(chan', deferred')
      /\ \A y \in Routers : \A m \in InFlight(chan', deferred', y) :
           \/ m \in InFlight(channels, deferred', y)
           \/ \E j \in 1 .. Len(e.sends) : m = e.sends[j] /\ y = Across(n, m.link) /\ n # y
  BY <1>3, <1>4, <1>5, NewMessages
<1> QED BY <1>2, <1>4, <1>6 DEF SendsFor

LEMMA TurnMessages ==
  ASSUME NEW place, Inv(place), NEW next, NEW n, NEW e, NEW c, NEW channels, NEW links,
         Turn(n, e, c, channels, links, place, next)
  PROVE  MessagesOk(next)'
<1>1. /\ n \in Routers /\ n \in Places(next) /\ Grows(place, next) /\ SentGrows(sent, sent')
      /\ c.place = next /\ c.sent = sent' /\ EffectOk(n, e, c) /\ Commit(n, e, channels, links)
      /\ n[2] \in Nat /\ Given(c)
  BY TurnFacts
<1>2. Wired(chan', deferred')
  BY TurnInFlight
<1>3. ASSUME NEW y \in Routers, NEW m \in InFlight(chan', deferred', y)
      PROVE  MsgOk(y, m, next, sent')
  <2>1. CASE m \in InFlight(chan, deferred, y)
    <3>1. MsgOk(y, m, place, sent)
      BY <2>1 DEF Inv, MessagesOk
    <3> QED BY <1>1, <3>1, MsgOkGrows
  <2>2. CASE m \notin InFlight(chan, deferred, y)
    <3>1. PICK j \in 1 .. Len(e.sends) : SendFor(n, j, m, c) /\ y = Across(n, m.link)
      BY <2>2, <1>3, TurnInFlight
    <3>2. SendOk(n, m, next, sent')
      BY <1>1, <3>1 DEF SendFor
    <3>3. next \in [Ends -> 0 .. MaxMoves]
      BY <1>1 DEF Given
    <3> QED BY <1>1, <3>1, <3>2, <3>3, SendReaches
  <2> QED BY <2>1, <2>2
<1>4. Once(chan', deferred')
  <2>1. SendsFor(n, e.sends, c) /\ chan' = Queued(channels, n, e.sends)
    BY <1>1 DEF EffectOk, EffectFor, Commit
  <2>2. Wired(channels, deferred') /\ Once(channels, deferred')
    BY DEF Turn, Leaves
  <2>3. ASSUME c.described
        PROVE  /\ n = Pred(Across(n, c.head.link))
               /\ \A m \in InFlight(channels, deferred', Across(n, c.head.link)) : ~IsDescriptor(m)
    <3>1. n[2] = place[End(n)] /\ c.head.link = Inner(n) /\ next[End(n)] = n[2] + 1
      BY <2>3 DEF Turn, Describes
    <3>2. Across(n, c.head.link) = Successor(n)
      BY <3>1 DEF Across, Inner, Link
    <3>3. n[2] < MaxMoves
      <4>1. next \in [Ends -> 0 .. MaxMoves] /\ MaxMoves \in Nat
        BY <1>1, ProxyBypassAssumption DEF Given
      <4>2. next[End(n)] <= MaxMoves
        BY <1>1, <4>1, RouterFacts
      <4> QED BY <1>1, <3>1, <4>1, <4>2
    <3>4. /\ Successor(n) \in Routers /\ Pred(Successor(n)) = n /\ End(Successor(n)) = End(n)
          /\ Successor(n)[2] = n[2] + 1
      BY <1>1, <3>3, RouterFacts
    <3>5. ASSUME NEW m \in InFlight(channels, deferred', Successor(n)) PROVE ~IsDescriptor(m)
      <4>1. m \in InFlight(chan, deferred, Successor(n))
        BY <3>4, <3>5 DEF Turn, Leaves
      <4>2. IsDescriptor(m) => Successor(n)[2] = place[End(Successor(n))]
        BY <3>4, <4>1 DEF Inv, DescriptorsOk, DescriptorOk
      <4>3. n[2] + 1 # n[2]
        BY <1>1
      <4> QED BY <3>1, <3>4, <4>2, <4>3
    <3> QED BY <3>2, <3>4, <3>5
  <2> QED BY <2>1, <2>2, <2>3, OnceStays
<1>5. EarlyOk(early', next, sent')
  BY DEF Turn, Leaves
<1> QED BY <1>2, <1>3, <1>4, <1>5 DEF MessagesOk

(* A closed inward direction stays closed.                                 *)
LEMMA QuietStays ==
  ASSUME NEW place, Inv(place), NEW next, NEW n, NEW e, NEW c, NEW channels, NEW links,
         Turn(n, e, c, channels, links, place, next),
         NEW p, Quiet(p), Successor(p) \in Places(place)
  PROVE  Quiet(p)'
<1>1. /\ n \in Routers /\ n \in Places(next) /\ n[2] \in Nat /\ place[End(n)] \in Nat
      /\ EffectOk(n, e, c) /\ Commit(n, e, channels, links)
  BY TurnFacts
<1>2. Successor(p) \in Routers /\ Successor(p)[2] <= place[End(Successor(p))]
  BY DEF Places
<1>3. p = n => c.hush
  <2>1. ASSUME p = n PROVE n \in DOMAIN routers
    <3>1. End(Successor(n)) = End(n) /\ Successor(n)[2] = n[2] + 1
      BY <1>1, RouterFacts
    <3>2. n[2] # place[End(n)]
      BY <1>1, <1>2, <2>1, <3>1
    <3> QED BY <3>2 DEF Turn
  <2> QED BY <2>1 DEF Turn, Quiet
<1>4. ASSUME p \in DOMAIN routers'
      PROVE  routers'[p].proxying /\ routers'[p].inward.primary = NoLink
  <2>1. CASE p = n
    <3>1. routers'[n] = e.router
      BY <1>1, <1>4, <2>1, CommitFacts
    <3> QED BY <1>1, <1>3, <2>1, <3>1 DEF EffectOk, EffectFor
  <2>2. CASE p # n
    <3>1. p \in DOMAIN routers /\ routers'[p] = routers[p]
      BY <1>1, <1>4, <2>2, CommitFacts
    <3> QED BY <3>1 DEF Quiet
  <2> QED BY <2>1, <2>2
<1>5. ASSUME NEW m \in InFlight(chan', deferred', Successor(p)),
             m.type = "RouteClosed", m.link = Inner(p)
      PROVE  FALSE
  <2>1. m \notin InFlight(chan, deferred, Successor(p))
    BY <1>5 DEF Quiet
  <2>2. PICK j \in 1 .. Len(e.sends) : SendFor(n, j, m, c) /\ Successor(p) = Across(n, m.link)
    BY <1>2, <1>5, <2>1, TurnInFlight
  <2>3. CASE p = n
    BY <1>3, <1>5, <2>2, <2>3 DEF SendFor
  <2>4. CASE p # n
    <3>1. Successor(p) = p
      BY <1>5, <2>2, <2>4, LinkFacts DEF Across
    <3>2. PICK d \in Ends, i \in 0 .. MaxMoves : Successor(p) = <<d, i>>
      BY <1>2 DEF Routers
    <3>3. p[2] = i /\ Successor(p)[2] = p[2] + 1 /\ Successor(p)[2] = i
      BY <3>1, <3>2 DEF Successor
    <3>4. MaxMoves \in Nat
      BY ProxyBypassAssumption
    <3> QED BY <3>2, <3>3, <3>4
  <2> QED BY <2>3, <2>4
<1> QED BY <1>4, <1>5 DEF Quiet

LEMMA TurnDescriptors ==
  ASSUME NEW place, Inv(place), NEW next, NEW n, NEW e, NEW c, NEW channels, NEW links,
         Turn(n, e, c, channels, links, place, next)
  PROVE  DescriptorsOk(next)'
<1>1. /\ n \in Routers /\ n \in Places(place) /\ n \in Places(next) /\ Grows(place, next)
      /\ n[2] \in Nat /\ End(n) \in Ends
      /\ c.place = next /\ c.sent = sent' /\ EffectOk(n, e, c) /\ Commit(n, e, channels, links)
  BY TurnFacts
<1>2. ASSUME NEW y \in Routers, NEW m \in InFlight(chan', deferred', y), IsDescriptor(m),
             m \in InFlight(chan, deferred, y), m \in InFlight(channels, deferred', y)
      PROVE  DescriptorOk(y, m, next)'
  <2>1. DescriptorOk(y, m, place)
    BY <1>2 DEF Inv, DescriptorsOk
  <2>2. /\ y[2] > 0 /\ y[2] = place[End(y)] /\ y \notin DOMAIN routers /\ m.link = Inner(Pred(y))
        /\ m.incoming = Len(received[End(y)]) /\ m.outgoing = sent[End(y)]
    BY <2>1 DEF DescriptorOk
  <2>3. y # n
    BY <1>2, <2>2 DEF Turn
  <2>4. /\ next[End(y)] = place[End(y)] /\ sent'[End(y)] = sent[End(y)]
        /\ received'[End(y)] = received[End(y)]
    BY <2>2, <2>3, OtherPortal
  <2>5. y \notin DOMAIN routers'
    BY <1>1, <2>2, <2>3, CommitFacts
  <2>6. ASSUME m.bypass # NoLink
        PROVE  OutLink(Pred(y), m.bypass, next) /\ IsCentral(m.bypass) /\ ~m.peerClosed
               /\ Quiet(Pred(y))'
    <3>1. /\ OutLink(Pred(y), m.bypass, place) /\ IsCentral(m.bypass) /\ ~m.peerClosed
          /\ Quiet(Pred(y))
      BY <2>1, <2>6 DEF DescriptorOk
    <3>2. Successor(Pred(y)) = y
      BY <2>2, RouterFacts
    <3>3. y \in Places(place)
      <4>1. MsgOk(y, m, place, sent)
        BY <1>2 DEF Inv, MessagesOk
      <4> QED BY <4>1 DEF MsgOk
    <3>4. Quiet(Pred(y))'
      BY <3>1, <3>2, <3>3, QuietStays
    <3> QED BY <1>1, <3>1, <3>4, PlacesGrow
  <2> QED BY <2>2, <2>4, <2>5, <2>6 DEF DescriptorOk
<1>3. ASSUME NEW y \in Routers, NEW m \in InFlight(chan', deferred', y), IsDescriptor(m),
             NEW j \in 1 .. Len(e.sends), SendFor(n, j, m, c), y = Across(n, m.link)
      PROVE  DescriptorOk(y, m, next)'
  <2>1. c.described /\ m = c.head
    BY <1>3 DEF SendFor
  <2>2. /\ n \in DOMAIN routers /\ n[2] = place[End(n)] /\ next[End(n)] = n[2] + 1
        /\ m.link = Inner(n)
        /\ m.incoming = Len(received[End(n)]) /\ m.outgoing = sent'[End(n)]
        /\ m.bypass # NoLink =>
             OutLink(n, m.bypass, next) /\ IsCentral(m.bypass) /\ ~m.peerClosed /\ c.hush
    BY <2>1 DEF Turn, Describes
  <2>3. y = Successor(n)
    BY <1>3, <2>2 DEF Across, Inner, Link
  <2>4. Pred(y) = n /\ End(y) = End(n) /\ y[2] = n[2] + 1 /\ y[2] > 0
    BY <1>1, <2>3, RouterFacts
  <2>5. y \notin Places(place)
    <3>1. ~(y[2] <= place[End(y)])
      BY <1>1, <2>2, <2>4
    <3> QED BY <3>1 DEF Places
  <2>6. y \notin DOMAIN routers
    BY <2>5 DEF Inv, RoutersOk
  <2>7. y # n
    BY <1>1, <2>5
  <2>8. y \notin DOMAIN routers'
    BY <1>1, <2>6, <2>7, CommitFacts
  <2>9. received'[End(y)] = received[End(y)]
    <3>1. e.router.proxying
      BY <1>1, <2>2 DEF EffectOk, RouterOk, Ready
    <3> QED BY <3>1, TurnHistory
  <2>10. ASSUME m.bypass # NoLink PROVE Quiet(n)'
    <3>1. c.hush
      BY <2>2, <2>10
    <3>2. n \in DOMAIN routers' => routers'[n].proxying /\ routers'[n].inward.primary = NoLink
      <4>1. n \in DOMAIN routers' => routers'[n] = e.router
        BY <1>1, CommitFacts
      <4> QED BY <1>1, <3>1, <4>1 DEF EffectOk, EffectFor
    <3>3. ASSUME NEW v \in InFlight(chan', deferred', Successor(n)),
                 v.type = "RouteClosed", v.link = Inner(n)
          PROVE  FALSE
      <4>1. v \notin InFlight(chan, deferred, y)
        <5>1. v \in InFlight(chan, deferred, y) => MsgOk(y, v, place, sent)
          BY DEF Inv, MessagesOk
        <5> QED BY <2>5, <5>1 DEF MsgOk
      <4>2. PICK i \in 1 .. Len(e.sends) : SendFor(n, i, v, c)
        BY <2>3, <3>3, <4>1, TurnInFlight
      <4> QED BY <3>1, <3>3, <4>2 DEF SendFor
    <3> QED BY <3>2, <3>3 DEF Quiet
  <2> QED BY <2>2, <2>4, <2>8, <2>9, <2>10 DEF DescriptorOk
<1>4. ASSUME NEW y \in Routers, NEW m \in InFlight(chan', deferred', y), IsDescriptor(m)
      PROVE  DescriptorOk(y, m, next)'
  <2>1. CASE m \in InFlight(chan, deferred, y) /\ m \in InFlight(channels, deferred', y)
    BY <1>2, <1>4, <2>1
  <2>2. CASE \E j \in 1 .. Len(e.sends) : SendFor(n, j, m, c) /\ y = Across(n, m.link)
    <3>1. PICK j \in 1 .. Len(e.sends) : SendFor(n, j, m, c) /\ y = Across(n, m.link)
      BY <2>2
    <3> QED BY <1>3, <1>4, <3>1
  <2> QED BY <1>4, <2>1, <2>2, TurnInFlight
<1> QED BY <1>4 DEF DescriptorsOk

LEMMA TurnBypass ==
  ASSUME NEW place, Inv(place), NEW next, NEW n, NEW e, NEW c, NEW channels, NEW links,
         Turn(n, e, c, channels, links, place, next)
  PROVE  BypassOk(next)'
<1>1. /\ n \in Routers /\ n \in Places(place) /\ Grows(place, next)
      /\ EffectOk(n, e, c) /\ Commit(n, e, channels, links)
  BY TurnFacts
<1>2. /\ bypass' = [x \in Routers |-> [state |-> bypass'[x].state, old |-> bypass'[x].old]]
      /\ \A x \in Routers : x # n => bypass'[x] = bypass[x]
      /\ Requests(n, c, place)
  BY DEF Turn
<1>3. ASSUME NEW x \in Routers, bypass'[x].state = "requested" PROVE Waits(x, next)'
  <2>1. CASE x = n
    <3>1. /\ c.calm /\ OutLink(Pred(n), bypass'[n].old, place) /\ IsCentral(bypass'[n].old)
          /\ Quiet(Pred(n))
      BY <1>2, <1>3, <2>1 DEF Requests
    <3>2. /\ n[2] > 0 /\ e.router.outward = EdgeOn(Inner(Pred(n)))
          /\ e.router.inbound.final = None /\ ~e.removed
      BY <1>1, <3>1 DEF EffectOk, EffectFor
    <3>3. n \in DOMAIN routers' /\ routers'[n] = e.router
      BY <1>1, <3>2, CommitFacts
    <3>4. Successor(Pred(n)) = n
      BY <1>1, <3>2, RouterFacts
    <3>5. Quiet(Pred(n))'
      BY <1>1, <3>1, <3>4, QuietStays
    <3>6. OutLink(Pred(n), bypass'[n].old, next)
      BY <1>1, <3>1, PlacesGrow
    <3> QED BY <2>1, <3>1, <3>2, <3>3, <3>5, <3>6 DEF Waits
  <2>2. CASE x # n
    <3>1. bypass'[x] = bypass[x]
      BY <1>2, <2>2
    <3>2. Waits(x, place)
      BY <1>3, <3>1 DEF Inv, BypassOk
    <3>3. /\ x[2] > 0 /\ x \in DOMAIN routers
          /\ routers[x].outward = EdgeOn(Inner(Pred(x))) /\ routers[x].inbound.final = None
          /\ OutLink(Pred(x), bypass[x].old, place) /\ IsCentral(bypass[x].old)
          /\ Quiet(Pred(x))
      BY <3>2 DEF Waits
    <3>4. x \in DOMAIN routers'
      BY <1>1, <2>2, <3>3, CommitFacts
    <3>5. routers'[x] = routers[x]
      BY <1>1, <2>2, <3>4, CommitFacts
    <3>6. Successor(Pred(x)) = x /\ x \in Places(place)
      BY <3>3, RouterFacts DEF Inv, RoutersOk
    <3>7. Quiet(Pred(x))'
      BY <3>3, <3>6, QuietStays
    <3>8. OutLink(Pred(x), bypass'[x].old, next)
      BY <1>1, <3>1, <3>3, PlacesGrow
    <3> QED BY <3>1, <3>3, <3>4, <3>5, <3>7, <3>8 DEF Waits
  <2> QED BY <2>1, <2>2
<1> QED BY <1>2, <1>3 DEF BypassOk

(* A turn keeps the invariant, and the portal gets what is due.            *)
LEMMA TurnKeeps ==
  ASSUME NEW place, Inv(place), NEW next, NEW n, NEW e, NEW c, NEW channels, NEW links,
         Turn(n, e, c, channels, links, place, next)
  PROVE  Inv(next)' /\ Delivered(n)
<1>1. PlacesOk(next)'
  BY DEF Turn
<1>2. HistoryOk' /\ Delivered(n)
  BY TurnHistory
<1>3. RoutersOk(next)' /\ OwnersOk'
  BY TurnRouters
<1>4. MessagesOk(next)'
  BY TurnMessages
<1>5. DescriptorsOk(next)'
  BY TurnDescriptors
<1>6. BypassOk(next)'
  BY TurnBypass
<1> QED BY <1>1, <1>2, <1>3, <1>4, <1>5, <1>6 DEF Inv

(* A message that is ignored, refused or put aside.                        *)
LEMMA IdleKeeps ==
  ASSUME NEW place, Inv(place), UNCHANGED <<routers, owners, received, sent, moves>>,
         Leaves(chan', place),
         bypass' = [x \in Routers |-> [state |-> bypass'[x].state, old |-> bypass'[x].old]],
         \A x \in Routers : bypass'[x].state = "requested" => bypass'[x] = bypass[x]
  PROVE  Inv(place)' /\ \A n \in Routers : Delivered(n)
<1>1. /\ Wired(chan', deferred') /\ Once(chan', deferred') /\ EarlyOk(early', place, sent')
      /\ \A y \in Routers : \A m \in InFlight(chan', deferred', y) : m \in InFlight(chan, deferred, y)
  BY DEF Leaves
<1>2. PlacesOk(place)' /\ HistoryOk'
  BY DEF Inv, PlacesOk, HistoryOk
<1>3. RoutersOk(place)' /\ OwnersOk'
  BY DEF Inv, RoutersOk, OwnersOk
<1>4. MessagesOk(place)'
  BY <1>1 DEF Inv, MessagesOk
<1>5. ASSUME NEW p, Quiet(p), Successor(p) \in Routers PROVE Quiet(p)'
  BY <1>1, <1>5 DEF Quiet
<1>6. ASSUME NEW y \in Routers, NEW m \in InFlight(chan', deferred', y), IsDescriptor(m)
      PROVE  DescriptorOk(y, m, place)'
  <2>1. DescriptorOk(y, m, place)
    BY <1>1, <1>6 DEF Inv, DescriptorsOk
  <2>2. Successor(Pred(y)) = y
    BY <2>1, RouterFacts DEF DescriptorOk
  <2>3. Quiet(Pred(y)) => Quiet(Pred(y))'
    BY <1>5, <2>2
  <2> QED BY <2>1, <2>3 DEF DescriptorOk
<1>7. ASSUME NEW x \in Routers, bypass'[x].state = "requested" PROVE Waits(x, place)'
  <2>1. bypass'[x] = bypass[x]
    BY <1>7
  <2>2. Waits(x, place)
    BY <1>7, <2>1 DEF Inv, BypassOk
  <2>3. Successor(Pred(x)) = x
    BY <2>2, RouterFacts DEF Waits
  <2>4. Quiet(Pred(x))'
    BY <1>5, <2>2, <2>3 DEF Waits
  <2> QED BY <2>1, <2>2, <2>4 DEF Waits
<1>8. ASSUME NEW n \in Routers PROVE Delivered(n)
  <2>1. End(n) \in Ends
    BY RouterFacts
  <2> DEFINE d == End(n)
             k == Len(received[d])
  <2>2. /\ k \in Nat /\ k <= sent[Peer(d)] /\ received[d] = [i \in 1 .. k |-> i]
        /\ received = [x \in Ends |-> received[x]] /\ sent[Peer(d)] \in Nat
    BY <2>1, EndFacts DEF Inv, HistoryOk
  <2>3. k \in k .. sent[Peer(d)]
    BY <2>2
  <2>4. received' = [received EXCEPT ![d] = [i \in 1 .. k |-> i]]
    <3> HIDE DEF k, d
    <3> QED BY <2>2
  <2> QED BY <2>3, <2>4 DEF Delivered
<1> QED BY <1>2, <1>3, <1>4, <1>6, <1>7, <1>8 DEF Inv, DescriptorsOk, BypassOk

-----------------------------------------------------------------------------
(* Messages that are taken.                                                *)

LEMMA TakeFromChannel ==
  ASSUME NEW ch, NEW df, Wired(ch, df), Once(ch, df), NEW pair \in Pairs, ch[pair] # <<>>,
         NEW q, q = [x \in Pairs |-> q[x]], q[pair] = Tail(ch[pair]),
         \A x \in Pairs : x # pair => q[x] = ch[x], NEW m, m = Head(ch[pair])
  PROVE  /\ Wired(q, df) /\ Once(q, df) /\ m \in InFlight(ch, df, pair[2])
         /\ \A y \in Routers : \A v \in InFlight(q, df, y) : v \in InFlight(ch, df, y)
         /\ IsDescriptor(m) => \A v \in InFlight(q, df, pair[2]) : ~IsDescriptor(v)
<1>1. ch = [x \in Pairs |-> ch[x]] /\ \A x \in Pairs : IsSeq(ch[x])
  BY DEF Wired
<1>2. PICK s : s = ch[pair]
  OBVIOUS
<1>3. IsSeq(s) /\ s # <<>> /\ m = Head(s)
  BY <1>1, <1>2
<1>4. /\ IsSeq(Tail(s)) /\ Len(Tail(s)) = Len(s) - 1 /\ Len(s) >= 1 /\ m = s[1]
      /\ \A i \in 1 .. Len(s) - 1 : Tail(s)[i] = s[i + 1]
  BY <1>3, TailSeq
<1>5. Len(s) \in Nat
  BY <1>3 DEF IsSeq
<1>6. q[pair] = Tail(s) /\ \A x \in Pairs : x # pair => q[x] = ch[x]
  BY <1>2
<1>7. Wired(q, df)
  <2>1. q = [x \in Pairs |-> q[x]]
    OBVIOUS
  <2>2. \A x \in Pairs : IsSeq(q[x])
    BY <1>1, <1>4, <1>6
  <2> QED BY <2>1, <2>2 DEF Wired
<1>8. ASSUME NEW x \in Pairs, NEW i \in 1 .. Len(q[x])
      PROVE  IF x = pair THEN i + 1 \in 1 .. Len(ch[x]) /\ i + 1 # 1 /\ q[x][i] = ch[x][i + 1]
                         ELSE i \in 1 .. Len(ch[x]) /\ q[x][i] = ch[x][i]
  <2>1. CASE x = pair
    <3>1. i \in 1 .. Len(s) - 1
      BY <1>4, <1>6, <2>1
    <3>2. i + 1 \in 1 .. Len(s) /\ i + 1 # 1 /\ q[x][i] = s[i + 1]
      BY <1>4, <1>5, <1>6, <2>1, <3>1
    <3> QED BY <1>2, <2>1, <3>2
  <2>2. CASE x # pair
    BY <1>6, <2>2
  <2> QED BY <2>1, <2>2
<1>9. 1 \in 1 .. Len(ch[pair]) /\ m = ch[pair][1]
  BY <1>2, <1>4, <1>5
<1>10. ASSUME NEW y \in Routers, NEW v \in InFlight(q, df, y) PROVE v \in InFlight(ch, df, y)
  <2>1. CASE \E i \in 1 .. Len(df[y]) : v = df[y][i]
    BY <2>1, InFlightFacts
  <2>2. CASE \E x \in Pairs : x[2] = y /\ \E i \in 1 .. Len(q[x]) : v = q[x][i]
    <3>1. PICK x \in Pairs : x[2] = y /\ \E i \in 1 .. Len(q[x]) : v = q[x][i]
      BY <2>2
    <3>2. PICK i \in 1 .. Len(q[x]) : v = q[x][i]
      BY <3>1
    <3>3. \E j \in 1 .. Len(ch[x]) : v = ch[x][j]
      BY <1>8, <3>2
    <3> QED BY <3>1, <3>3, InFlightFacts
  <2>3. \/ \E x \in Pairs : x[2] = y /\ \E i \in 1 .. Len(q[x]) : v = q[x][i]
        \/ \E i \in 1 .. Len(df[y]) : v = df[y][i]
    BY <1>10, InFlightCases
  <2> QED BY <2>1, <2>2, <2>3
<1>11. ASSUME NEW x \in Pairs, NEW i \in 1 .. Len(q[x]), IsDescriptor(q[x][i])
       PROVE  /\ x[1] = Pred(x[2])
              /\ \A j \in 1 .. Len(q[x]) : IsDescriptor(q[x][j]) => j = i
              /\ \A j \in 1 .. Len(df[x[2]]) : ~IsDescriptor(df[x[2]][j])
  <2>1. CASE x = pair
    <3>1. i + 1 \in 1 .. Len(ch[x]) /\ q[x][i] = ch[x][i + 1]
      BY <1>8, <2>1
    <3>2. /\ x[1] = Pred(x[2])
          /\ \A j \in 1 .. Len(ch[x]) : IsDescriptor(ch[x][j]) => j = i + 1
          /\ \A j \in 1 .. Len(df[x[2]]) : ~IsDescriptor(df[x[2]][j])
      BY <1>11, <3>1 DEF Once
    <3>3. ASSUME NEW j \in 1 .. Len(q[x]), IsDescriptor(q[x][j]) PROVE j = i
      <4>1. j + 1 \in 1 .. Len(ch[x]) /\ q[x][j] = ch[x][j + 1]
        BY <1>8, <2>1
      <4>2. j + 1 = i + 1
        BY <3>2, <3>3, <4>1
      <4>3. i \in Int /\ j \in Int
        BY <1>4, <1>5, <1>6, <2>1
      <4> QED BY <4>2, <4>3
    <3> QED BY <3>2, <3>3
  <2>2. CASE x # pair
    <3>1. q[x] = ch[x]
      BY <1>6, <2>2
    <3> QED BY <1>11, <3>1 DEF Once
  <2> QED BY <2>1, <2>2
<1>12. Once(q, df)
  BY <1>11 DEF Once
<1>13. m \in InFlight(ch, df, pair[2])
  BY <1>9, InFlightFacts
<1>14. ASSUME IsDescriptor(m), NEW v \in InFlight(q, df, pair[2]), IsDescriptor(v) PROVE FALSE
  <2>1. /\ pair[1] = Pred(pair[2])
        /\ \A j \in 1 .. Len(ch[pair]) : IsDescriptor(ch[pair][j]) => j = 1
        /\ \A j \in 1 .. Len(df[pair[2]]) : ~IsDescriptor(df[pair[2]][j])
    BY <1>9, <1>14 DEF Once
  <2>2. PICK x \in Pairs : x[2] = pair[2] /\ \E i \in 1 .. Len(q[x]) : v = q[x][i]
    <3>1. \/ \E x \in Pairs : x[2] = pair[2] /\ \E i \in 1 .. Len(q[x]) : v = q[x][i]
          \/ \E i \in 1 .. Len(df[pair[2]]) : v = df[pair[2]][i]
      BY <1>14, InFlightCases
    <3> QED BY <1>14, <2>1, <3>1
  <2>3. PICK i \in 1 .. Len(q[x]) : v = q[x][i]
    BY <2>2
  <2>4. x[1] = Pred(x[2])
    BY <1>11, <1>14, <2>3
  <2>5. x = pair
    BY <2>1, <2>2, <2>4, PairFacts
  <2>6. i + 1 \in 1 .. Len(ch[pair]) /\ i + 1 # 1 /\ v = ch[pair][i + 1]
    BY <1>8, <2>3, <2>5
  <2> QED BY <1>14, <2>1, <2>6
<1> QED BY <1>7, <1>10, <1>12, <1>13, <1>14

LEMMA TakeFromBuffer ==
  ASSUME NEW ch, NEW df, Wired(ch, df), Once(ch, df), NEW n \in Routers, df[n] # <<>>,
         NEW d, d = [x \in Routers |-> d[x]], d[n] = Tail(df[n]),
         \A x \in Routers : x # n => d[x] = df[x], NEW m, m = Head(df[n])
  PROVE  /\ Wired(ch, d) /\ Once(ch, d) /\ m \in InFlight(ch, df, n)
         /\ \A y \in Routers : \A v \in InFlight(ch, d, y) : v \in InFlight(ch, df, y)
         /\ IsDescriptor(m) => \A v \in InFlight(ch, d, n) : ~IsDescriptor(v)
<1>1. df = [x \in Routers |-> df[x]] /\ \A x \in Routers : IsSeq(df[x])
  BY DEF Wired
<1>2. PICK s : s = df[n]
  OBVIOUS
<1>3. IsSeq(s) /\ s # <<>> /\ m = Head(s)
  BY <1>1, <1>2
<1>4. /\ IsSeq(Tail(s)) /\ Len(Tail(s)) = Len(s) - 1 /\ Len(s) >= 1 /\ m = s[1]
      /\ \A i \in 1 .. Len(s) - 1 : Tail(s)[i] = s[i + 1]
  BY <1>3, TailSeq
<1>5. Len(s) \in Nat
  BY <1>3 DEF IsSeq
<1>6. d[n] = Tail(s) /\ \A x \in Routers : x # n => d[x] = df[x]
  BY <1>2
<1>7. Wired(ch, d)
  <2>1. d = [x \in Routers |-> d[x]]
    OBVIOUS
  <2>2. \A x \in Routers : IsSeq(d[x])
    BY <1>1, <1>4, <1>6
  <2> QED BY <2>1, <2>2 DEF Wired
<1>8. ASSUME NEW x \in Routers, NEW i \in 1 .. Len(d[x])
      PROVE  IF x = n THEN i + 1 \in 1 .. Len(df[x]) /\ i + 1 # 1 /\ d[x][i] = df[x][i + 1]
                      ELSE i \in 1 .. Len(df[x]) /\ d[x][i] = df[x][i]
  <2>1. CASE x = n
    <3>1. i \in 1 .. Len(s) - 1
      BY <1>4, <1>6, <2>1
    <3>2. i + 1 \in 1 .. Len(s) /\ i + 1 # 1 /\ d[x][i] = s[i + 1]
      BY <1>4, <1>5, <1>6, <2>1, <3>1
    <3> QED BY <1>2, <2>1, <3>2
  <2>2. CASE x # n
    BY <1>6, <2>2
  <2> QED BY <2>1, <2>2
<1>9. 1 \in 1 .. Len(df[n]) /\ m = df[n][1]
  BY <1>2, <1>4, <1>5
<1>10. ASSUME NEW y \in Routers, NEW v \in InFlight(ch, d, y) PROVE v \in InFlight(ch, df, y)
  <2>1. CASE \E i \in 1 .. Len(d[y]) : v = d[y][i]
    <3>1. PICK i \in 1 .. Len(d[y]) : v = d[y][i]
      BY <2>1
    <3>2. \E j \in 1 .. Len(df[y]) : v = df[y][j]
      BY <1>8, <3>1
    <3> QED BY <3>2, InFlightFacts
  <2>2. CASE \E x \in Pairs : x[2] = y /\ \E i \in 1 .. Len(ch[x]) : v = ch[x][i]
    BY <2>2, InFlightFacts
  <2>3. \/ \E x \in Pairs : x[2] = y /\ \E i \in 1 .. Len(ch[x]) : v = ch[x][i]
        \/ \E i \in 1 .. Len(d[y]) : v = d[y][i]
    BY <1>10, InFlightCases
  <2> QED BY <2>1, <2>2, <2>3
<1>11. ASSUME NEW y \in Routers, NEW j \in 1 .. Len(d[y]),
              NEW i \in 1 .. Len(d[y]), IsDescriptor(d[y][i]), IsDescriptor(d[y][j])
       PROVE  i = j
  <2>1. CASE y = n
    <3>1. /\ i + 1 \in 1 .. Len(df[y]) /\ d[y][i] = df[y][i + 1]
          /\ j + 1 \in 1 .. Len(df[y]) /\ d[y][j] = df[y][j + 1]
      BY <1>8, <2>1
    <3>2. i + 1 = j + 1
      BY <1>11, <3>1 DEF Once
    <3>3. i \in Int /\ j \in Int
      BY <1>4, <1>5, <1>6, <2>1
    <3> QED BY <3>2, <3>3
  <2>2. CASE y # n
    <3>1. d[y] = df[y]
      BY <1>6, <2>2
    <3> QED BY <1>11, <3>1 DEF Once
  <2> QED BY <2>1, <2>2
<1>12. ASSUME NEW pair \in Pairs, NEW i \in 1 .. Len(ch[pair]), IsDescriptor(ch[pair][i])
       PROVE  /\ pair[1] = Pred(pair[2])
              /\ \A j \in 1 .. Len(ch[pair]) : IsDescriptor(ch[pair][j]) => j = i
              /\ \A j \in 1 .. Len(d[pair[2]]) : ~IsDescriptor(d[pair[2]][j])
  <2>1. /\ pair[1] = Pred(pair[2])
        /\ \A j \in 1 .. Len(ch[pair]) : IsDescriptor(ch[pair][j]) => j = i
        /\ \A j \in 1 .. Len(df[pair[2]]) : ~IsDescriptor(df[pair[2]][j])
    BY <1>12 DEF Once
  <2>2. pair[2] \in Routers
    BY PairFacts
  <2>3. \A j \in 1 .. Len(d[pair[2]]) : ~IsDescriptor(d[pair[2]][j])
    BY <1>8, <2>1, <2>2
  <2> QED BY <2>1, <2>3
<1>13. Once(ch, d)
  <2>1. \A pair \in Pairs : \A i \in 1 .. Len(ch[pair]) : IsDescriptor(ch[pair][i]) =>
          /\ pair[1] = Pred(pair[2])
          /\ \A j \in 1 .. Len(ch[pair]) : IsDescriptor(ch[pair][j]) => j = i
          /\ \A j \in 1 .. Len(d[pair[2]]) : ~IsDescriptor(d[pair[2]][j])
    BY <1>12
  <2>2. \A y \in Routers : \A i, j \in 1 .. Len(d[y]) :
          IsDescriptor(d[y][i]) /\ IsDescriptor(d[y][j]) => i = j
    BY <1>11
  <2> QED BY <2>1, <2>2 DEF Once
<1>14. m \in InFlight(ch, df, n)
  BY <1>9, InFlightFacts
<1>15. ASSUME IsDescriptor(m), NEW v \in InFlight(ch, d, n), IsDescriptor(v) PROVE FALSE
  <2>1. CASE \E i \in 1 .. Len(d[n]) : v = d[n][i]
    <3>1. PICK i \in 1 .. Len(d[n]) : v = d[n][i]
      BY <2>1
    <3>2. i + 1 \in 1 .. Len(df[n]) /\ i + 1 # 1 /\ v = df[n][i + 1]
      BY <1>8, <3>1
    <3> QED BY <1>9, <1>15, <3>2 DEF Once
  <2>2. CASE \E x \in Pairs : x[2] = n /\ \E i \in 1 .. Len(ch[x]) : v = ch[x][i]
    <3>1. PICK x \in Pairs : x[2] = n /\ \E i \in 1 .. Len(ch[x]) : v = ch[x][i]
      BY <2>2
    <3>2. PICK i \in 1 .. Len(ch[x]) : v = ch[x][i]
      BY <3>1
    <3>3. \A j \in 1 .. Len(df[n]) : ~IsDescriptor(df[n][j])
      BY <1>15, <3>1, <3>2 DEF Once
    <3> QED BY <1>9, <1>15, <3>3
  <2>3. \/ \E x \in Pairs : x[2] = n /\ \E i \in 1 .. Len(ch[x]) : v = ch[x][i]
        \/ \E i \in 1 .. Len(d[n]) : v = d[n][i]
    BY <1>15, InFlightCases
  <2> QED BY <2>1, <2>2, <2>3
<1> QED BY <1>7, <1>10, <1>13, <1>14, <1>15

(* A parcel that waits for its buffer comes after those that wait already. *)
LEMMA PutAside ==
  ASSUME NEW ch, NEW df, Wired(ch, df), Once(ch, df), NEW n \in Routers, NEW m,
         IsDescriptor(m) => \A v \in InFlight(ch, df, n) : ~IsDescriptor(v),
         NEW d, d = [x \in Routers |-> d[x]], d[n] = Append(df[n], m),
         \A x \in Routers : x # n => d[x] = df[x]
  PROVE  /\ Wired(ch, d) /\ Once(ch, d)
         /\ \A y \in Routers : \A v \in InFlight(ch, d, y) :
              v \in InFlight(ch, df, y) \/ (y = n /\ v = m)
<1>1. df = [x \in Routers |-> df[x]] /\ \A x \in Routers : IsSeq(df[x])
  BY DEF Wired
<1>2. PICK s : s = df[n]
  OBVIOUS
<1>3. IsSeq(s)
  BY <1>1, <1>2
<1>4. /\ IsSeq(Append(s, m)) /\ Len(Append(s, m)) = Len(s) + 1
      /\ Append(s, m)[Len(s) + 1] = m
      /\ \A i \in 1 .. Len(s) : Append(s, m)[i] = s[i]
  BY <1>3, AppendSeq
<1>5. Len(s) \in Nat
  BY <1>3 DEF IsSeq
<1>6. d[n] = Append(s, m) /\ \A x \in Routers : x # n => d[x] = df[x]
  BY <1>2
<1>7. Wired(ch, d)
  <2>1. d = [x \in Routers |-> d[x]]
    OBVIOUS
  <2>2. \A x \in Routers : IsSeq(d[x])
    BY <1>1, <1>4, <1>6
  <2> QED BY <2>1, <2>2 DEF Wired
<1>8. ASSUME NEW x \in Routers, NEW i \in 1 .. Len(d[x])
      PROVE  \/ i \in 1 .. Len(df[x]) /\ d[x][i] = df[x][i]
             \/ x = n /\ i = Len(s) + 1 /\ d[x][i] = m
  <2>1. CASE x = n
    <3>1. i \in 1 .. Len(s) \/ i = Len(s) + 1
      BY <1>4, <1>5, <1>6, <2>1
    <3> QED BY <1>2, <1>4, <1>6, <2>1, <3>1
  <2>2. CASE x # n
    BY <1>6, <2>2
  <2> QED BY <2>1, <2>2
<1>9. ASSUME NEW y \in Routers, NEW v \in InFlight(ch, d, y)
      PROVE  v \in InFlight(ch, df, y) \/ (y = n /\ v = m)
  <2>1. CASE \E i \in 1 .. Len(d[y]) : v = d[y][i]
    <3>1. PICK i \in 1 .. Len(d[y]) : v = d[y][i]
      BY <2>1
    <3>2. (\E j \in 1 .. Len(df[y]) : v = df[y][j]) \/ (y = n /\ v = m)
      BY <1>8, <3>1
    <3> QED BY <3>2, InFlightFacts
  <2>2. CASE \E x \in Pairs : x[2] = y /\ \E i \in 1 .. Len(ch[x]) : v = ch[x][i]
    BY <2>2, InFlightFacts
  <2>3. \/ \E x \in Pairs : x[2] = y /\ \E i \in 1 .. Len(ch[x]) : v = ch[x][i]
        \/ \E i \in 1 .. Len(d[y]) : v = d[y][i]
    BY <1>9, InFlightCases
  <2> QED BY <2>1, <2>2, <2>3
<1>10. ASSUME IsDescriptor(m), NEW i \in 1 .. Len(df[n]) PROVE ~IsDescriptor(df[n][i])
  BY <1>10, InFlightFacts
<1>11. ASSUME NEW y \in Routers, NEW j \in 1 .. Len(d[y]),
              NEW i \in 1 .. Len(d[y]), IsDescriptor(d[y][i]), IsDescriptor(d[y][j])
       PROVE  i = j
  <2>1. \/ i \in 1 .. Len(df[y]) /\ d[y][i] = df[y][i]
        \/ y = n /\ i = Len(s) + 1 /\ d[y][i] = m
    BY <1>8
  <2>2. \/ j \in 1 .. Len(df[y]) /\ d[y][j] = df[y][j]
        \/ y = n /\ j = Len(s) + 1 /\ d[y][j] = m
    BY <1>8
  <2>3. CASE i \in 1 .. Len(df[y]) /\ d[y][i] = df[y][i] /\ j \in 1 .. Len(df[y]) /\ d[y][j] = df[y][j]
    BY <1>11, <2>3 DEF Once
  <2> QED BY <1>10, <1>11, <2>1, <2>2, <2>3
<1>12. ASSUME NEW pair \in Pairs, NEW i \in 1 .. Len(ch[pair]), IsDescriptor(ch[pair][i])
       PROVE  /\ pair[1] = Pred(pair[2])
              /\ \A j \in 1 .. Len(ch[pair]) : IsDescriptor(ch[pair][j]) => j = i
              /\ \A j \in 1 .. Len(d[pair[2]]) : ~IsDescriptor(d[pair[2]][j])
  <2>1. /\ pair[1] = Pred(pair[2])
        /\ \A j \in 1 .. Len(ch[pair]) : IsDescriptor(ch[pair][j]) => j = i
        /\ \A j \in 1 .. Len(df[pair[2]]) : ~IsDescriptor(df[pair[2]][j])
    BY <1>12 DEF Once
  <2>2. pair[2] \in Routers
    BY PairFacts
  <2>3. pair[2] = n => ~IsDescriptor(m)
    BY <1>12, InFlightFacts
  <2>4. \A j \in 1 .. Len(d[pair[2]]) : ~IsDescriptor(d[pair[2]][j])
    BY <1>8, <2>1, <2>2, <2>3
  <2> QED BY <2>1, <2>4
<1>13. Once(ch, d)
  <2>1. \A pair \in Pairs : \A i \in 1 .. Len(ch[pair]) : IsDescriptor(ch[pair][i]) =>
          /\ pair[1] = Pred(pair[2])
          /\ \A j \in 1 .. Len(ch[pair]) : IsDescriptor(ch[pair][j]) => j = i
          /\ \A j \in 1 .. Len(d[pair[2]]) : ~IsDescriptor(d[pair[2]][j])
    BY <1>12
  <2>2. \A y \in Routers : \A i, j \in 1 .. Len(d[y]) :
          IsDescriptor(d[y][i]) /\ IsDescriptor(d[y][j]) => i = j
    BY <1>11
  <2> QED BY <2>1, <2>2 DEF Once
<1> QED BY <1>7, <1>9, <1>13

-----------------------------------------------------------------------------
(* Handlers of a router that is there.                                     *)

\* What a handler is given when it does not pass the portal on.
Usual(c, n, place) ==
  /\ c.place = place /\ c.sent = sent' /\ c.got = Len(received[End(n)])
  /\ c.calm <=> bypass'[n].state = "requested"
  /\ c.hush <=> n \in DOMAIN routers /\ routers[n].proxying /\ routers[n].inward.primary = NoLink
  /\ ~c.described

LEMMA UsualContext ==
  ASSUME NEW n, NEW place
  PROVE  \E c : Usual(c, n, place)
<1> DEFINE calm == bypass'[n].state = "requested"
           hush == n \in DOMAIN routers /\ routers[n].proxying /\ routers[n].inward.primary = NoLink
<1>1. PICK k \in BOOLEAN : k <=> calm
  OBVIOUS
<1>2. PICK h \in BOOLEAN : h <=> hush
  OBVIOUS
<1> HIDE DEF calm, hush
<1> DEFINE c == [place |-> place, sent |-> sent', got |-> Len(received[End(n)]), calm |-> k,
                 hush |-> h, described |-> FALSE, head |-> NoLink]
<1>3. /\ c.place = place /\ c.sent = sent' /\ c.got = Len(received[End(n)])
      /\ c.calm = k /\ c.hush = h /\ c.described = FALSE
  OBVIOUS
<1> HIDE DEF c
<1>4. (c.calm <=> calm) /\ (c.hush <=> hush) /\ ~c.described
  BY <1>1, <1>2, <1>3
<1> QED BY <1>3, <1>4 DEF Usual, calm, hush

\* What a handler leaves alone.
Alone(n, place) ==
  /\ UNCHANGED moves
  /\ SentGrows(sent, sent')
  /\ \A d \in Ends : d # End(n) => sent'[d] = sent[d]
  /\ n[2] < place[End(n)] => sent' = sent
  /\ bypass' = [x \in Routers |-> [state |-> bypass'[x].state, old |-> bypass'[x].old]]
  /\ \A x \in Routers : x # n => bypass'[x] = bypass[x]
  /\ bypass'[n].state = "requested" => bypass'[n] = bypass[n]

LEMMA ThereFacts ==
  ASSUME NEW place, Inv(place), NEW n \in DOMAIN routers
  PROVE  /\ n \in Routers /\ n \in Places(place) /\ End(n) \in Ends /\ Peer(End(n)) \in Ends
         /\ n[2] \in Nat /\ n[2] <= place[End(n)] /\ place[End(n)] \in Nat
         /\ place \in [Ends -> 0 .. MaxMoves] /\ Grows(place, place)
         /\ RouterOk(n, routers[n], place, sent, Len(received[End(n)]))
         /\ IsRouter(routers[n])
         /\ sent \in [Ends -> Nat] /\ Len(received[End(n)]) \in Nat
         /\ Len(received[End(n)]) <= sent[Peer(End(n))]
<1>1. n \in Places(place) /\ RouterOk(n, routers[n], place, sent, Len(received[End(n)]))
  BY DEF Inv, RoutersOk
<1>2. n \in Routers /\ n[2] <= place[End(n)]
  BY <1>1 DEF Places
<1>3. End(n) \in Ends /\ n[2] \in Nat /\ Peer(End(n)) \in Ends
  BY <1>2, RouterFacts, EndFacts
<1>4. place \in [Ends -> 0 .. MaxMoves] /\ MaxMoves \in Nat
  BY ProxyBypassAssumption DEF Inv, PlacesOk
<1>5. \A d \in Ends : place[d] \in Nat /\ place[d] <= place[d]
  BY <1>4
<1>6. /\ sent \in [Ends -> Nat] /\ Len(received[End(n)]) \in Nat
      /\ Len(received[End(n)]) <= sent[Peer(End(n))]
  BY <1>3 DEF Inv, HistoryOk
<1>7. IsRouter(routers[n])
  BY <1>1 DEF RouterOk, Ready
<1> QED BY <1>1, <1>2, <1>3, <1>4, <1>5, <1>6, <1>7 DEF Grows

LEMMA HandlerKeeps ==
  ASSUME NEW place, Inv(place), NEW n \in DOMAIN routers, Alone(n, place),
         NEW e, NEW c, Usual(c, n, place), EffectOk(n, e, c),
         NEW channels, NEW links, Commit(n, e, channels, links), Leaves(channels, place)
  PROVE  Inv(place)' /\ Delivered(n)
<1>1. /\ n \in Routers /\ n \in Places(place) /\ Grows(place, place)
  BY ThereFacts
<1>2. PlacesOk(place)'
  BY DEF Inv, PlacesOk, Alone
<1>3. Requests(n, c, place)
  <2>1. ASSUME bypass'[n].state = "requested"
        PROVE  /\ c.calm
               /\ OutLink(Pred(n), bypass'[n].old, place) /\ IsCentral(bypass'[n].old)
               /\ Quiet(Pred(n))
    <3>1. bypass'[n] = bypass[n] /\ c.calm
      BY <2>1 DEF Alone, Usual
    <3>2. Waits(n, place)
      BY <1>1, <2>1, <3>1 DEF Inv, BypassOk
    <3> QED BY <3>1, <3>2 DEF Waits
  <2> QED BY <2>1 DEF Requests
<1>4. Turn(n, e, c, channels, links, place, place)
  <2>1. /\ \A d \in Ends : d # End(n) => place[d] = place[d] /\ sent'[d] = sent[d]
        /\ n[2] < place[End(n)] => place = place /\ sent' = sent
        /\ SentGrows(sent, sent')
        /\ bypass' = [x \in Routers |-> [state |-> bypass'[x].state, old |-> bypass'[x].old]]
        /\ \A x \in Routers : x # n => bypass'[x] = bypass[x]
    BY DEF Alone
  <2>2. /\ c.place = place /\ c.sent = sent' /\ c.got = Len(received[End(n)])
        /\ n \in DOMAIN routers /\ routers[n].proxying /\ routers[n].inward.primary = NoLink => c.hush
        /\ ~c.described
    BY DEF Usual
  <2> QED BY <1>1, <1>2, <1>3, <2>1, <2>2 DEF Turn
<1> QED BY <1>4, TurnKeeps

\* What the messages a handler begins with may be.
Notices(n, s, place) ==
  /\ IsSeq(s)
  /\ \A i \in 1 .. Len(s) :
       SendOk(n, s[i], place, sent') /\ ~IsDescriptor(s[i]) /\ s[i].type # "RouteClosed"

(* A handler that changes its router, sends some messages and flushes.     *)
LEMMA FlushKeeps ==
  ASSUME NEW place, Inv(place), NEW n \in DOMAIN routers, Alone(n, place),
         NEW e, e = [router |-> e.router, removed |-> FALSE, words |-> e.words,
                     sends |-> e.sends, taken |-> <<>>],
         Ready(n, e.router, place, sent', Len(received[End(n)])),
         Notices(n, e.sends, place),
         bypass'[n].state = "requested" =>
           /\ e.router.outward = routers[n].outward
           /\ e.router.inbound.final = routers[n].inbound.final,
         routers[n].proxying /\ routers[n].inward.primary = NoLink =>
           e.router.proxying /\ e.router.inward.primary = NoLink,
         NEW force, NEW keep, NEW channels, NEW links,
         Commit(n, Flush(n, e, force, keep), channels, links), Leaves(channels, place)
  PROVE  Inv(place)' /\ Delivered(n)
<1>1. PICK c : Usual(c, n, place)
  BY UsualContext
<1>2. /\ n \in Routers /\ place \in [Ends -> 0 .. MaxMoves] /\ Len(received[End(n)]) \in Nat
      /\ End(n) \in Ends
  BY ThereFacts
<1>3. /\ c.place = place /\ c.sent = sent' /\ c.got = Len(received[End(n)])
      /\ c.calm <=> bypass'[n].state = "requested"
      /\ c.hush <=> n \in DOMAIN routers /\ routers[n].proxying /\ routers[n].inward.primary = NoLink
  BY <1>1 DEF Usual
<1>4. Given(c)
  BY <1>2, <1>3 DEF Given, Alone, SentGrows
<1>5. e.removed = FALSE /\ e.taken = <<>> /\ Len(e.taken) = 0
  BY EmptySeq
<1>6. IsRouter(e.router) /\ IsSeq(e.sends) /\ IsSeq(e.taken)
  BY <1>5, EmptySeq DEF Ready, Notices
<1>7. IsEffect(e)
  BY <1>5, <1>6 DEF IsEffect
<1>8. SendsFor(n, e.sends, c)
  BY <1>3 DEF Notices, SendsFor, SendFor
<1>9. c.calm =>
       /\ n[2] > 0 /\ e.router.outward = EdgeOn(Inner(Pred(n)))
       /\ e.router.inbound.final = None /\ ~e.removed
  <2>1. ASSUME c.calm
        PROVE  /\ n[2] > 0 /\ e.router.outward = EdgeOn(Inner(Pred(n)))
               /\ e.router.inbound.final = None
    <3>1. bypass'[n].state = "requested" /\ bypass'[n] = bypass[n]
      BY <1>3, <2>1 DEF Alone
    <3>2. Waits(n, place)
      BY <1>2, <3>1 DEF Inv, BypassOk
    <3> QED BY <3>1, <3>2 DEF Waits
  <2> QED BY <1>5, <2>1
<1>10. c.hush => e.router.proxying /\ e.router.inward.primary = NoLink
  BY <1>3
<1>11. Ready(n, e.router, c.place, c.sent, c.got + Len(e.taken))
  <2>1. c.got + Len(e.taken) = Len(received[End(n)])
    BY <1>2, <1>3, <1>5
  <2> QED BY <1>3, <2>1
<1>12. EffectReady(n, e, c)
  <2>1. \A i \in 1 .. Len(e.taken) :
          e.taken[i].body = c.got + i /\ c.got + i <= c.sent[Peer(End(n))]
    BY <1>5
  <2> QED BY <1>5, <1>7, <1>8, <1>9, <1>10, <1>11, <2>1 DEF EffectReady, EffectFor
<1>13. EffectOk(n, Flush(n, e, force, keep), c)
  BY <1>2, <1>4, <1>12, FlushOk
<1>14. PICK f : f = Flush(n, e, force, keep)
  OBVIOUS
<1>15. EffectOk(n, f, c) /\ Commit(n, f, channels, links)
  BY <1>13, <1>14
<1> QED BY <1>1, <1>15, HandlerKeeps

-----------------------------------------------------------------------------
(* What a handler does to its router before it flushes.                    *)

WithInbound(r, q) == [r EXCEPT !.inbound = q]
WithOutbound(r, q) == [r EXCEPT !.outbound = q]
WithOutward(r, x) == [r EXCEPT !.outward = x]
WithInward(r, x) == [r EXCEPT !.inward = x]

LEMMA WithQueue ==
  ASSUME NEW r, IsRouter(r), NEW q, IsQueue(q)
  PROVE  /\ IsRouter(WithInbound(r, q)) /\ WithInbound(r, q).inbound = q
         /\ WithInbound(r, q).outbound = r.outbound /\ WithInbound(r, q).outward = r.outward
         /\ WithInbound(r, q).inward = r.inward /\ WithInbound(r, q).proxying = r.proxying
         /\ WithInbound(r, q).peerClosed = r.peerClosed
         /\ IsRouter(WithOutbound(r, q)) /\ WithOutbound(r, q).outbound = q
         /\ WithOutbound(r, q).inbound = r.inbound /\ WithOutbound(r, q).outward = r.outward
         /\ WithOutbound(r, q).inward = r.inward /\ WithOutbound(r, q).proxying = r.proxying
         /\ WithOutbound(r, q).peerClosed = r.peerClosed
<1>1. PICK o, i, p, qi, qo, z :
        r = [outward |-> o, inward |-> i, proxying |-> p,
             inbound |-> qi, outbound |-> qo, peerClosed |-> z]
  BY DEF IsRouter
<1>2. IsEdge(o) /\ IsEdge(i) /\ IsQueue(qi) /\ IsQueue(qo)
  BY <1>1 DEF IsRouter
<1>3. WithInbound(r, q) = [outward |-> o, inward |-> i, proxying |-> p,
                           inbound |-> q, outbound |-> qo, peerClosed |-> z]
  BY <1>1 DEF WithInbound
<1>4. WithOutbound(r, q) = [outward |-> o, inward |-> i, proxying |-> p,
                            inbound |-> qi, outbound |-> q, peerClosed |-> z]
  BY <1>1 DEF WithOutbound
<1>5. /\ IsRouter(WithInbound(r, q)) /\ WithInbound(r, q).inbound = q
      /\ WithInbound(r, q).outbound = r.outbound /\ WithInbound(r, q).outward = r.outward
      /\ WithInbound(r, q).inward = r.inward /\ WithInbound(r, q).proxying = r.proxying
      /\ WithInbound(r, q).peerClosed = r.peerClosed
  BY <1>1, <1>2, <1>3, RouterShape
<1>6. /\ IsRouter(WithOutbound(r, q)) /\ WithOutbound(r, q).outbound = q
      /\ WithOutbound(r, q).inbound = r.inbound /\ WithOutbound(r, q).outward = r.outward
      /\ WithOutbound(r, q).inward = r.inward /\ WithOutbound(r, q).proxying = r.proxying
      /\ WithOutbound(r, q).peerClosed = r.peerClosed
  BY <1>1, <1>2, <1>4, RouterShape
<1> QED BY <1>5, <1>6

LEMMA WithEdge ==
  ASSUME NEW r, IsRouter(r), NEW x, IsEdge(x)
  PROVE  /\ IsRouter(WithOutward(r, x)) /\ WithOutward(r, x).outward = x
         /\ WithOutward(r, x).inward = r.inward /\ WithOutward(r, x).inbound = r.inbound
         /\ WithOutward(r, x).outbound = r.outbound /\ WithOutward(r, x).proxying = r.proxying
         /\ IsRouter(WithInward(r, x)) /\ WithInward(r, x).inward = x
         /\ WithInward(r, x).outward = r.outward /\ WithInward(r, x).inbound = r.inbound
         /\ WithInward(r, x).outbound = r.outbound /\ WithInward(r, x).proxying = r.proxying
<1>1. PICK o, i, p, qi, qo, z :
        r = [outward |-> o, inward |-> i, proxying |-> p,
             inbound |-> qi, outbound |-> qo, peerClosed |-> z]
  BY DEF IsRouter
<1>2. IsEdge(o) /\ IsEdge(i) /\ IsQueue(qi) /\ IsQueue(qo)
  BY <1>1 DEF IsRouter
<1>3. WithOutward(r, x) = [outward |-> x, inward |-> i, proxying |-> p,
                           inbound |-> qi, outbound |-> qo, peerClosed |-> z]
  BY <1>1 DEF WithOutward
<1>4. WithInward(r, x) = [outward |-> o, inward |-> x, proxying |-> p,
                          inbound |-> qi, outbound |-> qo, peerClosed |-> z]
  BY <1>1 DEF WithInward
<1>5. /\ IsRouter(WithOutward(r, x)) /\ WithOutward(r, x).outward = x
      /\ WithOutward(r, x).inward = r.inward /\ WithOutward(r, x).inbound = r.inbound
      /\ WithOutward(r, x).outbound = r.outbound /\ WithOutward(r, x).proxying = r.proxying
  BY <1>1, <1>2, <1>3, RouterShape
<1>6. /\ IsRouter(WithInward(r, x)) /\ WithInward(r, x).inward = x
      /\ WithInward(r, x).outward = r.outward /\ WithInward(r, x).inbound = r.inbound
      /\ WithInward(r, x).outbound = r.outbound /\ WithInward(r, x).proxying = r.proxying
  BY <1>1, <1>2, <1>4, RouterShape
<1> QED BY <1>5, <1>6

(* A router that differs from one in order by its queues only.             *)
LEMMA ReadyAgain ==
  ASSUME NEW n, NEW place, NEW s, NEW t, NEW k, NEW r, RouterOk(n, r, place, s, k),
         NEW q, IsRouter(q), q.proxying = r.proxying,
         q.outward = r.outward, q.inward = r.inward,
         \A p \in q.inbound.buffer : Valid(p, t[Peer(End(n))]),
         r.proxying => \A p \in q.outbound.buffer : Valid(p, t[End(n)]),
         ~r.proxying =>
           /\ q.inbound.current = r.inbound.current /\ q.outbound.current = r.outbound.current
           /\ r.outward.primary # NoLink => Loaded(q.outbound, t[End(n)])
  PROVE  Ready(n, q, place, t, k)
<1>1. Ready(n, r, place, s, k)
  BY DEF RouterOk
<1> QED BY <1>1 DEF Ready

(* A portal on an open link has sent every parcel.                         *)
LEMMA PortalFacts ==
  ASSUME NEW n, NEW place, NEW s, NEW k, NEW r, RouterOk(n, r, place, s, k),
         ~r.proxying, r.outward.primary # NoLink, s[End(n)] \in Nat
  PROVE  r.outbound.buffer = {} /\ r.outbound.current = s[End(n)] /\ r.inbound.current = k
<1>1. /\ r.outbound.buffer = {} /\ Loaded(r.outbound, s[End(n)]) /\ IsQueue(r.outbound)
      /\ r.inbound.current = k
  BY DEF RouterOk, Ready, IsRouter
<1> DEFINE q == r.outbound
           most == s[End(n)]
<1>2. q.current \in Nat /\ q.current <= most /\ \A m \in q.current .. most - 1 : Holds(q, m)
  BY <1>1 DEF Loaded, IsQueue
<1>3. \A m : ~Holds(q, m)
  BY <1>1 DEF Holds
<1>4. ~(q.current < most)
  <2>1. ASSUME q.current < most PROVE FALSE
    <3>1. q.current \in q.current .. most - 1
      BY <1>2, <2>1
    <3> QED BY <1>2, <1>3, <3>1
  <2> QED BY <2>1
<1>5. q.current = most
  BY <1>2, <1>4
<1> QED BY <1>1, <1>5

LEMMA EffectFacts ==
  ASSUME NEW r
  PROVE  /\ Effect(r) = [router |-> Effect(r).router, removed |-> FALSE, words |-> Effect(r).words,
                         sends |-> Effect(r).sends, taken |-> <<>>]
         /\ Effect(r).router = r /\ Effect(r).sends = <<>> /\ Effect(r).removed = FALSE
         /\ Effect(r).taken = <<>> /\ Effect(r).words = words
BY DEF Effect

LEMMA NoNotices ==
  ASSUME NEW n, NEW place
  PROVE  Notices(n, <<>>, place)
BY EmptySeq DEF Notices

(* A handler that changes its router and flushes.                          *)
LEMMA ChangeKeeps ==
  ASSUME NEW place, Inv(place), NEW n \in DOMAIN routers, Alone(n, place), NEW r,
         Ready(n, r, place, sent', Len(received[End(n)])),
         bypass'[n].state = "requested" =>
           /\ r.outward = routers[n].outward
           /\ r.inbound.final = routers[n].inbound.final,
         routers[n].proxying /\ routers[n].inward.primary = NoLink =>
           r.proxying /\ r.inward.primary = NoLink,
         NEW force, NEW keep, NEW channels, NEW links,
         Commit(n, Flush(n, Effect(r), force, keep), channels, links), Leaves(channels, place)
  PROVE  Inv(place)' /\ Delivered(n)
<1>1. PICK e : e = Effect(r)
  OBVIOUS
<1>2. /\ e = [router |-> e.router, removed |-> FALSE, words |-> e.words,
              sends |-> e.sends, taken |-> <<>>]
      /\ e.router = r /\ e.sends = <<>>
  BY <1>1, EffectFacts
<1>3. Notices(n, e.sends, place)
  BY <1>2, NoNotices
<1>4. Commit(n, Flush(n, e, force, keep), channels, links)
  BY <1>1
<1>5. /\ Ready(n, e.router, place, sent', Len(received[End(n)]))
      /\ bypass'[n].state = "requested" =>
           /\ e.router.outward = routers[n].outward
           /\ e.router.inbound.final = routers[n].inbound.final
      /\ routers[n].proxying /\ routers[n].inward.primary = NoLink =>
           e.router.proxying /\ e.router.inward.primary = NoLink
  BY <1>2
<1> HIDE <1>1
<1> QED BY <1>2, <1>3, <1>4, <1>5, FlushKeeps

(* Nothing is taken from the channels in a call.                           *)
LEMMA CallLeaves ==
  ASSUME NEW place, Inv(place), UNCHANGED <<deferred, early>>, SentGrows(sent, sent')
  PROVE  Leaves(chan, place)
<1>1. Wired(chan, deferred') /\ Once(chan, deferred')
  BY DEF Inv, MessagesOk
<1>2. EarlyOk(early', place, sent')
  <2>1. EarlyOk(early, place, sent) /\ place \in [Ends -> 0 .. MaxMoves]
    BY DEF Inv, MessagesOk, PlacesOk
  <2>2. Grows(place, place)
    <3>1. MaxMoves \in Nat
      BY ProxyBypassAssumption
    <3>2. \A d \in Ends : place[d] \in Nat /\ place[d] <= place[d]
      BY <2>1, <3>1
    <3> QED BY <2>1, <3>2 DEF Grows
  <2>3. \A y, m : MsgOk(y, m, place, sent) => MsgOk(y, m, place, sent')
    BY <2>2, MsgOkGrows
  <2> QED BY <2>1, <2>3 DEF EarlyOk
<1> QED BY <1>1, <1>2 DEF Leaves

-----------------------------------------------------------------------------
(* Calls of the portals.                                                   *)

LEMMA AloneSame ==
  ASSUME NEW place, Inv(place), NEW n \in DOMAIN routers, UNCHANGED <<moves, sent, bypass>>
  PROVE  Alone(n, place)
<1>1. sent \in [Ends -> Nat]
  BY DEF Inv, HistoryOk
<1>2. SentGrows(sent, sent')
  BY <1>1 DEF SentGrows
<1>3. bypass = [x \in Routers |-> [state |-> bypass[x].state, old |-> bypass[x].old]]
  BY DEF Inv, BypassOk
<1> QED BY <1>2, <1>3 DEF Alone

LEMMA PortalPlace ==
  ASSUME NEW place, Inv(place), NEW n, HasPortal(n)
  PROVE  n \in DOMAIN routers /\ n[2] = place[End(n)] /\ ~routers[n].proxying
<1>1. n \in DOMAIN routers /\ ~routers[n].proxying
  BY DEF HasPortal
<1>2. n[2] <= place[End(n)] /\ n[2] \in Nat /\ place[End(n)] \in Nat
      /\ RouterOk(n, routers[n], place, sent, Len(received[End(n)]))
  BY <1>1, ThereFacts
<1>3. ~(n[2] < place[End(n)])
  BY <1>1, <1>2 DEF RouterOk, Ready
<1> QED BY <1>1, <1>2, <1>3

LEMMA PutKeeps ==
  ASSUME NEW place, Inv(place), NEW n, Put(n)
  PROVE  Inv(place)' /\ Delivered(n)
<1> DEFINE r == routers[n]
           parcel == [seq |-> r.outbound.current, body |-> sent[End(n)] + 1]
           E == End(n)
           k == Len(received[E])
<1>1. /\ HasPortal(n)
      /\ Commit(n, Flush(n, Effect([r EXCEPT !.outbound = Push(@, parcel)]), FALSE, FALSE), chan, {})
      /\ sent' = [sent EXCEPT ![E] = @ + 1]
      /\ UNCHANGED <<deferred, early, bypass, moves>>
  BY DEF Put, Proceed
<1>2. n \in DOMAIN routers /\ n[2] = place[E] /\ ~r.proxying
  BY <1>1, PortalPlace
<1>3. /\ n \in Routers /\ E \in Ends /\ Peer(E) \in Ends /\ n[2] \in Nat
      /\ RouterOk(n, r, place, sent, k) /\ IsRouter(r)
      /\ sent \in [Ends -> Nat]
  BY <1>2, ThereFacts
<1>4. Peer(E) # E
  BY <1>3, EndFacts
<1>5. /\ sent' \in [Ends -> Nat] /\ sent'[E] = sent[E] + 1
      /\ \A d \in Ends : d # E => sent'[d] = sent[d]
  BY <1>1, <1>3
<1>6. SentGrows(sent, sent')
  <2>1. ASSUME NEW d \in Ends PROVE sent[d] <= sent'[d]
    <3>1. sent[d] \in Nat /\ sent'[d] \in Nat
      BY <1>3, <1>5
    <3> QED BY <1>5, <3>1
  <2> QED BY <1>3, <1>5, <2>1 DEF SentGrows
<1>7. Alone(n, place)
  <2>1. bypass = [x \in Routers |-> [state |-> bypass[x].state, old |-> bypass[x].old]]
    BY DEF Inv, BypassOk
  <2>2. ~(n[2] < place[E])
    BY <1>2, <1>3
  <2> QED BY <1>1, <1>5, <1>6, <2>1, <2>2 DEF Alone
<1>8. Leaves(chan, place)
  BY <1>1, <1>6, CallLeaves
<1> DEFINE q == Push(r.outbound, parcel)
           t == WithOutbound(r, q)
<1>9. [r EXCEPT !.outbound = Push(@, parcel)] = t
  BY DEF WithOutbound
<1>10. IsQueue(r.outbound)
  BY <1>3 DEF IsRouter
<1>11. /\ IsQueue(q) /\ q.current = r.outbound.current
       /\ q.buffer \subseteq r.outbound.buffer \cup {parcel} /\ parcel \in q.buffer
  BY <1>10, PushFacts
<1>12. /\ IsRouter(t) /\ t.outbound = q /\ t.inbound = r.inbound /\ t.outward = r.outward
       /\ t.inward = r.inward /\ t.proxying = r.proxying
  BY <1>3, <1>11, WithQueue
<1>13. ASSUME r.outward.primary # NoLink PROVE Loaded(q, sent'[E])
  <2>1. r.outbound.buffer = {} /\ r.outbound.current = sent[E]
    BY <1>2, <1>3, <1>13, PortalFacts
  <2>2. sent[E] \in Nat
    BY <1>3
  <2>3. parcel.seq = sent[E] /\ parcel.body = sent[E] + 1
    BY <2>1
  <2> HIDE DEF q, parcel, r, E
  <2>4. q.current = sent[E] /\ sent'[E] = sent[E] + 1
    BY <1>5, <1>11, <2>1
  <2>5. q.buffer = {parcel}
    BY <1>11, <2>1
  <2>6. \A p \in q.buffer : Valid(p, sent'[E])
    BY <2>2, <2>3, <2>4, <2>5 DEF Valid
  <2>7. ASSUME NEW m \in q.current .. sent'[E] - 1 PROVE Holds(q, m)
    <3>1. m = sent[E]
      BY <2>2, <2>4
    <3> QED BY <2>3, <2>5, <3>1 DEF Holds
  <2> QED BY <2>2, <2>4, <2>6, <2>7 DEF Loaded
<1>14. \A p \in r.inbound.buffer : Valid(p, sent'[Peer(E)])
  BY <1>3, <1>4, <1>5 DEF RouterOk, Ready
<1>15. Ready(n, t, place, sent', k)
  <2>1. /\ \A p \in t.inbound.buffer : Valid(p, sent'[Peer(End(n))])
        /\ t.inbound.current = r.inbound.current /\ t.outbound.current = r.outbound.current
        /\ r.outward.primary # NoLink => Loaded(t.outbound, sent'[End(n)])
    BY <1>11, <1>12, <1>13, <1>14
  <2> HIDE DEF t, q, r, E, k
  <2> QED BY <1>2, <1>3, <1>12, <2>1, ReadyAgain DEF E
<1>16. Commit(n, Flush(n, Effect(t), FALSE, FALSE), chan, {})
  BY <1>1, <1>9
<1> HIDE DEF t, q, parcel
<1>17. t.outward = r.outward /\ t.inbound.final = r.inbound.final
  BY <1>12
<1> QED BY <1>2, <1>7, <1>8, <1>15, <1>16, <1>17, ChangeKeeps

LEMMA CloseRouteKeeps ==
  ASSUME NEW place, Inv(place), NEW n, CloseRoute(n)
  PROVE  Inv(place)' /\ Delivered(n)
<1> DEFINE r == routers[n]
           k == Len(received[End(n)])
           q == SetFinal(r.outbound, r.outbound.current)
           t == WithOutbound(r, q)
<1>1. /\ HasPortal(n)
      /\ Commit(n, Flush(n, Effect([r EXCEPT !.outbound = SetFinal(@, r.outbound.current)]),
                         FALSE, FALSE), chan, {})
      /\ UNCHANGED <<deferred, early, bypass, moves, sent>>
  BY DEF CloseRoute, Proceed
<1>2. n \in DOMAIN routers /\ ~r.proxying
  BY <1>1, PortalPlace
<1>3. RouterOk(n, r, place, sent, k) /\ IsRouter(r) /\ sent \in [Ends -> Nat]
  BY <1>2, ThereFacts
<1>4. Alone(n, place)
  BY <1>1, <1>2, AloneSame
<1>5. Leaves(chan, place)
  <2>1. SentGrows(sent, sent')
    BY <1>4 DEF Alone
  <2> QED BY <1>1, <2>1, CallLeaves
<1>6. [r EXCEPT !.outbound = SetFinal(@, r.outbound.current)] = t
  BY DEF WithOutbound
<1>7. IsQueue(r.outbound)
  BY <1>3 DEF IsRouter
<1>8. IsQueue(q) /\ q.current = r.outbound.current /\ q.buffer = r.outbound.buffer
  BY <1>7, SetFinalFacts
<1>9. /\ IsRouter(t) /\ t.outbound = q /\ t.inbound = r.inbound /\ t.outward = r.outward
      /\ t.inward = r.inward /\ t.proxying = r.proxying
  BY <1>3, <1>8, WithQueue
<1>10. Ready(n, t, place, sent', k)
  <2>1. Ready(n, r, place, sent, k) /\ sent' = sent
    BY <1>1, <1>3 DEF RouterOk
  <2>2. r.outward.primary # NoLink => Loaded(q, sent[End(n)])
    BY <1>2, <1>8, <2>1 DEF Ready, Loaded, Holds
  <2>3. \A p \in r.inbound.buffer : Valid(p, sent[Peer(End(n))])
    BY <2>1 DEF Ready
  <2> HIDE DEF t, q, r, k
  <2> QED BY <1>2, <1>3, <1>8, <1>9, <2>1, <2>2, <2>3, ReadyAgain
<1>11. Commit(n, Flush(n, Effect(t), FALSE, FALSE), chan, {})
  BY <1>1, <1>6
<1> HIDE DEF t, q
<1>12. t.outward = r.outward /\ t.inbound.final = r.inbound.final
  BY <1>9
<1> QED BY <1>2, <1>4, <1>5, <1>10, <1>11, <1>12, ChangeKeeps

LEMMA BeginFacts ==
  ASSUME NEW x, IsEdge(x)
  PROVE  /\ IsEdge(BeginPrimaryLinkDecay(x)) /\ BeginPrimaryLinkDecay(x).to = x.to
         /\ x.decays => BeginPrimaryLinkDecay(x) = x
         /\ ~x.decays =>
              /\ BeginPrimaryLinkDecay(x).primary = NoLink
              /\ BeginPrimaryLinkDecay(x).decays = TRUE
              /\ BeginPrimaryLinkDecay(x).decaying = x.primary
<1>0. PICK p, d, g, t, f :
        x = [primary |-> p, decays |-> d, decaying |-> g, to |-> t, from |-> f]
  BY DEF IsEdge
<1>1. CASE x.decays
  <2>1. BeginPrimaryLinkDecay(x) = x
    BY <1>1 DEF BeginPrimaryLinkDecay, DecayAllowed
  <2> QED BY <1>1, <2>1
<1>2. CASE ~x.decays
  <2> DEFINE y == [x EXCEPT !.primary = NoLink]
             z == [y EXCEPT !.decays = TRUE]
  <2>1. BeginPrimaryLinkDecay(x) = [z EXCEPT !.decaying = x.primary]
    BY <1>2 DEF BeginPrimaryLinkDecay, DecayAllowed
  <2>2. y = [primary |-> NoLink, decays |-> d, decaying |-> g, to |-> t, from |-> f]
    BY <1>0
  <2>3. z = [y EXCEPT !.decays = TRUE]
    OBVIOUS
  <2> HIDE DEF y, z
  <2>4. z = [primary |-> NoLink, decays |-> TRUE, decaying |-> g, to |-> t, from |-> f]
    BY <2>2, <2>3
  <2>5. BeginPrimaryLinkDecay(x) =
          [primary |-> NoLink, decays |-> TRUE, decaying |-> p, to |-> t, from |-> f]
    BY <1>0, <2>1, <2>4
  <2> QED BY <1>0, <1>2, <2>5 DEF IsEdge
<1> QED BY <1>1, <1>2

LEMMA SetLengthsFacts ==
  ASSUME NEW x, IsEdge(x), NEW to, NEW from
  PROVE  /\ IsEdge(SetLengths(x, to, from)) /\ SetLengths(x, to, from).to = to
         /\ SetLengths(x, to, from).primary = x.primary
         /\ SetLengths(x, to, from).decays = x.decays
         /\ SetLengths(x, to, from).decaying = x.decaying
<1>0. PICK p, d, g, t, f :
        x = [primary |-> p, decays |-> d, decaying |-> g, to |-> t, from |-> f]
  BY DEF IsEdge
<1> DEFINE y == [x EXCEPT !.to = to]
<1>1. SetLengths(x, to, from) = [y EXCEPT !.from = from]
  BY DEF SetLengths
<1>2. y = [primary |-> p, decays |-> d, decaying |-> g, to |-> to, from |-> f]
  BY <1>0
<1> HIDE DEF y
<1>3. SetLengths(x, to, from) =
        [primary |-> p, decays |-> d, decaying |-> g, to |-> to, from |-> from]
  BY <1>1, <1>2
<1> QED BY <1>0, <1>3 DEF IsEdge

LEMMA SetPrimaryFacts ==
  ASSUME NEW x, IsEdge(x), NEW l
  PROVE  /\ IsEdge(SetPrimaryLink(x, l)) /\ SetPrimaryLink(x, l).to = x.to
         /\ x.decays /\ x.decaying = NoLink =>
              SetPrimaryLink(x, l).primary = x.primary /\ SetPrimaryLink(x, l).decaying = l
         /\ ~(x.decays /\ x.decaying = NoLink) =>
              SetPrimaryLink(x, l).primary = l /\ SetPrimaryLink(x, l).decaying = x.decaying
<1>0. PICK p, d, g, t, f :
        x = [primary |-> p, decays |-> d, decaying |-> g, to |-> t, from |-> f]
  BY DEF IsEdge
<1>1. CASE x.decays /\ x.decaying = NoLink
  <2>1. SetPrimaryLink(x, l) = [x EXCEPT !.decaying = l]
    BY <1>1 DEF SetPrimaryLink
  <2>2. SetPrimaryLink(x, l) =
          [primary |-> p, decays |-> d, decaying |-> l, to |-> t, from |-> f]
    BY <1>0, <2>1
  <2> QED BY <1>0, <1>1, <2>2 DEF IsEdge
<1>2. CASE ~(x.decays /\ x.decaying = NoLink)
  <2>1. SetPrimaryLink(x, l) = [x EXCEPT !.primary = l]
    BY <1>2 DEF SetPrimaryLink
  <2>2. SetPrimaryLink(x, l) =
          [primary |-> l, decays |-> d, decaying |-> g, to |-> t, from |-> f]
    BY <1>0, <2>1
  <2> QED BY <1>0, <1>2, <2>2 DEF IsEdge
<1> QED BY <1>1, <1>2

LEMMA SerializedFacts ==
  ASSUME NEW r, IsRouter(r), NEW l, NEW locked \in BOOLEAN
  PROVE  /\ IsRouter(Serialized(r, l, locked)) /\ Serialized(r, l, locked).proxying = TRUE
         /\ Serialized(r, l, locked).inbound = r.inbound
         /\ Serialized(r, l, locked).outbound = r.outbound
         /\ Serialized(r, l, locked).inward.primary \in {NoLink, l}
         /\ Serialized(r, l, locked).inward.decaying \in {NoLink, l}
         /\ locked \/ r.peerClosed => Serialized(r, l, locked).inward.primary = NoLink
         /\ Serialized(r, l, locked).outward.primary \in {NoLink, r.outward.primary}
         /\ Serialized(r, l, locked).outward.decaying \in {r.outward.primary, r.outward.decaying}
         /\ ~locked => Serialized(r, l, locked).outward = r.outward
<1>1. PICK o, i, p, qi, qo, z :
        r = [outward |-> o, inward |-> i, proxying |-> p,
             inbound |-> qi, outbound |-> qo, peerClosed |-> z]
  BY DEF IsRouter
<1>2. IsEdge(o) /\ IsEdge(i) /\ IsQueue(qi) /\ IsQueue(qo)
  BY <1>1 DEF IsRouter
<1>3. IsEdge(Bare) /\ Bare.primary = NoLink /\ Bare.decaying = NoLink /\ ~Bare.decays
  BY EdgeFacts DEF Bare
<1>4. PICK b : b = BeginPrimaryLinkDecay(Bare)
  OBVIOUS
<1>5. IsEdge(b) /\ b.primary = NoLink /\ b.decays = TRUE /\ b.decaying = NoLink
  BY <1>3, <1>4, BeginFacts
<1>6. PICK a : a = SetLengths(b, qi.final, qo.current)
  OBVIOUS
<1>7. IsEdge(a) /\ a.primary = NoLink /\ a.decays = TRUE /\ a.decaying = NoLink
  BY <1>5, <1>6, SetLengthsFacts
<1>8. PICK w : w = CASE z -> a [] ~z /\ locked -> b [] OTHER -> Bare
  OBVIOUS
<1>9. /\ IsEdge(w) /\ w.primary = NoLink /\ w.decaying = NoLink
      /\ locked \/ z => w.decays = TRUE
  BY <1>3, <1>5, <1>7, <1>8
<1>10. PICK v : v = SetPrimaryLink(w, l)
  OBVIOUS
<1>11. /\ IsEdge(v) /\ v.primary \in {NoLink, l} /\ v.decaying \in {NoLink, l}
       /\ locked \/ z => v.primary = NoLink
  BY <1>9, <1>10, SetPrimaryFacts
<1>12. PICK u : u = IF ~z /\ locked THEN BeginPrimaryLinkDecay(o) ELSE o
  OBVIOUS
<1>13. /\ IsEdge(u) /\ u.primary \in {NoLink, o.primary} /\ u.decaying \in {o.primary, o.decaying}
       /\ ~locked => u = o
  <2>1. IsEdge(BeginPrimaryLinkDecay(o))
        /\ BeginPrimaryLinkDecay(o).primary \in {NoLink, o.primary}
        /\ BeginPrimaryLinkDecay(o).decaying \in {o.primary, o.decaying}
    BY <1>2, BeginFacts
  <2> QED BY <1>2, <1>12, <2>1
<1>y. PICK y : y = TRUE
  OBVIOUS
<1> DEFINE t == Serialized(r, l, locked)
           t1 == [r EXCEPT !.proxying = y]
           t2 == [t1 EXCEPT !.inward = v]
<1>14. t = [t2 EXCEPT !.outward = u]
  <2>1. /\ r.peerClosed = z /\ r.inbound = qi /\ r.outbound = qo /\ r.outward = o
    BY <1>1
  <2>2. v = SetPrimaryLink(CASE r.peerClosed -> SetLengths(BeginPrimaryLinkDecay(Bare),
                                                r.inbound.final, r.outbound.current)
                  [] ~r.peerClosed /\ locked -> BeginPrimaryLinkDecay(Bare)
                  [] OTHER -> Bare, l)
    BY <1>4, <1>6, <1>8, <1>10, <2>1
  <2>3. u = IF ~r.peerClosed /\ locked THEN BeginPrimaryLinkDecay(r.outward) ELSE r.outward
    BY <1>12, <2>1
  <2> QED BY <2>2, <2>3, <1>y DEF Serialized
<1>15. t1 = [outward |-> o, inward |-> i, proxying |-> y,
             inbound |-> qi, outbound |-> qo, peerClosed |-> z]
  BY <1>1
<1> HIDE DEF t1
<1>16. t2 = [outward |-> o, inward |-> v, proxying |-> y,
             inbound |-> qi, outbound |-> qo, peerClosed |-> z]
  BY <1>15
<1> HIDE DEF t2
<1>17. t = [outward |-> u, inward |-> v, proxying |-> y,
            inbound |-> qi, outbound |-> qo, peerClosed |-> z]
  BY <1>14, <1>16
<1> HIDE DEF t
<1>18. IsRouter(t) /\ t.outward = u /\ t.inward = v /\ t.proxying = y /\ t.inbound = qi
       /\ t.outbound = qo
  BY <1>2, <1>11, <1>13, <1>17, RouterShape
<1>19. r.peerClosed = z /\ r.inbound = qi /\ r.outbound = qo /\ r.outward = o
  BY <1>1
<1> QED BY <1>11, <1>13, <1>18, <1>19, <1>y DEF t
(* A descriptor tells the new router what its queues start with, and offers *)
(* a bypass of a link that could be locked.                                *)
LEMMA DescriptorFacts ==
  ASSUME NEW r, NEW l, NEW locked
  PROVE  /\ Descriptor(r, l, locked).type = "Descriptor" /\ Descriptor(r, l, locked).link = l
         /\ Descriptor(r, l, locked).incoming = r.inbound.current
         /\ Descriptor(r, l, locked).outgoing = r.outbound.current
         /\ Descriptor(r, l, locked).peerClosed = r.peerClosed
         /\ Descriptor(r, l, locked).bypass # NoLink =>
              /\ ~r.peerClosed /\ locked
              /\ Descriptor(r, l, locked).bypass = r.outward.primary
<1>1. PICK b : b = IF ~r.peerClosed /\ locked THEN r.outward.primary ELSE NoLink
  OBVIOUS
<1>2. Descriptor(r, l, locked) =
        [type |-> "Descriptor", link |-> l,
         outgoing |-> r.outbound.current, incoming |-> r.inbound.current,
         peerClosed |-> r.peerClosed, closedLength |-> r.inbound.final, bypass |-> b]
  BY <1>1 DEF Descriptor
<1>3. Descriptor(r, l, locked).bypass = b
  BY <1>2
<1>4. b # NoLink => ~r.peerClosed /\ locked /\ b = r.outward.primary
  BY <1>1
<1> QED BY <1>2, <1>3, <1>4

(* When the portal at the end of n leaves, the other end stays.            *)
LEMMA PlaceMoves ==
  ASSUME NEW place, PlacesOk(place), NEW E \in Ends, moves < MaxMoves, moves' = moves + 1,
         NEW next, next = [d \in Ends |-> next[d]], next[E] = place[E] + 1,
         \A d \in Ends : d # E => next[d] = place[d]
  PROVE  Grows(place, next) /\ PlacesOk(next)'
<1>1. place \in [Ends -> 0 .. MaxMoves] /\ moves = place["left"] + place["right"] /\ MaxMoves \in Nat
  BY ProxyBypassAssumption DEF PlacesOk
<1>2. Ends = {"left", "right"} /\ "left" # "right"
  BY EndFacts
<1>3. place["left"] \in Nat /\ place["right"] \in Nat
  BY <1>1, <1>2
<1>4. next[E] = place[E] + 1 /\ \A d \in Ends : d # E => next[d] = place[d]
  OBVIOUS
<1>5. next = [d \in Ends |-> next[d]]
  OBVIOUS
<1>6. next["left"] + next["right"] = moves + 1 /\ next["left"] \in Nat /\ next["right"] \in Nat
  <2>1. CASE E = "left"
    BY <1>1, <1>2, <1>3, <1>4, <2>1
  <2>2. CASE E = "right"
    BY <1>1, <1>2, <1>3, <1>4, <2>2
  <2> QED BY <1>2, <2>1, <2>2
<1>7. moves \in Nat
  BY <1>1, <1>3
<1>8. \A d \in Ends : next[d] \in 0 .. MaxMoves /\ place[d] <= next[d]
  <2>1. \A d \in Ends : place[d] \in Nat
    BY <1>1
  <2>2. \A d \in Ends : next[d] = place[d] \/ next[d] = place[d] + 1
    BY <1>4
  <2>3. next["left"] <= MaxMoves /\ next["right"] <= MaxMoves
    BY <1>1, <1>6, <1>7
  <2> QED BY <1>2, <1>6, <2>1, <2>2, <2>3
<1>9. next \in [Ends -> 0 .. MaxMoves]
  BY <1>5, <1>8
<1>10. PlacesOk(next)'
  BY <1>1, <1>6, <1>7, <1>9 DEF PlacesOk
<1> QED BY <1>1, <1>4, <1>8, <1>9, <1>10 DEF Grows
\* The effect of serialize_router before it flushes, with words ws.
Departs(e, r, ws, head) ==
  e = [router |-> r, removed |-> FALSE, words |-> ws, sends |-> <<head>>, taken |-> <<>>]

LEMMA OneMessage ==
  ASSUME NEW m
  PROVE  IsSeq(<<m>>) /\ Len(<<m>>) = 1 /\ <<m>>[1] = m
<1>1. <<m>> \in Seq({m})
  OBVIOUS
<1> QED BY <1>1, IsSeqOf

LEMMA SerializedUnlocked ==
  ASSUME NEW r, IsRouter(r), NEW l, NEW locked \in BOOLEAN, ~locked
  PROVE  Serialized(r, l, locked).outward = r.outward
BY SerializedFacts

\* The proxy that n becomes and the descriptor that it sends.
Serializes(n, p, head, locked) ==
  /\ p = Serialized(routers[n], Inner(n), locked)
  /\ head = Descriptor(routers[n], Inner(n), locked)

(* What serialize_router flushes is in order.                              *)
LEMMA SerializeReady ==
  ASSUME NEW place, Inv(place), NEW n \in DOMAIN routers, ~routers[n].proxying,
         n[2] = place[End(n)], NEW next, Grows(place, next), next[End(n)] = n[2] + 1,
         NEW locked \in BOOLEAN, locked => IsCentral(routers[n].outward.primary),
         routers[n].outward.primary # NoLink,
         NEW p, NEW head, Serializes(n, p, head, locked),
         UNCHANGED <<sent, bypass>>,
         NEW ws, NEW e, Departs(e, p, ws, head), NEW c,
         c.place = next, c.sent = sent', c.got = Len(received[End(n)]),
         c.calm <=> bypass'[n].state = "requested", c.hush <=> head.bypass # NoLink,
         c.described, c.head = head
  PROVE  Given(c) /\ EffectReady(n, e, c)
<1> DEFINE r == routers[n]
           k == Len(received[End(n)])
<1>1. /\ n \in Routers /\ n \in Places(place) /\ End(n) \in Ends /\ n[2] \in Nat
      /\ RouterOk(n, r, place, sent, k) /\ IsRouter(r)
      /\ sent \in [Ends -> Nat] /\ k \in Nat
  BY ThereFacts
<1>2. next \in [Ends -> 0 .. MaxMoves] /\ sent' = sent
  BY DEF Grows
<1>3. Given(c)
  BY <1>1, <1>2 DEF Given
<1>4. /\ e.router = p /\ e.removed = FALSE /\ e.sends = <<head>> /\ e.taken = <<>>
      /\ e = [router |-> e.router, removed |-> e.removed, words |-> e.words,
              sends |-> e.sends, taken |-> e.taken]
  BY DEF Departs
<1>5. /\ IsRouter(p) /\ p.proxying = TRUE /\ p.inbound = r.inbound /\ p.outbound = r.outbound
      /\ p.inward.primary \in {NoLink, Inner(n)} /\ p.inward.decaying \in {NoLink, Inner(n)}
      /\ locked \/ r.peerClosed => p.inward.primary = NoLink
      /\ p.outward.primary \in {NoLink, r.outward.primary}
      /\ p.outward.decaying \in {r.outward.primary, r.outward.decaying}
      /\ ~locked => p.outward = r.outward
  <2>1. p = Serialized(r, Inner(n), locked)
    BY DEF Serializes
  <2> HIDE DEF r
  <2>2. PICK l : l = Inner(n)
    OBVIOUS
  <2>3. p = Serialized(r, l, locked) /\ IsRouter(r)
    BY <1>1, <2>1, <2>2
  <2>4. /\ IsRouter(p) /\ p.proxying = TRUE /\ p.inbound = r.inbound /\ p.outbound = r.outbound
        /\ p.inward.primary \in {NoLink, l} /\ p.inward.decaying \in {NoLink, l}
        /\ locked \/ r.peerClosed => p.inward.primary = NoLink
        /\ p.outward.primary \in {NoLink, r.outward.primary}
        /\ p.outward.decaying \in {r.outward.primary, r.outward.decaying}
        /\ ~locked => p.outward = r.outward
    <3>1. /\ IsRouter(p) /\ p.proxying = TRUE /\ p.inbound = r.inbound /\ p.outbound = r.outbound
      <4>1. IsRouter(p) /\ p.inbound = r.inbound /\ p.outbound = r.outbound
        BY <2>3, SerializedFacts, ZenonT(40)
      <4>2. p.proxying = TRUE
        BY <2>3, SerializedFacts
      <4> QED BY <4>1, <4>2
    <3>2. p.inward.primary \in {NoLink, l} /\ p.inward.decaying \in {NoLink, l}
      BY <2>3, SerializedFacts
    <3>3. locked \/ r.peerClosed => p.inward.primary = NoLink
      BY <2>3, SerializedFacts
    <3>4. /\ p.outward.primary \in {NoLink, r.outward.primary}
          /\ p.outward.decaying \in {r.outward.primary, r.outward.decaying}
      BY <2>3, SerializedFacts
    <3>5. ~locked => p.outward = r.outward
      <4>1. IsRouter(r) /\ p = Serialized(r, l, locked)
        BY <2>3
      <4>2. ~locked => Serialized(r, l, locked).outward = r.outward
        BY <4>1, SerializedUnlocked
      <4> QED BY <4>1, <4>2
    <3> QED BY <3>1, <3>2, <3>3, <3>4, <3>5
  <2> QED BY <2>2, <2>4
<1>6. /\ head.type = "Descriptor" /\ head.link = Inner(n)
      /\ head.bypass # NoLink => ~r.peerClosed /\ locked
  BY DescriptorFacts DEF Serializes
<1>7. IsSeq(e.sends) /\ Len(e.sends) = 1 /\ e.sends[1] = head
  BY <1>4, OneMessage
<1>8. Len(e.taken) = 0 /\ IsSeq(e.taken)
  BY <1>4, EmptySeq
<1>9. IsEffect(e)
  BY <1>4, <1>5, <1>7, <1>8 DEF IsEffect
<1>10. SendsFor(n, e.sends, c)
  <2>1. SendOk(n, head, c.place, c.sent)
    BY <1>1, <1>6 DEF SendOk
  <2>2. SendFor(n, 1, head, c)
    BY <1>6, <2>1 DEF SendFor
  <2> QED BY <1>7, <2>2 DEF SendsFor
<1>11. c.calm =>
        /\ n[2] > 0 /\ e.router.outward = EdgeOn(Inner(Pred(n)))
        /\ e.router.inbound.final = None /\ ~e.removed
  <2>1. ASSUME c.calm
        PROVE  /\ n[2] > 0 /\ p.outward = EdgeOn(Inner(Pred(n))) /\ p.inbound.final = None
    <3>1. Waits(n, place)
      BY <1>1, <2>1 DEF Inv, BypassOk
    <3>2. n[2] > 0 /\ r.outward = EdgeOn(Inner(Pred(n))) /\ r.inbound.final = None
      BY <3>1 DEF Waits
    <3>3. ~IsCentral(r.outward.primary)
      BY <3>2, EdgeFacts, LinkFacts
    <3> QED BY <1>5, <3>2, <3>3
  <2> HIDE DEF r, k
  <2>2. e.router.outward = p.outward /\ e.router.inbound = p.inbound /\ ~e.removed
    BY <1>4
  <2> QED BY <2>1, <2>2
<1>12. c.hush => e.router.proxying /\ e.router.inward.primary = NoLink
  BY <1>4, <1>5, <1>6
<1>13. Ready(n, p, next, sent, k)
  <2>1. \A l : OutLink(n, l, place) => OutLink(n, l, next)
    BY PlacesGrow
  <2>2. Ready(n, r, place, sent, k) /\ r.outbound.buffer = {}
    BY <1>1 DEF RouterOk
  <2>3. \A l \in {r.outward.primary, r.outward.decaying} : l = NoLink \/ OutLink(n, l, next)
    BY <2>1, <2>2 DEF Ready
  <2>4. \A l \in {p.outward.primary, p.outward.decaying} : l = NoLink \/ OutLink(n, l, next)
    BY <1>5, <2>3
  <2>5. \A l \in {p.inward.primary, p.inward.decaying} : l = NoLink \/ l = Inner(n)
    BY <1>5
  <2>6. \A x \in p.inbound.buffer : Valid(x, sent[Peer(End(n))])
    BY <1>5, <2>2 DEF Ready
  <2>7. p.outbound.buffer = {}
    BY <1>5, <2>2
  <2>8. p.proxying = TRUE /\ n[2] < next[End(n)]
    BY <1>1, <1>5
  <2> QED BY <1>5, <2>4, <2>5, <2>6, <2>7, <2>8 DEF Ready
<1>14. Ready(n, e.router, c.place, c.sent, c.got + Len(e.taken))
  <2>1. c.got + Len(e.taken) = k
    BY <1>1, <1>8
  <2> QED BY <1>2, <1>4, <1>13, <2>1
<1>15. \A i \in 1 .. Len(e.taken) :
         e.taken[i].body = c.got + i /\ c.got + i <= c.sent[Peer(End(n))]
  BY <1>8
<1>16. e.router.proxying => Len(e.taken) = 0
  BY <1>8
<1> QED BY <1>3, <1>9, <1>10, <1>11, <1>12, <1>14, <1>15, <1>16 DEF EffectReady, EffectFor

LEMMA DepartsFacts ==
  ASSUME NEW p, NEW ws, NEW head
  PROVE  Departs([Effect(p) EXCEPT !.words = ws, !.sends = <<head>>], p, ws, head)
<1>1. PICK y : y = FALSE
  OBVIOUS
<1>2. PICK h : h = <<head>>
  OBVIOUS
<1>3. PICK w, s : w = words /\ s = <<>>
  OBVIOUS
<1>4. Effect(p) = [router |-> p, removed |-> y, words |-> w, sends |-> s, taken |-> s]
  BY <1>1, <1>3 DEF Effect
<1> DEFINE t == [Effect(p) EXCEPT !.words = ws]
<1>5. t = [router |-> p, removed |-> y, words |-> ws, sends |-> s, taken |-> s]
  BY <1>4
<1>6. [Effect(p) EXCEPT !.words = ws, !.sends = <<head>>] = [t EXCEPT !.sends = h]
  BY <1>2
<1> HIDE DEF t
<1>7. [t EXCEPT !.sends = h] =
        [router |-> p, removed |-> y, words |-> ws, sends |-> h, taken |-> s]
  BY <1>5
<1> QED BY <1>1, <1>2, <1>3, <1>6, <1>7 DEF Departs

LEMMA SerializeKeeps ==
  ASSUME NEW place, Inv(place), NEW n, SerializeRouter(n)
  PROVE  \E next : Inv(next)' /\ Delivered(n)
<1> DEFINE r == routers[n]
           E == End(n)
           link == r.outward.primary
           locked == IsCentral(link) /\ CanLock(words[link])
           tried == IF IsCentral(link)
                    THEN [words EXCEPT ![link] = AfterTryLock(@, Side(n, link))]
                    ELSE words
           authorised == IF locked THEN [tried EXCEPT ![link].source = Successor(n)] ELSE tried
           proxy == Serialized(r, Inner(n), locked)
           f == [Effect(proxy) EXCEPT !.words = MarkedByProxy(proxy, authorised),
                                      !.sends = <<Descriptor(r, Inner(n), locked)>>]
<1>1. /\ HasPortal(n) /\ moves < MaxMoves /\ moves' = moves + 1 /\ link # NoLink
      /\ Commit(n, Flush(n, f, FALSE, FALSE), chan, {Inner(n)})
      /\ UNCHANGED <<deferred, early, bypass, sent>>
  BY DEF SerializeRouter, Proceed, Inner
<1>2. n \in DOMAIN routers /\ n[2] = place[E] /\ ~r.proxying
  BY <1>1, PortalPlace
<1>3. /\ n \in Routers /\ n \in Places(place) /\ E \in Ends /\ n[2] \in Nat
      /\ RouterOk(n, r, place, sent, Len(received[E]))
      /\ sent \in [Ends -> Nat]
  BY <1>2, ThereFacts
<1>4. PICK next : next = [place EXCEPT ![E] = @ + 1]
  OBVIOUS
<1>5. /\ next = [d \in Ends |-> next[d]] /\ next[E] = place[E] + 1
      /\ \A d \in Ends : d # E => next[d] = place[d]
  BY <1>3, <1>4 DEF Inv, PlacesOk
<1>6. Grows(place, next) /\ PlacesOk(next)' /\ next[E] = n[2] + 1
  <2>1. PlacesOk(place)
    BY DEF Inv
  <2>2. Grows(place, next) /\ PlacesOk(next)'
    BY <1>1, <1>3, <1>5, <2>1, PlaceMoves
  <2> QED BY <1>2, <1>5, <2>2
<1>7. PICK lk \in BOOLEAN : lk <=> locked
  OBVIOUS
<1>8. PICK p, head, ws : /\ p = proxy /\ head = Descriptor(r, Inner(n), locked)
                         /\ ws = MarkedByProxy(proxy, authorised)
  OBVIOUS
<1>9. Serializes(n, p, head, lk)
  <2>1. lk = locked
    BY <1>7
  <2> QED BY <1>8, <2>1 DEF Serializes
<1>10. PICK e : e = f
  OBVIOUS
<1>11. Departs(e, p, ws, head)
  <2>1. f = [Effect(p) EXCEPT !.words = ws, !.sends = <<head>>]
    BY <1>8
  <2> HIDE DEF f, proxy, authorised, tried, locked
  <2> QED BY <1>10, <2>1, DepartsFacts
<1>12. Commit(n, Flush(n, e, FALSE, FALSE), chan, {Inner(n)})
  BY <1>1, <1>10
<1>13. lk => IsCentral(link)
  BY <1>7
<1> HIDE DEF f, proxy, authorised, tried, locked
<1>14. PICK calm \in BOOLEAN : calm <=> bypass'[n].state = "requested"
  OBVIOUS
<1>15. PICK hush \in BOOLEAN : hush <=> head.bypass # NoLink
  OBVIOUS
<1>a. PICK t, s, k : t = TRUE /\ s = sent' /\ k = Len(received[End(n)])
  OBVIOUS
<1>b. PICK c : c = [place |-> next, sent |-> s, got |-> k, calm |-> calm,
                    hush |-> hush, described |-> t, head |-> head]
  OBVIOUS
<1>16. /\ c.place = next /\ c.sent = sent' /\ c.got = Len(received[End(n)])
       /\ c.calm = calm /\ c.hush = hush /\ c.described /\ c.head = head
  BY <1>a, <1>b
<1>17. (c.calm <=> bypass'[n].state = "requested") /\ (c.hush <=> head.bypass # NoLink)
  BY <1>14, <1>15, <1>16
<1>18. Given(c) /\ EffectReady(n, e, c)
  BY <1>1, <1>2, <1>6, <1>9, <1>11, <1>13, <1>16, <1>17, SerializeReady
<1>19. EffectOk(n, Flush(n, e, FALSE, FALSE), c)
  BY <1>3, <1>18, FlushOk
<1>20. SentGrows(sent, sent')
  BY <1>1, <1>3 DEF SentGrows
<1>21. Describes(n, c, place, next)
  <2>1. /\ head.link = Inner(n)
        /\ head.incoming = r.inbound.current /\ head.outgoing = r.outbound.current
        /\ head.peerClosed = r.peerClosed
        /\ head.bypass # NoLink => ~r.peerClosed /\ lk /\ head.bypass = link
    BY <1>9, DescriptorFacts DEF Serializes
  <2>2. r.outbound.current = sent[E] /\ r.inbound.current = Len(received[E])
    BY <1>1, <1>2, <1>3, PortalFacts
  <2>3. OutLink(n, link, next)
    <3>1. OutLink(n, link, place)
      BY <1>1, <1>3 DEF RouterOk, Ready
    <3> QED BY <1>6, <3>1, PlacesGrow
  <2>4. head.bypass # NoLink =>
          OutLink(n, head.bypass, next) /\ IsCentral(head.bypass) /\ ~head.peerClosed /\ c.hush
    BY <1>13, <1>17, <2>1, <2>3
  <2>5. head.incoming = Len(received[End(n)]) /\ head.outgoing = sent'[End(n)]
    BY <1>1, <2>1, <2>2
  <2> QED BY <1>2, <1>6, <1>16, <2>1, <2>4, <2>5 DEF Describes
<1>22. Leaves(chan, next)
  <2>1. Leaves(chan, place)
    BY <1>1, <1>20, CallLeaves
  <2>2. \A y, m : MsgOk(y, m, place, sent') => MsgOk(y, m, next, sent')
    <3>1. SentGrows(sent', sent')
      BY <1>1, <1>3 DEF SentGrows
    <3> QED BY <1>6, <3>1, MsgOkGrows
  <2>3. EarlyOk(early', next, sent')
    BY <2>1, <2>2 DEF Leaves, EarlyOk
  <2> QED BY <2>1, <2>3 DEF Leaves
<1>23. Requests(n, c, place)
  <2>1. ASSUME bypass'[n].state = "requested"
        PROVE  /\ c.calm
               /\ OutLink(Pred(n), bypass'[n].old, place) /\ IsCentral(bypass'[n].old)
               /\ Quiet(Pred(n))
    <3>1. bypass'[n] = bypass[n] /\ c.calm
      BY <1>1, <1>17, <2>1
    <3>2. Waits(n, place)
      BY <1>3, <2>1, <3>1 DEF Inv, BypassOk
    <3> QED BY <3>1, <3>2 DEF Waits
  <2> QED BY <2>1 DEF Requests
<1>24. PICK g : g = Flush(n, e, FALSE, FALSE)
  OBVIOUS
<1>25. EffectOk(n, g, c) /\ Commit(n, g, chan, {Inner(n)})
  BY <1>12, <1>19, <1>24
<1>26. Turn(n, g, c, chan, {Inner(n)}, place, next)
  <2>1. bypass' = [x \in Routers |-> [state |-> bypass'[x].state, old |-> bypass'[x].old]]
    BY <1>1 DEF Inv, BypassOk
  <2>2. \A d \in Ends : d # End(n) => next[d] = place[d] /\ sent'[d] = sent[d]
    BY <1>1, <1>5
  <2>3. ~(n[2] < place[E])
    BY <1>2, <1>3
  <2>4. \A x \in Routers : x # n => bypass'[x] = bypass[x]
    BY <1>1
  <2> QED BY <1>2, <1>3, <1>6, <1>16, <1>20, <1>21, <1>22, <1>23, <1>25, <2>1, <2>2, <2>3, <2>4
      DEF Turn
<1> QED BY <1>26, TurnKeeps

-----------------------------------------------------------------------------
(* Messages.                                                               *)

\* Node n handles m, which it has taken from the channels or from its buffers.
Took(n, m, channels, place) ==
  /\ n \in Routers /\ MsgOk(n, m, place, sent) /\ m \in InFlight(chan, deferred, n)
  /\ Wired(channels, deferred') /\ Once(channels, deferred')
  /\ \A y \in Routers : \A v \in InFlight(channels, deferred', y) : v \in InFlight(chan, deferred, y)
  /\ IsDescriptor(m) => \A v \in InFlight(channels, deferred', n) : ~IsDescriptor(v)
  /\ UNCHANGED <<moves, sent>>

LEMMA SentSame ==
  ASSUME NEW place, Inv(place), UNCHANGED sent
  PROVE  SentGrows(sent, sent')
<1>1. sent \in [Ends -> Nat]
  BY DEF Inv, HistoryOk
<1>2. \A d \in Ends : sent[d] <= sent[d]
  BY <1>1
<1> QED BY <1>1, <1>2 DEF SentGrows

LEMMA TookLeaves ==
  ASSUME NEW place, Inv(place), NEW n, NEW m, NEW channels, Took(n, m, channels, place),
         early' = early
  PROVE  Leaves(channels, place)
<1>1. EarlyOk(early', place, sent')
  BY DEF Inv, MessagesOk, Took
<1> QED BY <1>1 DEF Leaves, Took

(* A message that changes no router.                                       *)
LEMMA NothingKeeps ==
  ASSUME NEW place, Inv(place), NEW n, NEW m, NEW channels, Took(n, m, channels, place),
         UNCHANGED <<routers, owners, received, bypass>>, chan' = channels,
         EarlyOk(early', place, sent')
  PROVE  Inv(place)' /\ Delivered(n)
<1>1. Leaves(chan', place)
  BY DEF Leaves, Took
<1>2. /\ UNCHANGED <<routers, owners, received, sent, moves>> /\ n \in Routers
      /\ bypass' = [x \in Routers |-> [state |-> bypass'[x].state, old |-> bypass'[x].old]]
      /\ \A x \in Routers : bypass'[x].state = "requested" => bypass'[x] = bypass[x]
  BY DEF Took, Inv, BypassOk
<1> QED BY <1>1, <1>2, IdleKeeps

LEMMA EarlySame ==
  ASSUME NEW place, Inv(place), UNCHANGED <<early, sent>>
  PROVE  EarlyOk(early', place, sent')
BY DEF Inv, MessagesOk

(* The link of a message tells which way it goes.                          *)
LEMMA WayOf ==
  ASSUME NEW place, Inv(place), NEW n \in DOMAIN routers, NEW m, MsgOk(n, m, place, sent)
  PROVE  /\ m.link # NoLink
         /\ OnOutward(routers[n], m.link) =>
              /\ OutLink(n, m.link, place) /\ m.link # Inner(n)
              /\ m.type = "AcceptParcel" => Valid(m, sent[Peer(End(n))])
         /\ OnInward(routers[n], m.link) =>
              /\ m.link = Inner(n) /\ routers[n].proxying
              /\ m.type = "AcceptParcel" => Valid(m, sent[End(n)])
<1>1. n \in Routers /\ RouterOk(n, routers[n], place, sent, Len(received[End(n)]))
  BY ThereFacts
<1>2. \A l : OutLink(n, l, place) => l # NoLink /\ l # Inner(n)
  BY <1>1, OutLinkFacts
<1>3. Inner(n) # NoLink
  BY LinkFacts
<1>4. m.link # NoLink
  BY <1>2, <1>3 DEF MsgOk
<1>5. ASSUME OnOutward(routers[n], m.link)
      PROVE  /\ OutLink(n, m.link, place) /\ m.link # Inner(n)
             /\ m.type = "AcceptParcel" => Valid(m, sent[Peer(End(n))])
  <2>1. m.link \in {routers[n].outward.primary, routers[n].outward.decaying}
    BY <1>5 DEF OnOutward, OnEdge
  <2>2. OutLink(n, m.link, place)
    BY <1>1, <1>4, <2>1 DEF RouterOk, Ready
  <2> QED BY <1>2, <2>2 DEF MsgOk
<1>6. ASSUME OnInward(routers[n], m.link)
      PROVE  /\ m.link = Inner(n) /\ routers[n].proxying
             /\ m.type = "AcceptParcel" => Valid(m, sent[End(n)])
  <2>1. /\ m.link \in {routers[n].inward.primary, routers[n].inward.decaying}
        /\ routers[n].proxying
    BY <1>6 DEF OnInward, OnEdge
  <2>2. m.link = Inner(n)
    BY <1>1, <1>4, <2>1 DEF RouterOk, Ready
  <2> QED BY <1>2, <2>1, <2>2 DEF MsgOk
<1> QED BY <1>4, <1>5, <1>6

(* A router that takes a valid parcel is ready to flush.                   *)
LEMMA PushInboundReady ==
  ASSUME NEW n, NEW place, NEW s, NEW k, NEW r, RouterOk(n, r, place, s, k),
         NEW p, Valid(p, s[Peer(End(n))])
  PROVE  /\ Ready(n, WithInbound(r, Push(r.inbound, p)), place, s, k)
         /\ WithInbound(r, Push(r.inbound, p)).outward = r.outward
         /\ WithInbound(r, Push(r.inbound, p)).inward = r.inward
         /\ WithInbound(r, Push(r.inbound, p)).proxying = r.proxying
         /\ WithInbound(r, Push(r.inbound, p)).inbound.final = r.inbound.final
<1>1. IsRouter(r) /\ IsQueue(r.inbound)
  BY DEF RouterOk, Ready, IsRouter
<1>2. PICK q : q = Push(r.inbound, p)
  OBVIOUS
<1>3. /\ IsQueue(q) /\ q.current = r.inbound.current /\ q.final = r.inbound.final
      /\ q.buffer \subseteq r.inbound.buffer \cup {p}
  BY <1>1, <1>2, PushFacts
<1>4. PICK t : t = WithInbound(r, q)
  OBVIOUS
<1>5. /\ IsRouter(t) /\ t.inbound = q /\ t.outbound = r.outbound /\ t.outward = r.outward
      /\ t.inward = r.inward /\ t.proxying = r.proxying
  <2>1. IsRouter(r) /\ IsQueue(q)
    BY <1>1, <1>3
  <2>2. /\ IsRouter(WithInbound(r, q)) /\ WithInbound(r, q).inbound = q
    BY <2>1, WithQueue
  <2>3. /\ WithInbound(r, q).outbound = r.outbound /\ WithInbound(r, q).outward = r.outward
        /\ WithInbound(r, q).inward = r.inward /\ WithInbound(r, q).proxying = r.proxying
    BY <2>1, WithQueue
  <2> QED BY <1>4, <2>2, <2>3
<1>6. Ready(n, r, place, s, k)
  BY DEF RouterOk
<1>7. \A x \in t.inbound.buffer : Valid(x, s[Peer(End(n))])
  BY <1>3, <1>5, <1>6 DEF Ready
<1>8. Ready(n, t, place, s, k)
  <2>1. /\ r.proxying => \A x \in t.outbound.buffer : Valid(x, s[End(n)])
        /\ ~r.proxying =>
             /\ t.inbound.current = r.inbound.current /\ t.outbound.current = r.outbound.current
             /\ r.outward.primary # NoLink => Loaded(t.outbound, s[End(n)])
    BY <1>3, <1>5, <1>6 DEF Ready
  <2> QED BY <1>5, <1>7, <2>1, ReadyAgain
<1> QED BY <1>2, <1>3, <1>4, <1>5, <1>8

LEMMA PushOutboundReady ==
  ASSUME NEW n, NEW place, NEW s, NEW k, NEW r, RouterOk(n, r, place, s, k), r.proxying,
         NEW p, Valid(p, s[End(n)])
  PROVE  /\ Ready(n, WithOutbound(r, Push(r.outbound, p)), place, s, k)
         /\ WithOutbound(r, Push(r.outbound, p)).outward = r.outward
         /\ WithOutbound(r, Push(r.outbound, p)).inward = r.inward
         /\ WithOutbound(r, Push(r.outbound, p)).proxying = r.proxying
         /\ WithOutbound(r, Push(r.outbound, p)).inbound.final = r.inbound.final
<1>1. IsRouter(r) /\ IsQueue(r.outbound)
  BY DEF RouterOk, Ready, IsRouter
<1>2. PICK q : q = Push(r.outbound, p)
  OBVIOUS
<1>3. IsQueue(q) /\ q.buffer \subseteq r.outbound.buffer \cup {p}
  BY <1>1, <1>2, PushFacts
<1>4. PICK t : t = WithOutbound(r, q)
  OBVIOUS
<1>5. /\ IsRouter(t) /\ t.outbound = q /\ t.inbound = r.inbound /\ t.outward = r.outward
      /\ t.inward = r.inward /\ t.proxying = r.proxying
  <2>1. IsRouter(r) /\ IsQueue(q)
    BY <1>1, <1>3
  <2>2. /\ IsRouter(WithOutbound(r, q)) /\ WithOutbound(r, q).outbound = q
    BY <2>1, WithQueue
  <2>3. /\ WithOutbound(r, q).inbound = r.inbound /\ WithOutbound(r, q).outward = r.outward
        /\ WithOutbound(r, q).inward = r.inward /\ WithOutbound(r, q).proxying = r.proxying
    BY <2>1, WithQueue
  <2> QED BY <1>4, <2>2, <2>3
<1>6. Ready(n, r, place, s, k)
  BY DEF RouterOk
<1>7. /\ \A x \in t.inbound.buffer : Valid(x, s[Peer(End(n))])
      /\ \A x \in t.outbound.buffer : Valid(x, s[End(n)])
  BY <1>3, <1>5, <1>6 DEF Ready
<1>8. Ready(n, t, place, s, k)
  BY <1>5, <1>7, ReadyAgain
<1> QED BY <1>2, <1>4, <1>5, <1>8

LEMMA OwnerIsThere ==
  ASSUME NEW place, Inv(place), NEW n, NEW l, <<n, l>> \in owners
  PROVE  n \in DOMAIN routers
<1>1. \A o \in owners : o[1] \in DOMAIN routers
  BY DEF Inv, OwnersOk
<1> QED BY <1>1

LEMMA EarlyAppend ==
  ASSUME NEW place, Inv(place), NEW n \in Routers, NEW m, MsgOk(n, m, place, sent),
         m.type = "AcceptParcel", sent' = sent, early' = [early EXCEPT ![n] = Append(@, m)]
  PROVE  EarlyOk(early', place, sent')
<1>1. /\ early = [y \in Routers |-> early[y]]
      /\ \A y \in Routers : IsSeq(early[y]) /\ \A i \in 1 .. Len(early[y]) :
           MsgOk(y, early[y][i], place, sent) /\ early[y][i].type = "AcceptParcel"
  BY DEF Inv, MessagesOk, EarlyOk
<1>2. /\ early' = [y \in Routers |-> early'[y]] /\ early'[n] = Append(early[n], m)
      /\ \A y \in Routers : y # n => early'[y] = early[y]
  BY <1>1
<1>3. PICK s : s = early[n]
  OBVIOUS
<1>4. /\ IsSeq(Append(s, m)) /\ Len(Append(s, m)) = Len(s) + 1 /\ Append(s, m)[Len(s) + 1] = m
      /\ \A i \in 1 .. Len(s) : Append(s, m)[i] = s[i]
      /\ Len(s) \in Nat
  <2>1. IsSeq(s)
    BY <1>1, <1>3
  <2> QED BY <2>1, AppendSeq DEF IsSeq
<1>5. /\ IsSeq(early'[n])
      /\ \A i \in 1 .. Len(early'[n]) :
           MsgOk(n, early'[n][i], place, sent') /\ early'[n][i].type = "AcceptParcel"
  <2>1. early'[n] = Append(s, m)
    BY <1>2, <1>3
  <2>2. ASSUME NEW i \in 1 .. Len(s) + 1
        PROVE  MsgOk(n, Append(s, m)[i], place, sent) /\ Append(s, m)[i].type = "AcceptParcel"
    <3>1. CASE i = Len(s) + 1
      BY <1>4, <3>1
    <3>2. CASE i # Len(s) + 1
      <4>1. i \in 1 .. Len(s)
        BY <1>4, <3>2
      <4> QED BY <1>1, <1>3, <1>4, <4>1
    <3> QED BY <3>1, <3>2
  <2> QED BY <1>4, <2>1, <2>2
<1>6. \A y \in Routers :
        /\ IsSeq(early'[y])
        /\ \A i \in 1 .. Len(early'[y]) :
             MsgOk(y, early'[y][i], place, sent') /\ early'[y][i].type = "AcceptParcel"
  <2>1. ASSUME NEW y \in Routers, y # n
        PROVE  /\ IsSeq(early'[y])
               /\ \A i \in 1 .. Len(early'[y]) :
                    MsgOk(y, early'[y][i], place, sent') /\ early'[y][i].type = "AcceptParcel"
    <3>1. early'[y] = early[y]
      BY <1>2, <2>1
    <3> QED BY <1>1, <3>1
  <2> QED BY <1>5, <2>1
<1> QED BY <1>2, <1>6 DEF EarlyOk

(* process_accept_parcel.                                                  *)
LEMMA AcceptParcelKeeps ==
  ASSUME NEW place, Inv(place), NEW n, NEW m, NEW channels, Took(n, m, channels, place),
         m.type = "AcceptParcel", NEW keep, OnAcceptParcel(n, m, channels, keep), UNCHANGED bypass
  PROVE  Inv(place)' /\ Delivered(n)
<1> DEFINE r == routers[n]
           k == Len(received[End(n)])
           parcel == [seq |-> m.seq, body |-> m.body]
           queue == IF OnOutward(r, m.link) THEN r.inbound ELSE r.outbound
           pushed == IF OnOutward(r, m.link) THEN [r EXCEPT !.inbound = Push(@, parcel)]
                     ELSE [r EXCEPT !.outbound = Push(@, parcel)]
<1>1. n \in Routers /\ MsgOk(n, m, place, sent) /\ UNCHANGED <<moves, sent>>
  BY DEF Took
<1>2. CASE <<n, m.link>> \notin owners
  <2>1. early' = [early EXCEPT ![n] = Append(@, m)] /\ Ignore(channels)
    BY <1>2 DEF OnAcceptParcel
  <2>2. EarlyOk(early', place, sent')
    BY <1>1, <2>1, EarlyAppend
  <2> QED BY <2>1, <2>2, NothingKeeps DEF Ignore
<1>3. CASE <<n, m.link>> \in owners /\ ~OnOutward(r, m.link) /\ ~OnInward(r, m.link)
  <2>1. UNCHANGED early /\ Fail("parcel for unbound sublink", channels)
    BY <1>3 DEF OnAcceptParcel
  <2>2. EarlyOk(early', place, sent')
    BY <1>1, <2>1, EarlySame
  <2> QED BY <2>1, <2>2, NothingKeeps DEF Fail
<1>4. CASE <<n, m.link>> \in owners /\ (OnOutward(r, m.link) \/ OnInward(r, m.link))
  <2>1. /\ UNCHANGED early
        /\ IF PushAllowed(queue, parcel)
           THEN Proceed(n, Flush(n, Effect(pushed), FALSE, keep), channels, {})
           ELSE Fail("sequence gap or duplicate", channels)
    BY <1>4 DEF OnAcceptParcel
  <2>2. n \in DOMAIN routers
    BY <1>4, OwnerIsThere
  <2>3. Leaves(channels, place)
    BY <2>1, TookLeaves
  <2>4. Alone(n, place)
    BY <1>1, <2>2, AloneSame
  <2>5. RouterOk(n, r, place, sent', k)
    BY <1>1, <2>2, ThereFacts
  <2>6. CASE ~PushAllowed(queue, parcel)
    <3>1. Fail("sequence gap or duplicate", channels)
      BY <2>1, <2>6
    <3>2. EarlyOk(early', place, sent')
      BY <1>1, <2>1, EarlySame
    <3> QED BY <3>1, <3>2, NothingKeeps DEF Fail
  <2>7. CASE PushAllowed(queue, parcel)
    <3>1. Commit(n, Flush(n, Effect(pushed), FALSE, keep), channels, {})
      BY <2>1, <2>7 DEF Proceed
    <3>2. PICK p : p = parcel
      OBVIOUS
    <3>3. p.seq = m.seq /\ p.body = m.body
      BY <3>2
    <3>4. PICK t : t = pushed
      OBVIOUS
    <3>5. /\ Ready(n, t, place, sent', k) /\ t.outward = r.outward /\ t.inward = r.inward
          /\ t.proxying = r.proxying /\ t.inbound.final = r.inbound.final
      <4>1. CASE OnOutward(r, m.link)
        <5>1. Valid(m, sent[Peer(End(n))])
          BY <1>1, <2>2, <4>1, WayOf
        <5>2. Valid(p, sent'[Peer(End(n))])
          BY <1>1, <3>3, <5>1 DEF Valid
        <5>3. t = WithInbound(r, Push(r.inbound, p))
          BY <3>2, <3>4, <4>1 DEF WithInbound
        <5> HIDE DEF r, k
        <5> QED BY <2>5, <5>2, <5>3, PushInboundReady
      <4>2. CASE ~OnOutward(r, m.link)
        <5>1. OnInward(r, m.link)
          BY <1>4, <4>2
        <5>2. Valid(m, sent[End(n)]) /\ r.proxying
          BY <1>1, <2>2, <5>1, WayOf
        <5>3. Valid(p, sent'[End(n)])
          BY <1>1, <3>3, <5>2 DEF Valid
        <5>4. t = WithOutbound(r, Push(r.outbound, p))
          BY <3>2, <3>4, <4>2 DEF WithOutbound
        <5>5. PICK s : s = sent'
          OBVIOUS
        <5> HIDE DEF r, k
        <5>6. RouterOk(n, r, place, s, k) /\ Valid(p, s[End(n)])
          BY <2>5, <5>3, <5>5
        <5>7. Ready(n, WithOutbound(r, Push(r.outbound, p)), place, s, k)
          BY <5>2, <5>6, PushOutboundReady
        <5>8. t.outward = r.outward /\ t.inward = r.inward
          BY <5>2, <5>4, <5>6, PushOutboundReady
        <5>9. t.proxying = r.proxying
          <6>1. PICK w : w = WithOutbound(r, Push(r.outbound, p))
            OBVIOUS
          <6>2. w.proxying = r.proxying
            BY <5>2, <5>6, <6>1, PushOutboundReady, ZenonT(40)
          <6> QED BY <5>4, <6>1, <6>2
        <5>10. t.inbound.final = r.inbound.final
          BY <5>2, <5>4, <5>6, PushOutboundReady
        <5> QED BY <5>4, <5>5, <5>7, <5>8, <5>9, <5>10
      <4> QED BY <4>1, <4>2
    <3>6. Commit(n, Flush(n, Effect(t), FALSE, keep), channels, {})
      BY <3>1, <3>4
    <3> HIDE DEF pushed
    <3> QED BY <2>2, <2>3, <2>4, <3>5, <3>6, ChangeKeeps
  <2> QED BY <2>6, <2>7
<1> QED BY <1>2, <1>3, <1>4

\* Router r, with the inbound queue q, learns that its peer has closed.
ClosedBy(r, q) == [r EXCEPT !.inbound = q, !.peerClosed = TRUE]

LEMMA PeerClosedShape ==
  ASSUME NEW r, IsRouter(r), NEW q, IsQueue(q), NEW t, t = ClosedBy(r, q)
  PROVE  /\ IsRouter(t) /\ t.inbound = q /\ t.outbound = r.outbound /\ t.outward = r.outward
         /\ t.inward = r.inward /\ t.proxying = r.proxying
<1>1. PICK o, i, p, qi, qo, z :
        r = [outward |-> o, inward |-> i, proxying |-> p,
             inbound |-> qi, outbound |-> qo, peerClosed |-> z]
  BY DEF IsRouter
<1>2. IsEdge(o) /\ IsEdge(i) /\ IsQueue(qi) /\ IsQueue(qo)
  BY <1>1 DEF IsRouter
<1>3. PICK y : y = TRUE
  OBVIOUS
<1> DEFINE u == [r EXCEPT !.inbound = q]
<1>4. t = [u EXCEPT !.peerClosed = y]
  BY <1>3 DEF ClosedBy
<1>5. u = [outward |-> o, inward |-> i, proxying |-> p,
           inbound |-> q, outbound |-> qo, peerClosed |-> z]
  BY <1>1
<1> HIDE DEF u
<1>6. t = [outward |-> o, inward |-> i, proxying |-> p,
           inbound |-> q, outbound |-> qo, peerClosed |-> y]
  BY <1>4, <1>5
<1>7. /\ IsRouter(t) /\ t.outward = o /\ t.inward = i /\ t.proxying = p
      /\ t.inbound = q /\ t.outbound = qo
  BY <1>2, <1>6, RouterShape
<1> QED BY <1>1, <1>7

(* A closure never comes to a router that waits for its bypass.            *)
LEMMA NoClosureWhileWaiting ==
  ASSUME NEW place, Inv(place), NEW n \in DOMAIN routers, NEW m, m.type = "RouteClosed",
         MsgOk(n, m, place, sent), m \in InFlight(chan, deferred, n),
         OnOutward(routers[n], m.link)
  PROVE  bypass[n].state # "requested"
<1>1. SUFFICES ASSUME bypass[n].state = "requested" PROVE FALSE
  OBVIOUS
<1>2. n \in Routers
  BY ThereFacts
<1>3. Waits(n, place)
  BY <1>1, <1>2 DEF Inv, BypassOk
<1>4. n[2] > 0 /\ routers[n].outward = EdgeOn(Inner(Pred(n))) /\ Quiet(Pred(n))
  BY <1>3 DEF Waits
<1>5. m.link \in {Inner(Pred(n)), NoLink} /\ m.link # NoLink
  BY <1>4, EdgeFacts, WayOf DEF OnOutward, OnEdge
<1>6. Successor(Pred(n)) = n
  BY <1>2, <1>4, RouterFacts
<1> QED BY <1>4, <1>5, <1>6 DEF Quiet

(* router_route_closed.                                                    *)
LEMMA RouteClosedKeeps ==
  ASSUME NEW place, Inv(place), NEW n, NEW m, NEW channels, Took(n, m, channels, place),
         m.type = "RouteClosed", <<n, m.link>> \in owners, OnRouteClosed(n, m, channels),
         UNCHANGED <<early, bypass>>
  PROVE  Inv(place)' /\ Delivered(n)
<1> DEFINE r == routers[n]
           k == Len(received[End(n)])
           known == r.inbound.final # None /\ r.inbound.final <= m.length
           inward == [r EXCEPT !.inbound = SetFinal(@, m.length), !.peerClosed = TRUE]
           outward == [r EXCEPT !.outbound = SetFinal(@, m.length)]
<1>1. /\ n \in Routers /\ MsgOk(n, m, place, sent) /\ UNCHANGED <<moves, sent>>
      /\ m \in InFlight(chan, deferred, n)
  BY DEF Took
<1>2. n \in DOMAIN routers
  BY OwnerIsThere
<1>3. Leaves(channels, place)
  BY TookLeaves
<1>4. Alone(n, place)
  BY <1>1, <1>2, AloneSame
<1>5. RouterOk(n, r, place, sent', k) /\ IsRouter(r)
  BY <1>1, <1>2, ThereFacts
<1>6. Ready(n, r, place, sent', k) /\ IsQueue(r.inbound) /\ IsQueue(r.outbound)
  BY <1>5 DEF RouterOk, IsRouter
<1>7. CASE OnOutward(r, m.link) /\ FinalAllowed(r.inbound, m.length)
  <2>1. Commit(n, Flush(n, Effect(inward), FALSE, FALSE), channels, {})
    BY <1>7 DEF OnRouteClosed, Proceed
  <2>2. PICK q : q = SetFinal(r.inbound, m.length)
    OBVIOUS
  <2>3. IsQueue(q) /\ q.current = r.inbound.current /\ q.buffer = r.inbound.buffer
    BY <1>6, <2>2, SetFinalFacts
  <2>4. PICK t : t = inward
    OBVIOUS
  <2>5. t = ClosedBy(r, q)
    BY <2>2, <2>4 DEF ClosedBy
  <2>6. Commit(n, Flush(n, Effect(t), FALSE, FALSE), channels, {})
    BY <2>1, <2>4
  <2> HIDE DEF inward, r, k
  <2>7. /\ IsRouter(t) /\ t.inbound = q /\ t.outbound = r.outbound /\ t.outward = r.outward
        /\ t.inward = r.inward /\ t.proxying = r.proxying
    <3>1. IsRouter(r) /\ IsQueue(q)
      BY <1>5, <2>3
    <3> QED BY <2>5, <3>1, PeerClosedShape
  <2>8. Ready(n, t, place, sent', k)
    <3>1. \A x \in t.inbound.buffer : Valid(x, sent'[Peer(End(n))])
      BY <1>6, <2>3, <2>7 DEF Ready
    <3>2. /\ r.proxying => \A x \in t.outbound.buffer : Valid(x, sent'[End(n)])
          /\ ~r.proxying =>
               /\ t.inbound.current = r.inbound.current /\ t.outbound.current = r.outbound.current
               /\ r.outward.primary # NoLink => Loaded(t.outbound, sent'[End(n)])
      BY <1>6, <2>3, <2>7 DEF Ready
    <3> QED BY <1>5, <2>7, <3>1, <3>2, ReadyAgain
  <2>9. bypass'[n].state # "requested"
    <3>1. OnOutward(routers[n], m.link)
      BY <1>7 DEF r
    <3>2. bypass[n].state # "requested"
      BY <1>1, <1>2, <3>1, NoClosureWhileWaiting
    <3> QED BY <3>2
  <2>10. routers[n].proxying /\ routers[n].inward.primary = NoLink =>
           t.proxying /\ t.inward.primary = NoLink
    BY <2>7 DEF r
  <2>11. Ready(n, t, place, sent', Len(received[End(n)]))
    BY <2>8 DEF k
  <2> QED BY <1>2, <1>3, <1>4, <2>6, <2>9, <2>10, <2>11, ChangeKeeps
<1>8. CASE OnOutward(r, m.link) /\ ~FinalAllowed(r.inbound, m.length)
  <2>1. Ignore(channels) \/ Fail("closure sequence regression", channels)
    BY <1>8 DEF OnRouteClosed
  <2>2. EarlyOk(early', place, sent')
    BY <1>1, EarlySame
  <2> QED BY <2>1, <2>2, NothingKeeps DEF Fail, Ignore
<1>9. CASE ~OnOutward(r, m.link) /\ FinalAllowed(r.outbound, m.length)
  <2>1. Commit(n, Flush(n, Effect(outward), FALSE, FALSE), channels, {})
    BY <1>9 DEF OnRouteClosed, Proceed
  <2>2. PICK q : q = SetFinal(r.outbound, m.length)
    OBVIOUS
  <2>3. IsQueue(q) /\ q.current = r.outbound.current /\ q.buffer = r.outbound.buffer
    BY <1>6, <2>2, SetFinalFacts
  <2>4. PICK t : t = outward
    OBVIOUS
  <2>5. t = WithOutbound(r, q)
    BY <2>2, <2>4 DEF WithOutbound
  <2>6. Commit(n, Flush(n, Effect(t), FALSE, FALSE), channels, {})
    BY <2>1, <2>4
  <2> HIDE DEF outward, r, k
  <2>7. /\ IsRouter(t) /\ t.outbound = q /\ t.inbound = r.inbound /\ t.outward = r.outward
        /\ t.inward = r.inward /\ t.proxying = r.proxying
    <3>1. IsRouter(t) /\ t.outbound = q
      BY <1>5, <2>3, <2>5, WithQueue
    <3>2. t.inbound = r.inbound /\ t.outward = r.outward
      BY <1>5, <2>3, <2>5, WithQueue
    <3>3. t.inward = r.inward /\ t.proxying = r.proxying
      BY <1>5, <2>3, <2>5, WithQueue
    <3> QED BY <3>1, <3>2, <3>3
  <2>8. Ready(n, t, place, sent', k)
    <3>1. \A x \in t.inbound.buffer : Valid(x, sent'[Peer(End(n))])
      BY <1>6, <2>7 DEF Ready
    <3>2. /\ r.proxying => \A x \in t.outbound.buffer : Valid(x, sent'[End(n)])
          /\ ~r.proxying =>
               /\ t.inbound.current = r.inbound.current /\ t.outbound.current = r.outbound.current
               /\ r.outward.primary # NoLink => Loaded(t.outbound, sent'[End(n)])
      BY <1>6, <2>3, <2>7 DEF Ready, Loaded, Holds
    <3> QED BY <1>5, <2>7, <3>1, <3>2, ReadyAgain
  <2>9. /\ t.outward = routers[n].outward /\ t.inbound.final = routers[n].inbound.final
        /\ routers[n].proxying /\ routers[n].inward.primary = NoLink =>
             t.proxying /\ t.inward.primary = NoLink
    BY <2>7 DEF r
  <2>10. Ready(n, t, place, sent', Len(received[End(n)]))
    BY <2>8 DEF k
  <2> QED BY <1>2, <1>3, <1>4, <2>6, <2>9, <2>10, ChangeKeeps
<1>10. CASE ~OnOutward(r, m.link) /\ ~FinalAllowed(r.outbound, m.length)
  <2>1. Fail("closure sequence regression", channels)
    BY <1>10 DEF OnRouteClosed
  <2>2. EarlyOk(early', place, sent')
    BY <1>1, EarlySame
  <2> QED BY <2>1, <2>2, NothingKeeps DEF Fail
<1> QED BY <1>7, <1>8, <1>9, <1>10

(* A router that differs from one in order by its outward edge only.       *)
LEMMA OutwardReady ==
  ASSUME NEW n, NEW place, NEW s, NEW k, NEW r, RouterOk(n, r, place, s, k),
         NEW x, IsEdge(x), NEW t, t = WithOutward(r, x),
         \A l \in {x.primary, x.decaying} : l = NoLink \/ OutLink(n, l, place),
         ~r.proxying =>
           /\ x.decaying # NoLink => x.to \in Nat /\ x.to <= r.outbound.current
           /\ x.primary # NoLink => Loaded(r.outbound, s[End(n)])
  PROVE  /\ Ready(n, t, place, s, k) /\ t.outward = x /\ t.inward = r.inward
         /\ t.proxying = r.proxying /\ t.inbound = r.inbound
<1>1. Ready(n, r, place, s, k) /\ IsRouter(r)
  BY DEF RouterOk, Ready
<1>2. IsRouter(WithOutward(r, x)) /\ WithOutward(r, x).outward = x
      /\ WithOutward(r, x).inward = r.inward
  BY <1>1, WithEdge
<1>3. WithOutward(r, x).inbound = r.inbound /\ WithOutward(r, x).outbound = r.outbound
  BY <1>1, WithEdge
<1>4. WithOutward(r, x).proxying = r.proxying
  BY <1>1, WithEdge
<1>5. /\ IsRouter(t) /\ t.outward = x /\ t.inward = r.inward /\ t.inbound = r.inbound
      /\ t.outbound = r.outbound /\ t.proxying = r.proxying
  BY <1>2, <1>3, <1>4
<1>6. Ready(n, t, place, s, k)
  <2> HIDE DEF Loaded, Valid, OutLink
  <2>1. /\ t.proxying \in BOOLEAN /\ (t.proxying <=> n[2] < place[End(n)])
        /\ \A l \in {t.inward.primary, t.inward.decaying} : l = NoLink \/ l = Inner(n)
        /\ \A p \in t.inbound.buffer : Valid(p, s[Peer(End(n))])
        /\ t.proxying => \A p \in t.outbound.buffer : Valid(p, s[End(n)])
    BY <1>1, <1>5 DEF Ready
  <2>2. \A l \in {t.outward.primary, t.outward.decaying} : l = NoLink \/ OutLink(n, l, place)
    BY <1>5
  <2>3. ~t.proxying =>
          /\ t.inbound.current = k
          /\ t.outward.decaying # NoLink =>
               t.outward.to \in Nat /\ t.outward.to <= t.outbound.current
          /\ t.outward.primary # NoLink => Loaded(t.outbound, s[End(n)])
    BY <1>1, <1>5 DEF Ready
  <2> QED BY <1>5, <2>1, <2>2, <2>3 DEF Ready
<1> QED BY <1>5, <1>6

(* A router that waits for its bypass has one link, to its proxy.          *)
LEMMA WaitingEdge ==
  ASSUME NEW place, Inv(place), NEW n \in DOMAIN routers, bypass[n].state = "requested"
  PROVE  ~routers[n].outward.decays /\ ~IsCentral(routers[n].outward.primary)
<1>1. n \in Routers
  BY ThereFacts
<1>2. Waits(n, place)
  BY <1>1 DEF Inv, BypassOk
<1> QED BY <1>2, EdgeFacts, LinkFacts DEF Waits

(* A router is told to look at its queues again.                           *)
LEMMA FlushRouterKeeps ==
  ASSUME NEW place, Inv(place), NEW n, NEW m, NEW channels, Took(n, m, channels, place),
         NEW l, <<n, l>> \in owners,
         Proceed(n, Flush(n, Effect(routers[n]), TRUE, FALSE), channels, {}),
         UNCHANGED <<early, bypass>>
  PROVE  Inv(place)' /\ Delivered(n)
<1>1. UNCHANGED <<moves, sent>>
  BY DEF Took
<1>2. n \in DOMAIN routers
  BY OwnerIsThere
<1>3. Leaves(channels, place)
  BY TookLeaves
<1>4. Alone(n, place)
  BY <1>1, <1>2, AloneSame
<1>5. Ready(n, routers[n], place, sent', Len(received[End(n)]))
  BY <1>1, <1>2, ThereFacts DEF RouterOk
<1>6. PICK r : r = routers[n]
  OBVIOUS
<1>7. /\ Commit(n, Flush(n, Effect(r), TRUE, FALSE), channels, {})
      /\ Ready(n, r, place, sent', Len(received[End(n)]))
      /\ r.outward = routers[n].outward /\ r.inbound.final = routers[n].inbound.final
      /\ routers[n].proxying /\ routers[n].inward.primary = NoLink =>
           r.proxying /\ r.inward.primary = NoLink
  BY <1>5, <1>6 DEF Proceed
<1> HIDE <1>6
<1> QED BY <1>2, <1>3, <1>4, <1>7, ChangeKeeps

\* The edge x, which has been told what comes on the link it leaves.
SetFrom(x, length) == [x EXCEPT !.from = length]

LEMMA SetFromFacts ==
  ASSUME NEW x, IsEdge(x), NEW length
  PROVE  /\ IsEdge(SetFrom(x, length)) /\ SetFrom(x, length).primary = x.primary
         /\ SetFrom(x, length).decaying = x.decaying /\ SetFrom(x, length).to = x.to
<1>1. PICK p, d, g, t, f :
        x = [primary |-> p, decays |-> d, decaying |-> g, to |-> t, from |-> f]
  BY DEF IsEdge
<1>2. SetFrom(x, length) = [primary |-> p, decays |-> d, decaying |-> g, to |-> t, from |-> length]
  BY <1>1 DEF SetFrom
<1> QED BY <1>1, <1>2 DEF IsEdge

(* router_proxy_will_stop.                                                 *)
LEMMA ProxyWillStopKeeps ==
  ASSUME NEW place, Inv(place), NEW n, NEW m, NEW channels, Took(n, m, channels, place),
         <<n, m.link>> \in owners, OnProxyWillStop(n, m, channels), UNCHANGED <<early, bypass>>
  PROVE  Inv(place)' /\ Delivered(n)
<1> DEFINE r == routers[n]
           k == Len(received[End(n)])
<1>1. UNCHANGED <<moves, sent>>
  BY DEF Took
<1>2. n \in DOMAIN routers
  BY OwnerIsThere
<1>3. Leaves(channels, place)
  BY TookLeaves
<1>4. Alone(n, place)
  BY <1>1, <1>2, AloneSame
<1>5. RouterOk(n, r, place, sent', k)
  BY <1>1, <1>2, ThereFacts
<1>6. Ready(n, r, place, sent', k) /\ IsEdge(r.outward)
  BY <1>5 DEF RouterOk, Ready, IsRouter
<1>7. CASE ~(r.outward.decays /\ r.outward.from = None)
  <2>1. Fail("unexpected ProxyWillStop", channels)
    BY <1>7 DEF OnProxyWillStop
  <2>2. EarlyOk(early', place, sent')
    BY <1>1, EarlySame
  <2> QED BY <2>1, <2>2, NothingKeeps DEF Fail
<1>8. CASE r.outward.decays /\ r.outward.from = None
  <2>1. Commit(n, Flush(n, Effect([r EXCEPT !.outward.from = m.length]), FALSE, FALSE),
               channels, {})
    BY <1>8 DEF OnProxyWillStop, Proceed
  <2>2. PICK x : x = SetFrom(r.outward, m.length)
    OBVIOUS
  <2>3. /\ IsEdge(x) /\ x.primary = r.outward.primary /\ x.decaying = r.outward.decaying
        /\ x.to = r.outward.to
    BY <1>6, <2>2, SetFromFacts
  <2>4. PICK t : t = [r EXCEPT !.outward.from = m.length]
    OBVIOUS
  <2>5. t = WithOutward(r, x)
    BY <2>2, <2>4 DEF WithOutward, SetFrom
  <2>6. Commit(n, Flush(n, Effect(t), FALSE, FALSE), channels, {})
    BY <2>1, <2>4
  <2>7. bypass'[n].state # "requested"
    BY <1>2, <1>8, WaitingEdge
  <2> HIDE DEF r, k
  <2>8. /\ Ready(n, t, place, sent', k) /\ t.inward = r.inward /\ t.proxying = r.proxying
    <3>1. \A l \in {x.primary, x.decaying} : l = NoLink \/ OutLink(n, l, place)
      BY <1>6, <2>3 DEF Ready
    <3>2. ~r.proxying =>
            /\ x.decaying # NoLink => x.to \in Nat /\ x.to <= r.outbound.current
            /\ x.primary # NoLink => Loaded(r.outbound, sent'[End(n)])
      BY <1>6, <2>3 DEF Ready
    <3> QED BY <1>5, <2>3, <2>5, <3>1, <3>2, OutwardReady
  <2>9. /\ Ready(n, t, place, sent', Len(received[End(n)]))
        /\ routers[n].proxying /\ routers[n].inward.primary = NoLink =>
             t.proxying /\ t.inward.primary = NoLink
    BY <2>8 DEF r, k
  <2> QED BY <1>2, <1>3, <1>4, <2>6, <2>7, <2>9, ChangeKeeps
<1> QED BY <1>7, <1>8

(* router_stop_proxying.                                                   *)
LEMMA StopProxyingKeeps ==
  ASSUME NEW place, Inv(place), NEW n, NEW m, NEW channels, Took(n, m, channels, place),
         <<n, m.link>> \in owners, OnStopProxying(n, m, channels), UNCHANGED <<early, bypass>>
  PROVE  Inv(place)' /\ Delivered(n)
<1> DEFINE r == routers[n]
           k == Len(received[End(n)])
           guard == /\ r.outward.decays /\ r.proxying /\ r.inward.decays
                    /\ \A edge \in {r.inward, r.outward} : edge.to = None /\ edge.from = None
           stopping == [r EXCEPT !.inward = SetLengths(@, m.inbound, m.outbound),
                                 !.outward = SetLengths(@, m.outbound, m.inbound)]
<1>1. UNCHANGED <<moves, sent>>
  BY DEF Took
<1>2. n \in DOMAIN routers
  BY OwnerIsThere
<1>3. Leaves(channels, place)
  BY TookLeaves
<1>4. Alone(n, place)
  BY <1>1, <1>2, AloneSame
<1>5. RouterOk(n, r, place, sent', k)
  BY <1>1, <1>2, ThereFacts
<1>6. Ready(n, r, place, sent', k) /\ IsRouter(r) /\ IsEdge(r.outward) /\ IsEdge(r.inward)
  BY <1>5 DEF RouterOk, Ready, IsRouter
<1>7. CASE ~guard
  <2>1. Fail("unexpected StopProxying", channels)
    BY <1>7 DEF OnStopProxying
  <2>2. EarlyOk(early', place, sent')
    BY <1>1, EarlySame
  <2> QED BY <2>1, <2>2, NothingKeeps DEF Fail
<1>8. CASE guard
  <2>1. Commit(n, Flush(n, Effect(stopping), FALSE, FALSE), channels, {})
    BY <1>8 DEF OnStopProxying, Proceed
  <2>2. PICK x, y : /\ x = SetLengths(r.outward, m.outbound, m.inbound)
                    /\ y = SetLengths(r.inward, m.inbound, m.outbound)
    OBVIOUS
  <2>3. /\ IsEdge(x) /\ x.primary = r.outward.primary /\ x.decaying = r.outward.decaying
        /\ IsEdge(y) /\ y.primary = r.inward.primary /\ y.decaying = r.inward.decaying
    BY <1>6, <2>2, SetLengthsFacts
  <2>4. PICK t : t = stopping
    OBVIOUS
  <2>5. PICK u : u = WithInward(r, y)
    OBVIOUS
  <2>6. t = WithOutward(u, x)
    BY <2>2, <2>4, <2>5 DEF WithOutward, WithInward
  <2>7. Commit(n, Flush(n, Effect(t), FALSE, FALSE), channels, {})
    BY <2>1, <2>4
  <2>8. bypass'[n].state # "requested"
    BY <1>2, <1>8, WaitingEdge
  <2>9. r.proxying
    BY <1>8
  <2> HIDE DEF r, k, guard, stopping
  <2>10. /\ IsRouter(u) /\ u.inward = y /\ u.outward = r.outward /\ u.inbound = r.inbound
         /\ u.outbound = r.outbound /\ u.proxying = r.proxying
    <3>1. IsRouter(u) /\ u.inward = y
      <4>1. IsRouter(r) /\ IsEdge(y)
        BY <1>6, <2>3
      <4>2. IsRouter(WithInward(r, y))
        BY <4>1, WithEdge
      <4>3. WithInward(r, y).inward = y
        BY <4>1, WithEdge
      <4> QED BY <2>5, <4>2, <4>3
    <3>2. u.outward = r.outward /\ u.inbound = r.inbound
      BY <1>6, <2>3, <2>5, WithEdge
    <3>3. u.outbound = r.outbound
      BY <1>6, <2>3, <2>5, WithEdge
    <3>4. u.proxying = r.proxying
      BY <1>6, <2>3, <2>5, WithEdge
    <3> QED BY <3>1, <3>2, <3>3, <3>4
  <2>11. RouterOk(n, u, place, sent', k)
    <3>1. \A l \in {u.inward.primary, u.inward.decaying} : l = NoLink \/ l = Inner(n)
      BY <1>6, <2>3, <2>10 DEF Ready
    <3>2. /\ u.proxying \in BOOLEAN /\ (u.proxying <=> n[2] < place[End(n)])
          /\ \A l \in {u.outward.primary, u.outward.decaying} : l = NoLink \/ OutLink(n, l, place)
          /\ \A p \in u.inbound.buffer : Valid(p, sent'[Peer(End(n))])
          /\ \A p \in u.outbound.buffer : Valid(p, sent'[End(n)])
      BY <1>6, <2>9, <2>10 DEF Ready
    <3> QED BY <2>9, <2>10, <3>1, <3>2 DEF RouterOk, Ready
  <2>12. Ready(n, t, place, sent', k) /\ t.inward = u.inward /\ t.proxying = u.proxying
    <3>1. \A l \in {x.primary, x.decaying} : l = NoLink \/ OutLink(n, l, place)
      BY <1>6, <2>3 DEF Ready
    <3>2. ~u.proxying =>
            /\ x.decaying # NoLink => x.to \in Nat /\ x.to <= u.outbound.current
            /\ x.primary # NoLink => Loaded(u.outbound, sent'[End(n)])
      BY <2>9, <2>10
    <3> QED BY <2>3, <2>6, <2>11, <3>1, <3>2, OutwardReady
  <2>13. routers[n].proxying /\ routers[n].inward.primary = NoLink =>
           t.proxying /\ t.inward.primary = NoLink
    BY <2>3, <2>10, <2>12 DEF r
  <2>14. Ready(n, t, place, sent', Len(received[End(n)]))
    BY <2>12 DEF k
  <2> QED BY <1>2, <1>3, <1>4, <2>7, <2>8, <2>13, <2>14, ChangeKeeps
<1> QED BY <1>7, <1>8

LEMMA TwoMessages ==
  ASSUME NEW a, NEW b
  PROVE  IsSeq(<<a, b>>) /\ Len(<<a, b>>) = 2 /\ <<a, b>>[1] = a /\ <<a, b>>[2] = b
<1>1. <<a, b>> \in Seq({a, b})
  OBVIOUS
<1> QED BY <1>1, IsSeqOf

\* A change of the router to r, before which the messages s are sent.
EffectWith(r, s) == [Effect(r) EXCEPT !.sends = s]

LEMMA SendsFacts ==
  ASSUME NEW r, NEW s, NEW e, e = EffectWith(r, s)
  PROVE  /\ e = [router |-> e.router, removed |-> FALSE, words |-> e.words,
                 sends |-> e.sends, taken |-> <<>>]
         /\ e.router = r /\ e.sends = s
<1>1. PICK y, w, z : y = FALSE /\ w = words /\ z = <<>>
  OBVIOUS
<1>2. Effect(r) = [router |-> r, removed |-> y, words |-> w, sends |-> z, taken |-> z]
  BY <1>1 DEF Effect
<1>3. e = [router |-> r, removed |-> y, words |-> w, sends |-> s, taken |-> z]
  BY <1>2 DEF EffectWith
<1>4. e.router = r /\ e.sends = s /\ e.words = w
  BY <1>3
<1> QED BY <1>1, <1>3, <1>4

(* on_accept_bypass_link.                                                  *)
LEMMA AcceptBypassLinkKeeps ==
  ASSUME NEW place, Inv(place), NEW n, NEW m, NEW channels, Took(n, m, channels, place),
         m.type = "AcceptBypassLink", NEW o, <<n, o>> \in owners,
         OnAcceptBypassLink(n, m, channels), UNCHANGED <<early, bypass>>
  PROVE  Inv(place)' /\ Delivered(n)
<1> DEFINE r == routers[n]
           k == Len(received[End(n)])
           old == r.outward.primary
           length == r.outbound.current
           guard == /\ IsCentral(old) /\ DecayAllowed(r.outward)
                    /\ words[old].source = Across(n, m.link)
           moved == [r EXCEPT !.outward =
                       SetPrimaryLink(SetLengths(BeginPrimaryLinkDecay(@), length, m.length),
                                      m.link)]
           stop == [type |-> "StopProxying", link |-> old,
                    inbound |-> length, outbound |-> m.length]
           will == [type |-> "ProxyWillStop", link |-> m.link, length |-> length]
<1>1. /\ n \in Routers /\ MsgOk(n, m, place, sent) /\ UNCHANGED <<moves, sent>>
  BY DEF Took
<1>2. n \in DOMAIN routers
  BY OwnerIsThere
<1>3. Leaves(channels, place)
  BY TookLeaves
<1>4. Alone(n, place)
  BY <1>1, <1>2, AloneSame
<1>5. RouterOk(n, r, place, sent', k)
  BY <1>1, <1>2, ThereFacts
<1>6. Ready(n, r, place, sent', k) /\ IsEdge(r.outward) /\ length \in Nat
  BY <1>5 DEF RouterOk, Ready, IsRouter, IsQueue
<1>7. OutLink(n, m.link, place) /\ m.link # NoLink
  BY <1>1, OutLinkFacts DEF MsgOk
<1>8. CASE old = NoLink \/ ~guard
  <2>1. Ignore(channels) \/ Fail("unauthorized bypass", channels)
    BY <1>8, LinkFacts DEF OnAcceptBypassLink
  <2>2. EarlyOk(early', place, sent')
    BY <1>1, EarlySame
  <2> QED BY <2>1, <2>2, NothingKeeps DEF Ignore, Fail
<1>9. CASE old # NoLink /\ guard
  <2>1. Commit(n, Flush(n, [Effect(moved) EXCEPT !.sends = <<stop, will>>], FALSE, FALSE),
               channels, {m.link})
    BY <1>9 DEF OnAcceptBypassLink, Proceed
  <2>2. PICK a, b : a = stop /\ b = will
    OBVIOUS
  <2>3. /\ a.type = "StopProxying" /\ a.link = old
        /\ b.type = "ProxyWillStop" /\ b.link = m.link
    BY <2>2
  <2>4. PICK t : t = moved
    OBVIOUS
  <2>5. PICK e, s : s = <<a, b>> /\ e = EffectWith(t, s)
    OBVIOUS
  <2>6. Commit(n, Flush(n, e, FALSE, FALSE), channels, {m.link})
    BY <2>1, <2>2, <2>4, <2>5 DEF EffectWith
  <2>7. /\ e = [router |-> e.router, removed |-> FALSE, words |-> e.words,
                sends |-> e.sends, taken |-> <<>>]
        /\ e.router = t /\ e.sends = <<a, b>>
    <3>1. e = EffectWith(t, s)
      BY <2>5
    <3>2. e = [router |-> e.router, removed |-> FALSE, words |-> e.words,
               sends |-> e.sends, taken |-> <<>>]
      BY <3>1, SendsFacts
    <3>3. e.router = t /\ e.sends = s
      BY <3>1, SendsFacts
    <3> QED BY <2>5, <3>2, <3>3
  <2>8. PICK d : d = BeginPrimaryLinkDecay(r.outward)
    OBVIOUS
  <2>9. IsEdge(d) /\ d.primary = NoLink /\ d.decays = TRUE /\ d.decaying = old
    BY <1>6, <1>9, <2>8, BeginFacts DEF DecayAllowed
  <2>10. PICK x : x = SetPrimaryLink(SetLengths(d, length, m.length), m.link)
    OBVIOUS
  <2>11. t = WithOutward(r, x)
    BY <2>4, <2>8, <2>10 DEF WithOutward
  <2>12. bypass'[n].state # "requested"
    BY <1>2, <1>9, WaitingEdge
  <2>13. old # NoLink
    BY <1>9
  <2>14. OutLink(n, old, place)
    BY <1>6, <1>9 DEF Ready
  <2>15. r.outward.primary # NoLink
    BY <1>9
  <2> HIDE DEF stop, will, moved, guard, k
  <2>16. /\ IsEdge(x) /\ x.primary = m.link /\ x.decaying = old /\ x.to = length
    <3>1. PICK l : l = length
      OBVIOUS
    <3>2. PICK w : w = SetLengths(d, l, m.length)
      OBVIOUS
    <3>3. IsEdge(w) /\ w.to = l /\ w.primary = NoLink /\ w.decays = TRUE /\ w.decaying = old
      BY <2>9, <3>2, SetLengthsFacts
    <3>4. x = SetPrimaryLink(w, m.link)
      BY <2>10, <3>1, <3>2
    <3> HIDE DEF old, length, r
    <3> QED BY <2>13, <3>1, <3>3, <3>4, SetPrimaryFacts
  <2>17. /\ Ready(n, t, place, sent', k) /\ t.inward = r.inward /\ t.proxying = r.proxying
    <3>1. \A l \in {x.primary, x.decaying} : l = NoLink \/ OutLink(n, l, place)
      BY <1>7, <2>14, <2>16
    <3>2. ~r.proxying =>
            /\ x.decaying # NoLink => x.to \in Nat /\ x.to <= r.outbound.current
            /\ x.primary # NoLink => Loaded(r.outbound, sent'[End(n)])
      BY <1>6, <2>15, <2>16 DEF Ready
    <3> HIDE DEF r
    <3> QED BY <1>5, <2>11, <2>16, <3>1, <3>2, OutwardReady
  <2>18. Notices(n, e.sends, place)
    <3>1. IsSeq(<<a, b>>) /\ Len(<<a, b>>) = 2 /\ <<a, b>>[1] = a /\ <<a, b>>[2] = b
      BY TwoMessages
    <3>2. SendOk(n, a, place, sent') /\ ~IsDescriptor(a) /\ a.type # "RouteClosed"
      BY <2>3, <2>14 DEF SendOk, IsDescriptor
    <3>3. SendOk(n, b, place, sent') /\ ~IsDescriptor(b) /\ b.type # "RouteClosed"
      BY <1>7, <2>3 DEF SendOk, IsDescriptor
    <3>4. \A i \in 1 .. 2 : i = 1 \/ i = 2
      OBVIOUS
    <3> QED BY <2>7, <3>1, <3>2, <3>3, <3>4 DEF Notices
  <2>19. /\ Ready(n, e.router, place, sent', Len(received[End(n)]))
         /\ routers[n].proxying /\ routers[n].inward.primary = NoLink =>
              e.router.proxying /\ e.router.inward.primary = NoLink
    BY <2>7, <2>17 DEF k
  <2> QED BY <1>2, <1>3, <1>4, <2>6, <2>7, <2>12, <2>18, <2>19, FlushKeeps
<1> QED BY <1>8, <1>9

-----------------------------------------------------------------------------
(* Descriptors and bypasses.                                               *)

\* The effect e with the router r.
WithRouter(e, r) == [e EXCEPT !.router = r]

LEMMA WithRouterShape ==
  ASSUME NEW e, IsEffect(e), NEW r, IsRouter(r), NEW f, f = WithRouter(e, r)
  PROVE  /\ IsEffect(f) /\ f.router = r /\ f.removed = e.removed /\ f.words = e.words
         /\ f.sends = e.sends /\ f.taken = e.taken
<1>1. PICK q, rm, w, s, t :
        e = [router |-> q, removed |-> rm, words |-> w, sends |-> s, taken |-> t]
  BY DEF IsEffect
<1>2. IsSeq(s) /\ IsSeq(t)
  BY <1>1 DEF IsEffect
<1>3. f = [router |-> r, removed |-> rm, words |-> w, sends |-> s, taken |-> t]
  BY <1>1 DEF WithRouter
<1>4. /\ IsEffect(f) /\ f.router = r /\ f.removed = rm /\ f.words = w
      /\ f.sends = s /\ f.taken = t
  BY <1>2, <1>3, EffectShape
<1> QED BY <1>1, <1>4

(* A parcel that came before the descriptor.                               *)
LEMMA WithEarlyParcelOk ==
  ASSUME NEW n \in Routers, NEW c, Given(c), NEW e, EffectOk(n, e, c),
         NEW p, Valid(p, c.sent[Peer(End(n))])
  PROVE  EffectOk(n, WithEarlyParcel(n, e, p), c)
<1> DEFINE r == e.router
           k == c.got + Len(e.taken)
<1>1. EffectFor(n, e, c) /\ RouterOk(n, r, c.place, c.sent, k) /\ IsEffect(e)
  BY DEF EffectOk, EffectFor
<1>2. PICK v : v = [seq |-> p.seq, body |-> p.body]
  OBVIOUS
<1>3. Valid(v, c.sent[Peer(End(n))])
  BY <1>2 DEF Valid
<1>4. PICK t : t = WithInbound(r, Push(r.inbound, v))
  OBVIOUS
<1>5. PICK f : f = WithRouter(e, t)
  OBVIOUS
<1>6. WithEarlyParcel(n, e, p) = Flush(n, f, FALSE, FALSE)
  BY <1>2, <1>4, <1>5 DEF WithEarlyParcel, WithRouter, WithInbound
<1> HIDE DEF r, k
<1>7. Ready(n, t, c.place, c.sent, k)
  BY <1>1, <1>3, <1>4, PushInboundReady
<1>8. t.outward = r.outward /\ t.inward = r.inward
  BY <1>1, <1>3, <1>4, PushInboundReady
<1>9. t.proxying = r.proxying
  BY <1>1, <1>3, <1>4, PushInboundReady
<1>10. t.inbound.final = r.inbound.final
  BY <1>1, <1>3, <1>4, PushInboundReady
<1>11. IsRouter(t)
  BY <1>7 DEF Ready
<1>12. /\ IsEffect(f) /\ f.router = t /\ f.removed = e.removed
       /\ f.sends = e.sends /\ f.taken = e.taken
  BY <1>1, <1>5, <1>11, WithRouterShape
<1>13. EffectFor(n, f, c)
  BY <1>1, <1>8, <1>9, <1>10, <1>12 DEF EffectFor, r
<1>14. Ready(n, f.router, c.place, c.sent, c.got + Len(f.taken))
  BY <1>7, <1>12 DEF k
<1>15. EffectReady(n, f, c)
  BY <1>13, <1>14 DEF EffectReady
<1>16. EffectOk(n, Flush(n, f, FALSE, FALSE), c)
  BY <1>15, FlushOk
<1> QED BY <1>6, <1>16

LEMMA WithEarlyParcelsOk ==
  ASSUME NEW n \in Routers, NEW c, Given(c), NEW e, EffectOk(n, e, c),
         IsSeq(early[n]),
         \A i \in 1 .. Len(early[n]) : Valid(early[n][i], c.sent[Peer(End(n))])
  PROVE  EffectOk(n, WithEarlyParcels(n, e), c)
<1> DEFINE N == Len(early[n])
           Next1(x, i) == WithEarlyParcel(n, x, early[n][i])
           Is(f, k) == f = [i \in 0 .. k |-> IF i = 0 THEN e ELSE Next1(f[i - 1], i)]
           after == CHOOSE f : Is(f, N)
           Fine(x) == EffectOk(n, x, c)
<1>1. WithEarlyParcels(n, e) = after[N]
  BY DEF WithEarlyParcels
<1>2. N \in Nat
  BY DEF IsSeq
<1>3. \A x : \A i \in 1 .. N : Fine(x) => Fine(Next1(x, i))
  BY WithEarlyParcelOk
<1>4. Fine(e)
  OBVIOUS
<1> HIDE DEF Next1, Fine
<1>5. \A k \in Nat : \E f : Is(f, k)
  <2> DEFINE T == {k \in Nat : ~\E f : Is(f, k)}
  <2>1. SUFFICES ASSUME T # {} PROVE FALSE
    OBVIOUS
  <2>2. PICK k \in T : \A j \in T : k <= j
    BY <2>1, LeastNumber
  <2>3. CASE k = 0
    <3> DEFINE f == [i \in 0 .. 0 |-> e]
    <3>1. Is(f, 0)
      OBVIOUS
    <3> QED BY <2>2, <2>3, <3>1
  <2>4. CASE k # 0
    <3>0. k \in Nat
      BY <2>2
    <3>1. k \in Nat /\ k - 1 \in Nat /\ (k - 1) + 1 = k /\ ~(k <= k - 1)
      BY <2>4, <3>0
    <3>a. k - 1 \notin T
      <4> HIDE DEF T
      <4> QED BY <2>2, <3>1
    <3>2. PICK f : Is(f, k - 1)
      BY <3>1, <3>a
    <3> DEFINE h == [i \in 0 .. k |-> IF i = k THEN Next1(f[k - 1], k) ELSE f[i]]
    <3>3. \A i \in 0 .. k - 1 : h[i] = f[i] /\ i # k /\ i \in 0 .. k
      BY <3>1
    <3>4. h[k] = Next1(f[k - 1], k)
      BY <3>1
    <3>5. ASSUME NEW i \in 0 .. k PROVE h[i] = IF i = 0 THEN e ELSE Next1(h[i - 1], i)
      <4>1. CASE i = k
        <5>1. k - 1 \in 0 .. k - 1
          BY <3>1
        <5>2. h[k - 1] = f[k - 1]
          BY <3>3, <5>1
        <5> QED BY <2>4, <3>4, <4>1, <5>2
      <4>2. CASE i # k
        <5>1. i \in 0 .. k - 1
          BY <3>1, <4>2
        <5>2. h[i] = f[i] /\ f[i] = IF i = 0 THEN e ELSE Next1(f[i - 1], i)
          BY <3>2, <3>3, <5>1
        <5>3. i # 0 => i - 1 \in 0 .. k - 1
          BY <3>1, <5>1
        <5>4. i # 0 => h[i - 1] = f[i - 1]
          BY <3>3, <5>3
        <5> QED BY <5>2, <5>4
      <4> QED BY <4>1, <4>2
    <3>6. h = [i \in 0 .. k |-> h[i]]
      OBVIOUS
    <3> HIDE DEF h
    <3>7. Is(h, k)
      BY <3>5, <3>6
    <3> QED BY <2>2, <3>7
  <2> QED BY <2>3, <2>4
<1>6. Is(after, N)
  BY <1>2, <1>5
<1>7. Fine(after[N])
  <2> HIDE DEF after
  <2> DEFINE T == {k \in 0 .. N : ~Fine(after[k])}
  <2>1. SUFFICES ASSUME T # {} PROVE FALSE
    BY <1>2
  <2>2. T \in SUBSET Nat
    BY <1>2
  <2>3. PICK k \in T : \A j \in T : k <= j
    <3> HIDE DEF T
    <3> QED BY <2>1, <2>2, LeastNumber
  <2>4. k \in 0 .. N /\ ~Fine(after[k])
    BY <2>3
  <2>5. after[k] = IF k = 0 THEN e ELSE Next1(after[k - 1], k)
    BY <1>6, <2>4
  <2>6. k # 0
    BY <1>4, <2>4, <2>5
  <2>7. k \in 1 .. N /\ k - 1 \in 0 .. N /\ ~(k <= k - 1)
    BY <1>2, <2>4, <2>6
  <2>8. Fine(after[k - 1])
    BY <2>3, <2>7
  <2> QED BY <1>3, <2>4, <2>5, <2>6, <2>7, <2>8
<1> QED BY <1>1, <1>7 DEF Fine

\* The same context.
Like(c, d) ==
  /\ d.place = c.place /\ d.sent = c.sent /\ d.got = c.got
  /\ d.hush = c.hush /\ d.described = c.described /\ d.head = c.head

(* Who waits for its bypass promises more.                                 *)
LEMMA CalmDown ==
  ASSUME NEW n, NEW e, NEW c, EffectOk(n, e, c), NEW d, Like(c, d), ~d.calm
  PROVE  EffectOk(n, e, d)
<1>1. /\ d.place = c.place /\ d.sent = c.sent /\ d.got = c.got
      /\ d.hush = c.hush /\ d.described = c.described /\ d.head = c.head
  BY DEF Like
<1>2. SendsFor(n, e.sends, d)
  BY <1>1 DEF EffectOk, EffectFor, SendsFor, SendFor
<1>3. RouterOk(n, e.router, d.place, d.sent, d.got + Len(e.taken))
  BY <1>1 DEF EffectOk
<1>4. EffectFor(n, e, d)
  BY <1>1, <1>2 DEF EffectOk, EffectFor
<1> QED BY <1>3, <1>4 DEF EffectOk

LEMMA CalmContext ==
  ASSUME NEW c
  PROVE  \E d : Like(c, d) /\ Like(d, c) /\ d.calm
<1>1. PICK t : t = TRUE
  OBVIOUS
<1>2. PICK d : d = [place |-> c.place, sent |-> c.sent, got |-> c.got, calm |-> t,
                    hush |-> c.hush, described |-> c.described, head |-> c.head]
  OBVIOUS
<1>3. Like(c, d) /\ Like(d, c) /\ d.calm = t
  BY <1>2 DEF Like
<1> QED BY <1>1, <1>3

\* The edge x, which leaves a link after `length` parcels.
SetTo(x, length) == [x EXCEPT !.to = length]

LEMMA SetToFacts ==
  ASSUME NEW x, IsEdge(x), NEW length
  PROVE  /\ IsEdge(SetTo(x, length)) /\ SetTo(x, length).primary = x.primary
         /\ SetTo(x, length).decays = x.decays
         /\ SetTo(x, length).decaying = x.decaying /\ SetTo(x, length).to = length
<1>1. PICK p, d, g, t, f :
        x = [primary |-> p, decays |-> d, decaying |-> g, to |-> t, from |-> f]
  BY DEF IsEdge
<1>2. SetTo(x, length) = [primary |-> p, decays |-> d, decaying |-> g, to |-> length, from |-> f]
  BY <1>1 DEF SetTo
<1> QED BY <1>1, <1>2 DEF IsEdge

\* The effect e with a router, link states and a further message.
Offering(e, r, ws, m) ==
  [e EXCEPT !.router = r, !.words = ws, !.sends = Append(@, m)]

LEMMA OfferingShape ==
  ASSUME NEW e, IsEffect(e), NEW r, IsRouter(r), NEW ws, NEW m, NEW f, f = Offering(e, r, ws, m)
  PROVE  /\ IsEffect(f) /\ f.router = r /\ f.removed = e.removed
         /\ f.sends = Append(e.sends, m) /\ f.taken = e.taken
<1>1. PICK q, rm, w, s, t :
        e = [router |-> q, removed |-> rm, words |-> w, sends |-> s, taken |-> t]
  BY DEF IsEffect
<1>2. IsSeq(s) /\ IsSeq(t)
  BY <1>1 DEF IsEffect
<1>3. PICK a : a = Append(s, m)
  OBVIOUS
<1>4. IsSeq(a)
  BY <1>2, <1>3, AppendSeq
<1> DEFINE x == [e EXCEPT !.router = r]
           y == [x EXCEPT !.words = ws]
<1>5. x = [router |-> r, removed |-> rm, words |-> w, sends |-> s, taken |-> t]
  BY <1>1
<1>6. f = [y EXCEPT !.sends = a]
  BY <1>1, <1>3 DEF Offering
<1>7. y = [x EXCEPT !.words = ws]
  OBVIOUS
<1> HIDE DEF x, y
<1>8. y = [router |-> r, removed |-> rm, words |-> ws, sends |-> s, taken |-> t]
  BY <1>5, <1>7
<1>9. f = [router |-> r, removed |-> rm, words |-> ws, sends |-> a, taken |-> t]
  BY <1>6, <1>8
<1>10. /\ IsEffect(f) /\ f.router = r /\ f.removed = rm /\ f.sends = a /\ f.taken = t
  BY <1>2, <1>4, <1>9, EffectShape
<1> QED BY <1>1, <1>3, <1>10

(* The new link leads to the router across the link of the proxy.          *)
LEMMA NewLinkFacts ==
  ASSUME NEW place, NEW n \in Places(place), n[2] > 0, NEW old,
         OutLink(Pred(n), old, place), IsCentral(old)
  PROVE  OutLink(n, NewLink(n, old), place) /\ IsCentral(NewLink(n, old))
<1>1. n \in Routers
  BY DEF Places
<1>2. PICK p : p = Pred(n)
  OBVIOUS
<1>3. End(p) = End(n)
  BY <1>1, <1>2, RouterFacts
<1>4. OutLink(p, old, place)
  BY <1>2
<1>5. /\ old.a \in Places(place) /\ old.b \in Places(place) /\ End(old.a) # End(old.b)
      /\ p \in {old.a, old.b}
  BY <1>4, LinkFacts DEF OutLink
<1>6. PICK b : b = Across(p, old)
  OBVIOUS
<1>7. b \in Places(place) /\ End(b) # End(p)
  BY <1>5, <1>6 DEF Across
<1>8. NewLink(n, old) = [kind |-> "central", a |-> n, b |-> b]
  BY <1>2, <1>6 DEF NewLink, Link, Pred
<1> QED BY <1>3, <1>7, <1>8 DEF OutLink, IsCentral

(* bypass_peer_with_new_remote_link.                                       *)
LEMMA BypassPeerOk ==
  ASSUME NEW n \in Routers, NEW c, Given(c), n \in Places(c.place),
         NEW e, EffectOk(n, e, c), ~c.calm,
         n[2] > 0, e.router.outward = EdgeOn(Inner(Pred(n))),
         NEW old, OutLink(Pred(n), old, c.place), IsCentral(old)
  PROVE  EffectOk(n, BypassPeer(n, e, old), c)
<1> DEFINE r == e.router
           k == c.got + Len(e.taken)
<1>1. EffectFor(n, e, c) /\ RouterOk(n, r, c.place, c.sent, k) /\ IsEffect(e)
  BY DEF EffectOk, EffectFor
<1>2. Ready(n, r, c.place, c.sent, k) /\ IsEdge(r.outward) /\ r.outbound.current \in Nat
  BY <1>1 DEF RouterOk, Ready, IsRouter, IsQueue
<1>3. PICK link, length, inner :
        link = NewLink(n, old) /\ length = r.outbound.current /\ inner = Inner(Pred(n))
  OBVIOUS
<1>4. OutLink(n, link, c.place) /\ IsCentral(link)
  BY <1>3, NewLinkFacts
<1>5. PICK offer :
        offer = [type |-> "AcceptBypassLink", link |-> link, old |-> old, length |-> length]
  OBVIOUS
<1>6. offer.type = "AcceptBypassLink" /\ offer.link = link
  BY <1>5
<1>7. NewSend(n, offer, c)
  BY <1>4, <1>6 DEF NewSend, SendOk, IsDescriptor
<1>8. inner # NoLink /\ OutLink(n, inner, c.place)
  BY <1>3, LinkFacts DEF OutLink
<1>9. /\ r.outward.primary = inner /\ ~r.outward.decays
  BY <1>3, EdgeFacts
<1>10. PICK d : d = BeginPrimaryLinkDecay(r.outward)
  OBVIOUS
<1>11. IsEdge(d) /\ d.primary = NoLink /\ d.decays = TRUE /\ d.decaying = inner
  BY <1>2, <1>9, <1>10, BeginFacts
<1>12. PICK w : w = SetTo(d, length)
  OBVIOUS
<1>13. IsEdge(w) /\ w.primary = NoLink /\ w.decays = TRUE /\ w.decaying = inner /\ w.to = length
  BY <1>11, <1>12, SetToFacts
<1>14. PICK x : x = SetPrimaryLink(w, link)
  OBVIOUS
<1>15. IsEdge(x) /\ x.primary = link /\ x.decaying = inner /\ x.to = length
  BY <1>8, <1>13, <1>14, SetPrimaryFacts
<1>16. PICK t : t = WithOutward(r, x)
  OBVIOUS
<1>17. PICK ws : ws = With(e.words, link, Fresh({}))
  OBVIOUS
<1>18. PICK f : f = Offering(e, t, ws, offer)
  OBVIOUS
<1>19. BypassPeer(n, e, old) = Flush(n, f, TRUE, FALSE)
  BY <1>3, <1>5, <1>10, <1>12, <1>14, <1>16, <1>17, <1>18
    DEF BypassPeer, Offering, WithOutward, SetTo
<1>20. r.outward.primary # NoLink /\ length = r.outbound.current
  BY <1>3, <1>8, <1>9
<1> HIDE DEF r, k
<1>21. /\ Ready(n, t, c.place, c.sent, k) /\ t.outward = x /\ t.inward = r.inward
       /\ t.proxying = r.proxying /\ t.inbound = r.inbound
  <2>1. \A l \in {x.primary, x.decaying} : l = NoLink \/ OutLink(n, l, c.place)
    BY <1>4, <1>8, <1>15
  <2>2. ~r.proxying =>
          /\ x.decaying # NoLink => x.to \in Nat /\ x.to <= r.outbound.current
          /\ x.primary # NoLink => Loaded(r.outbound, c.sent[End(n)])
    BY <1>2, <1>15, <1>20 DEF Ready
  <2> QED BY <1>1, <1>15, <1>16, <2>1, <2>2, OutwardReady
<1>22. IsRouter(t)
  BY <1>21 DEF Ready
<1>23. /\ IsEffect(f) /\ f.router = t /\ f.removed = e.removed
       /\ f.sends = Append(e.sends, offer) /\ f.taken = e.taken
  BY <1>1, <1>18, <1>22, OfferingShape
<1>24. SendsFor(n, f.sends, c)
  <2>1. SendsFor(n, e.sends, c)
    BY <1>1 DEF EffectFor
  <2> QED BY <1>7, <1>23, <2>1, SendsAppend
<1>25. EffectFor(n, f, c)
  <2>1. /\ \A i \in 1 .. Len(f.taken) :
             f.taken[i].body = c.got + i /\ c.got + i <= c.sent[Peer(End(n))]
        /\ f.router.proxying => Len(f.taken) = 0
        /\ c.hush => f.router.proxying /\ f.router.inward.primary = NoLink
    BY <1>1, <1>21, <1>23 DEF EffectFor, r
  <2> QED BY <1>23, <1>24, <2>1 DEF EffectFor
<1>26. Ready(n, f.router, c.place, c.sent, c.got + Len(f.taken))
  BY <1>21, <1>23 DEF k
<1>27. EffectReady(n, f, c)
  BY <1>25, <1>26 DEF EffectReady
<1>28. EffectOk(n, Flush(n, f, TRUE, FALSE), c)
  BY <1>27, FlushOk
<1> QED BY <1>19, <1>28

LEMMA QueueShape ==
  ASSUME NEW k \in Nat, NEW final
  PROVE  /\ IsQueue(Queue(k, final)) /\ Queue(k, final).current = k
         /\ Queue(k, final).final = final /\ Queue(k, final).buffer = {}
<1>1. IsFiniteSet({})
  BY FS_EmptySet
<1> QED BY <1>1 DEF Queue, IsQueue

(* router_deserialize, before the parcels that came early.                 *)
LEMMA DeserializedFacts ==
  ASSUME NEW m, m.incoming \in Nat, m.outgoing \in Nat
  PROVE  LET r == Deserialized(m).router IN
         /\ IsRouter(r) /\ r.outward = EdgeOn(m.link) /\ r.inward = Bare /\ r.proxying = FALSE
         /\ r.inbound.current = m.incoming /\ r.inbound.buffer = {}
         /\ ~m.peerClosed => r.inbound.final = None
         /\ r.outbound.current = m.outgoing /\ r.outbound.buffer = {}
         /\ Deserialized(m) = Effect(r)
<1>1. PICK l, k, j, z : l = m.link /\ k = m.incoming /\ j = m.outgoing /\ z = m.peerClosed
  OBVIOUS
<1>2. PICK final : final = IF m.peerClosed THEN m.closedLength ELSE None
  OBVIOUS
<1>3. ~m.peerClosed => final = None
  BY <1>2
<1>4. PICK a, b, o, i, y, q : /\ a = Queue(k, final) /\ b = Queue(j, None)
                             /\ o = EdgeOn(l) /\ i = Bare /\ y = FALSE /\ q = Queue(0, None)
  OBVIOUS
<1>5. /\ IsQueue(a) /\ a.current = k /\ a.final = final /\ a.buffer = {}
      /\ IsQueue(b) /\ b.current = j /\ b.buffer = {}
  <2>1. k \in Nat /\ j \in Nat
    BY <1>1
  <2> QED BY <1>4, <2>1, QueueShape
<1>6. IsEdge(o) /\ IsEdge(i)
  BY <1>4, EdgeFacts DEF Bare
<1>7. NewTerminal(l) = [outward |-> o, inward |-> i, proxying |-> y,
                        inbound |-> q, outbound |-> q, peerClosed |-> y]
  BY <1>4 DEF NewTerminal
<1> DEFINE t1 == [NewTerminal(l) EXCEPT !.outbound = b]
           t2 == [t1 EXCEPT !.inbound = a]
           t == [t2 EXCEPT !.peerClosed = z]
<1>8. Deserialized(m) = Effect(t)
  BY <1>1, <1>2, <1>4 DEF Deserialized
<1>9. t1 = [outward |-> o, inward |-> i, proxying |-> y,
            inbound |-> q, outbound |-> b, peerClosed |-> y]
  BY <1>7
<1> HIDE DEF t1
<1>10. t2 = [outward |-> o, inward |-> i, proxying |-> y,
             inbound |-> a, outbound |-> b, peerClosed |-> y]
  BY <1>9
<1> HIDE DEF t2
<1>11. t = [outward |-> o, inward |-> i, proxying |-> y,
            inbound |-> a, outbound |-> b, peerClosed |-> z]
  BY <1>10
<1> HIDE DEF t
<1>12. /\ IsRouter(t) /\ t.outward = o /\ t.inward = i /\ t.proxying = y
       /\ t.inbound = a /\ t.outbound = b
  BY <1>5, <1>6, <1>11, RouterShape
<1>13. Deserialized(m).router = t
  BY <1>8, EffectFacts
<1>14. /\ t.outward = EdgeOn(m.link) /\ t.inward = Bare /\ t.proxying = FALSE
       /\ t.inbound.current = m.incoming /\ t.inbound.buffer = {}
       /\ ~m.peerClosed => t.inbound.final = None
       /\ t.outbound.current = m.outgoing /\ t.outbound.buffer = {}
  <2>1. t.outward = EdgeOn(m.link) /\ t.inward = Bare /\ t.proxying = FALSE
    BY <1>1, <1>4, <1>12
  <2>2. /\ t.inbound.current = m.incoming /\ t.inbound.buffer = {}
        /\ ~m.peerClosed => t.inbound.final = None
    BY <1>1, <1>3, <1>5, <1>12
  <2>3. t.outbound.current = m.outgoing /\ t.outbound.buffer = {}
    BY <1>1, <1>5, <1>12
  <2> QED BY <2>1, <2>2, <2>3
<1> QED BY <1>8, <1>12, <1>13, <1>14

LEMMA DeserializedOk ==
  ASSUME NEW n \in Routers, NEW c, Given(c), n[2] > 0, n[2] = c.place[End(n)],
         NEW m, m.link = Inner(Pred(n)), m.incoming = c.got, m.outgoing = c.sent[End(n)],
         ~c.hush, c.calm => ~m.peerClosed
  PROVE  EffectOk(n, Deserialized(m), c)
<1>1. PICK e : e = Deserialized(m)
  OBVIOUS
<1>2. PICK r : r = e.router
  OBVIOUS
<1>3. c.got \in Nat /\ c.sent[End(n)] \in Nat /\ End(n) \in Ends /\ n[2] \in Nat
  BY RouterFacts DEF Given
<1>4. m.incoming \in Nat /\ m.outgoing \in Nat
  BY <1>3
<1>5. /\ IsRouter(r) /\ r.outward = EdgeOn(m.link) /\ r.inward = Bare /\ r.proxying = FALSE
      /\ r.inbound.current = m.incoming /\ r.inbound.buffer = {}
      /\ ~m.peerClosed => r.inbound.final = None
      /\ r.outbound.current = m.outgoing /\ r.outbound.buffer = {}
      /\ e = Effect(r)
  BY <1>1, <1>2, <1>4, DeserializedFacts
<1>6. /\ e = [router |-> e.router, removed |-> FALSE, words |-> e.words,
              sends |-> e.sends, taken |-> <<>>]
      /\ e.router = r /\ e.sends = <<>> /\ e.removed = FALSE /\ e.taken = <<>>
  BY <1>5, EffectFacts
<1>7. IsSeq(e.sends) /\ Len(e.sends) = 0 /\ IsSeq(e.taken) /\ Len(e.taken) = 0
  BY <1>6, EmptySeq
<1>8. IsEffect(e)
  BY <1>5, <1>6, <1>7 DEF IsEffect
<1>9. /\ r.outward.primary = m.link /\ r.outward.decaying = NoLink
      /\ r.inward.primary = NoLink /\ r.inward.decaying = NoLink
  BY <1>5, EdgeFacts DEF Bare
<1>10. OutLink(n, m.link, c.place)
  BY DEF OutLink
<1>11. Loaded(r.outbound, c.sent[End(n)])
  BY <1>3, <1>5 DEF Loaded
<1>12. c.got + Len(e.taken) = c.got
  BY <1>3, <1>7
<1>13. ~(n[2] < c.place[End(n)]) /\ ~r.proxying /\ r.proxying \in BOOLEAN
  <2>1. r.proxying = FALSE
    BY <1>5
  <2>2. ~(n[2] < c.place[End(n)])
    BY <1>3
  <2> QED BY <2>1, <2>2
<1>14. Ready(n, r, c.place, c.sent, c.got)
  <2>1. \A l \in {r.outward.primary, r.outward.decaying} : l = NoLink \/ OutLink(n, l, c.place)
    BY <1>9, <1>10
  <2>2. \A l \in {r.inward.primary, r.inward.decaying} : l = NoLink \/ l = Inner(n)
    BY <1>9
  <2>3. \A p \in r.inbound.buffer : Valid(p, c.sent[Peer(End(n))])
    BY <1>5
  <2> QED BY <1>5, <1>9, <1>11, <1>13, <2>1, <2>2, <2>3 DEF Ready
<1>15. RouterOk(n, e.router, c.place, c.sent, c.got + Len(e.taken))
  BY <1>5, <1>6, <1>12, <1>14 DEF RouterOk
<1>16. SendsFor(n, e.sends, c)
  BY <1>7 DEF SendsFor
<1>17. c.calm =>
         /\ n[2] > 0 /\ e.router.outward = EdgeOn(Inner(Pred(n)))
         /\ e.router.inbound.final = None /\ ~e.removed
  BY <1>5, <1>6
<1>18. EffectFor(n, e, c)
  BY <1>7, <1>8, <1>16, <1>17 DEF EffectFor
<1> QED BY <1>1, <1>15, <1>18 DEF EffectOk

LEMMA EarlyTaken ==
  ASSUME NEW place, Inv(place), NEW n \in Routers, sent' = sent,
         early' = [early EXCEPT ![n] = <<>>]
  PROVE  EarlyOk(early', place, sent')
<1>1. /\ early = [y \in Routers |-> early[y]]
      /\ \A y \in Routers : IsSeq(early[y]) /\ \A i \in 1 .. Len(early[y]) :
           MsgOk(y, early[y][i], place, sent) /\ early[y][i].type = "AcceptParcel"
  BY DEF Inv, MessagesOk, EarlyOk
<1>2. /\ early' = [y \in Routers |-> early'[y]] /\ early'[n] = <<>>
      /\ \A y \in Routers : y # n => early'[y] = early[y]
  BY <1>1
<1>3. IsSeq(early'[n]) /\ Len(early'[n]) = 0
  BY <1>2, EmptySeq
<1>4. \A y \in Routers :
        /\ IsSeq(early'[y])
        /\ \A i \in 1 .. Len(early'[y]) :
             MsgOk(y, early'[y][i], place, sent') /\ early'[y][i].type = "AcceptParcel"
  <2>1. ASSUME NEW y \in Routers, y # n
        PROVE  /\ IsSeq(early'[y])
               /\ \A i \in 1 .. Len(early'[y]) :
                    MsgOk(y, early'[y][i], place, sent') /\ early'[y][i].type = "AcceptParcel"
    <3>1. early'[y] = early[y]
      BY <1>2, <2>1
    <3> QED BY <1>1, <3>1
  <2>2. \A i \in 1 .. Len(early'[n]) :
          MsgOk(n, early'[n][i], place, sent') /\ early'[n][i].type = "AcceptParcel"
    BY <1>3
  <2> QED BY <1>3, <2>1, <2>2
<1> QED BY <1>2, <1>4 DEF EarlyOk

\* The descriptor m has reached n.
Arrives(n, m, channels, place) ==
  Took(n, m, channels, place) /\ IsDescriptor(m) /\ early' = [early EXCEPT ![n] = <<>>]

LEMMA ArrivesFacts ==
  ASSUME NEW place, Inv(place), NEW n, NEW m, NEW channels, Arrives(n, m, channels, place)
  PROVE  /\ n \in Routers /\ n \in Places(place) /\ n[2] > 0 /\ n[2] = place[End(n)]
         /\ n \notin DOMAIN routers /\ m.link = Inner(Pred(n))
         /\ m.incoming = Len(received[End(n)]) /\ m.outgoing = sent[End(n)]
         /\ m.bypass # NoLink =>
              /\ OutLink(Pred(n), m.bypass, place) /\ IsCentral(m.bypass)
              /\ ~m.peerClosed /\ Quiet(Pred(n))
         /\ place \in [Ends -> 0 .. MaxMoves] /\ sent' \in [Ends -> Nat] /\ sent' = sent
         /\ Len(received[End(n)]) \in Nat /\ End(n) \in Ends
         /\ IsSeq(early[n])
         /\ \A i \in 1 .. Len(early[n]) : Valid(early[n][i], sent'[Peer(End(n))])
<1>1. /\ n \in Routers /\ MsgOk(n, m, place, sent) /\ m \in InFlight(chan, deferred, n)
      /\ sent' = sent /\ IsDescriptor(m)
  BY DEF Arrives, Took
<1>2. DescriptorOk(n, m, place)
  BY <1>1 DEF Inv, DescriptorsOk
<1>3. n \in Places(place)
  BY <1>1 DEF MsgOk
<1>4. place \in [Ends -> 0 .. MaxMoves] /\ sent' \in [Ends -> Nat]
  BY <1>1 DEF Inv, PlacesOk, HistoryOk
<1>5. End(n) \in Ends /\ n[2] \in Nat
  BY <1>1, RouterFacts
<1>6. Len(received[End(n)]) \in Nat
  BY <1>5 DEF Inv, HistoryOk
<1>7. /\ n[2] > 0 /\ n[2] = place[End(n)] /\ n \notin DOMAIN routers /\ m.link = Inner(Pred(n))
      /\ m.incoming = Len(received[End(n)]) /\ m.outgoing = sent[End(n)]
      /\ m.bypass # NoLink =>
           /\ OutLink(Pred(n), m.bypass, place) /\ IsCentral(m.bypass)
           /\ ~m.peerClosed /\ Quiet(Pred(n))
  BY <1>2 DEF DescriptorOk
<1>8. ~(n[2] < place[End(n)])
  BY <1>5, <1>7
<1>9. IsSeq(early[n]) /\ \A i \in 1 .. Len(early[n]) :
        MsgOk(n, early[n][i], place, sent) /\ early[n][i].type = "AcceptParcel"
  BY <1>1 DEF Inv, MessagesOk, EarlyOk
<1>10. ASSUME NEW i \in 1 .. Len(early[n]) PROVE Valid(early[n][i], sent'[Peer(End(n))])
  BY <1>1, <1>8, <1>9 DEF MsgOk
<1> QED BY <1>1, <1>3, <1>4, <1>5, <1>6, <1>7, <1>9, <1>10

(* The turn of a new router.                                               *)
LEMMA ArrivalKeeps ==
  ASSUME NEW place, Inv(place), NEW n, NEW m, NEW channels, Arrives(n, m, channels, place),
         NEW c, Usual(c, n, place), NEW e, EffectOk(n, e, c),
         NEW links, Commit(n, e, channels, links),
         bypass' = [x \in Routers |-> [state |-> bypass'[x].state, old |-> bypass'[x].old]],
         \A x \in Routers : x # n => bypass'[x] = bypass[x],
         Requests(n, c, place)
  PROVE  Inv(place)' /\ Delivered(n)
<1>1. /\ n \in Routers /\ n \in Places(place) /\ n[2] = place[End(n)] /\ n \notin DOMAIN routers
      /\ place \in [Ends -> 0 .. MaxMoves] /\ sent' = sent /\ sent' \in [Ends -> Nat]
  BY ArrivesFacts
<1>2. /\ UNCHANGED moves /\ Wired(channels, deferred') /\ Once(channels, deferred')
      /\ \A y \in Routers : \A v \in InFlight(channels, deferred', y) : v \in InFlight(chan, deferred, y)
      /\ \A v \in InFlight(channels, deferred', n) : ~IsDescriptor(v)
  BY DEF Arrives, Took
<1>3. EarlyOk(early', place, sent')
  BY <1>1, EarlyTaken DEF Arrives
<1>4. Leaves(channels, place)
  BY <1>2, <1>3 DEF Leaves
<1>5. Grows(place, place)
  <2>1. MaxMoves \in Nat
    BY ProxyBypassAssumption
  <2>2. \A d \in Ends : place[d] \in Nat /\ place[d] <= place[d]
    BY <1>1, <2>1
  <2> QED BY <1>1, <2>2 DEF Grows
<1>6. SentGrows(sent, sent') /\ PlacesOk(place)'
  <2>1. SentGrows(sent, sent')
    BY <1>1, SentSame
  <2>2. PlacesOk(place)'
    BY <1>2 DEF Inv, PlacesOk
  <2> QED BY <2>1, <2>2
<1>7. /\ c.place = place /\ c.sent = sent' /\ c.got = Len(received[End(n)]) /\ ~c.described
  BY DEF Usual
<1>8. \A d \in Ends : d # End(n) => place[d] = place[d] /\ sent'[d] = sent[d]
  BY <1>1
<1>9. Turn(n, e, c, channels, links, place, place)
  BY <1>1, <1>2, <1>4, <1>5, <1>6, <1>7, <1>8 DEF Turn
<1> QED BY <1>9, TurnKeeps

LEMMA OkIsReady ==
  ASSUME NEW n \in Routers, NEW c, Given(c), NEW e, EffectOk(n, e, c), NEW force, NEW keep
  PROVE  EffectOk(n, Flush(n, e, force, keep), c)
<1>1. EffectReady(n, e, c)
  BY DEF EffectOk, EffectReady, RouterOk
<1> QED BY <1>1, FlushOk

(* router_deserialize and accept_portal.                                   *)
LEMMA DescriptorKeeps ==
  ASSUME NEW place, Inv(place), NEW n, NEW m, NEW channels, Took(n, m, channels, place),
         IsDescriptor(m), OnDescriptor(n, m, channels)
  PROVE  Inv(place)' /\ Delivered(n)
<1> DEFINE e1 == WithEarlyParcels(n, Deserialized(m))
<1>1. Arrives(n, m, channels, place)
  BY DEF Arrives, OnDescriptor
<1>2. /\ n \in Routers /\ n \in Places(place) /\ n[2] > 0 /\ n[2] = place[End(n)]
      /\ n \notin DOMAIN routers /\ m.link = Inner(Pred(n))
      /\ m.incoming = Len(received[End(n)]) /\ m.outgoing = sent[End(n)]
      /\ m.bypass # NoLink =>
           /\ OutLink(Pred(n), m.bypass, place) /\ IsCentral(m.bypass)
           /\ ~m.peerClosed /\ Quiet(Pred(n))
      /\ place \in [Ends -> 0 .. MaxMoves] /\ sent' \in [Ends -> Nat] /\ sent' = sent
      /\ Len(received[End(n)]) \in Nat /\ End(n) \in Ends
      /\ IsSeq(early[n])
      /\ \A i \in 1 .. Len(early[n]) : Valid(early[n][i], sent'[Peer(End(n))])
  BY <1>1, ArrivesFacts
<1>3. PICK c : Usual(c, n, place)
  BY UsualContext
<1>4. /\ c.place = place /\ c.sent = sent' /\ c.got = Len(received[End(n)])
      /\ c.calm <=> bypass'[n].state = "requested"
      /\ ~c.hush /\ ~c.described
  BY <1>2, <1>3 DEF Usual
<1>5. Given(c)
  BY <1>2, <1>4 DEF Given
<1>6. ASSUME NEW d, Like(c, d), d.calm => ~m.peerClosed PROVE Given(d) /\ EffectOk(n, e1, d)
  <2>1. /\ d.place = place /\ d.sent = sent' /\ d.got = Len(received[End(n)]) /\ ~d.hush
    BY <1>4, <1>6 DEF Like
  <2>2. Given(d)
    BY <1>2, <2>1 DEF Given
  <2>3. EffectOk(n, Deserialized(m), d)
    <3>1. /\ n[2] = d.place[End(n)] /\ m.incoming = d.got /\ m.outgoing = d.sent[End(n)]
      BY <1>2, <2>1
    <3> QED BY <1>2, <1>6, <2>1, <2>2, <3>1, DeserializedOk
  <2>4. PICK e0 : e0 = Deserialized(m)
    OBVIOUS
  <2>5. EffectOk(n, e0, d)
    BY <2>3, <2>4
  <2>6. \A i \in 1 .. Len(early[n]) : Valid(early[n][i], d.sent[Peer(End(n))])
    BY <1>2, <2>1
  <2>7. EffectOk(n, WithEarlyParcels(n, e0), d)
    BY <1>2, <2>2, <2>5, <2>6, WithEarlyParcelsOk
  <2> QED BY <2>2, <2>4, <2>7
<1>7. Like(c, c)
  BY DEF Like
<1>8. /\ bypass = [x \in Routers |-> [state |-> bypass[x].state, old |-> bypass[x].old]]
      /\ bypass[n].state # "requested"
  BY <1>2 DEF Inv, BypassOk, Waits
<1>9. PICK e : e = e1
  OBVIOUS
<1>a. \/ /\ m.bypass = NoLink
         /\ Commit(n, Flush(n, e, FALSE, FALSE), channels, {m.link})
         /\ UNCHANGED bypass
      \/ /\ m.bypass # NoLink
         /\ \E state \in {"requested", "exhausted"} :
              bypass' = [bypass EXCEPT ![n] = [state |-> state, old |-> m.bypass]]
         /\ Commit(n, Flush(n, e, FALSE, FALSE), channels, {m.link})
      \/ /\ m.bypass # NoLink
         /\ bypass' = [bypass EXCEPT ![n] = [state |-> "started", old |-> m.bypass]]
         /\ Commit(n, Flush(n, BypassPeer(n, e, m.bypass), FALSE, FALSE), channels,
                   {m.link, NewLink(n, m.bypass)})
  BY <1>9 DEF OnDescriptor, Proceed
<1>b. ASSUME NEW d, Like(c, d), d.calm => ~m.peerClosed PROVE EffectOk(n, e, d) /\ Given(d)
  BY <1>6, <1>9, <1>b
<1> HIDE DEF e1
<1>10. CASE /\ m.bypass = NoLink
            /\ Commit(n, Flush(n, e, FALSE, FALSE), channels, {m.link})
            /\ UNCHANGED bypass
  <2>1. ~c.calm
    BY <1>4, <1>8, <1>10
  <2>2. EffectOk(n, e, c)
    BY <1>7, <1>b, <2>1
  <2>3. PICK f : f = Flush(n, e, FALSE, FALSE)
    OBVIOUS
  <2>4. EffectOk(n, f, c)
    BY <1>2, <1>5, <2>2, <2>3, OkIsReady
  <2>5. PICK links : links = {m.link}
    OBVIOUS
  <2>6. Commit(n, f, channels, links)
    BY <1>10, <2>3, <2>5
  <2>7. Requests(n, c, place)
    BY <1>8, <1>10 DEF Requests
  <2>8. /\ bypass' = [x \in Routers |-> [state |-> bypass'[x].state, old |-> bypass'[x].old]]
        /\ \A x \in Routers : x # n => bypass'[x] = bypass[x]
    BY <1>8, <1>10
  <2> QED BY <1>1, <1>3, <2>4, <2>6, <2>7, <2>8, ArrivalKeeps
<1>11. CASE /\ m.bypass # NoLink
            /\ \E state \in {"requested", "exhausted"} :
                 bypass' = [bypass EXCEPT ![n] = [state |-> state, old |-> m.bypass]]
            /\ Commit(n, Flush(n, e, FALSE, FALSE), channels, {m.link})
  <2>1. PICK state : bypass' = [bypass EXCEPT ![n] = [state |-> state, old |-> m.bypass]]
    BY <1>11
  <2>2. EffectOk(n, e, c)
    BY <1>2, <1>7, <1>11, <1>b
  <2>3. PICK f : f = Flush(n, e, FALSE, FALSE)
    OBVIOUS
  <2>4. EffectOk(n, f, c)
    BY <1>2, <1>5, <2>2, <2>3, OkIsReady
  <2>5. PICK links : links = {m.link}
    OBVIOUS
  <2>6. Commit(n, f, channels, links)
    BY <1>11, <2>3, <2>5
  <2>7. bypass'[n].old = m.bypass
    BY <1>2, <1>8, <2>1
  <2>8. Requests(n, c, place)
    BY <1>2, <1>4, <1>11, <2>7 DEF Requests
  <2>9. /\ bypass' = [x \in Routers |-> [state |-> bypass'[x].state, old |-> bypass'[x].old]]
        /\ \A x \in Routers : x # n => bypass'[x] = bypass[x]
    BY <1>2, <1>8, <2>1
  <2> QED BY <1>1, <1>3, <2>4, <2>6, <2>8, <2>9, ArrivalKeeps
<1>12. CASE /\ m.bypass # NoLink
            /\ bypass' = [bypass EXCEPT ![n] = [state |-> "started", old |-> m.bypass]]
            /\ Commit(n, Flush(n, BypassPeer(n, e, m.bypass), FALSE, FALSE), channels,
                      {m.link, NewLink(n, m.bypass)})
  <2>1. PICK d : Like(c, d) /\ Like(d, c) /\ d.calm
    BY CalmContext
  <2>2. EffectOk(n, e, d)
    BY <1>2, <1>12, <1>b, <2>1
  <2>3. e.router.outward = EdgeOn(Inner(Pred(n)))
    BY <2>1, <2>2 DEF EffectOk, EffectFor
  <2>4. bypass'[n].state = "started" /\ bypass'[n].old = m.bypass
    BY <1>2, <1>8, <1>12
  <2>5. ~c.calm
    BY <1>4, <2>4
  <2>6. EffectOk(n, e, c)
    BY <2>1, <2>2, <2>5, CalmDown
  <2>7. PICK old : old = m.bypass
    OBVIOUS
  <2>8. OutLink(Pred(n), old, c.place) /\ IsCentral(old) /\ n \in Places(c.place)
    BY <1>2, <1>4, <1>12, <2>7
  <2>9. EffectOk(n, BypassPeer(n, e, old), c)
    BY <1>2, <1>5, <2>3, <2>5, <2>6, <2>8, BypassPeerOk
  <2>10. PICK g : g = BypassPeer(n, e, old)
    OBVIOUS
  <2>11. PICK f : f = Flush(n, g, FALSE, FALSE)
    OBVIOUS
  <2>12. EffectOk(n, f, c)
    <3>1. EffectOk(n, g, c)
      BY <2>9, <2>10
    <3> QED BY <1>2, <1>5, <2>11, <3>1, OkIsReady
  <2>13. PICK links : links = {m.link, NewLink(n, m.bypass)}
    OBVIOUS
  <2>14. Commit(n, f, channels, links)
    BY <1>12, <2>7, <2>10, <2>11, <2>13
  <2>15. Requests(n, c, place)
    BY <2>4 DEF Requests
  <2>16. /\ bypass' = [x \in Routers |-> [state |-> bypass'[x].state, old |-> bypass'[x].old]]
         /\ \A x \in Routers : x # n => bypass'[x] = bypass[x]
    BY <1>2, <1>8, <1>12
  <2> QED BY <1>1, <1>3, <2>12, <2>14, <2>15, <2>16, ArrivalKeeps
<1> QED BY <1>a, <1>10, <1>11, <1>12

\* The broker answers the request of n.
Answers(n, state) == bypass' = [bypass EXCEPT ![n].state = state]

(* The answer to the request of n for an introduction.                     *)
LEMMA AnswerFacts ==
  ASSUME NEW place, Inv(place), NEW n \in Routers, bypass[n].state = "requested",
         UNCHANGED <<deferred, early, moves, sent>>,
         NEW state, state # "requested", Answers(n, state)
  PROVE  /\ n \in DOMAIN routers /\ n \in Places(place) /\ n[2] > 0
         /\ routers[n].outward = EdgeOn(Inner(Pred(n)))
         /\ OutLink(Pred(n), bypass[n].old, place) /\ IsCentral(bypass[n].old)
         /\ Alone(n, place) /\ Leaves(chan, place) /\ bypass'[n].state # "requested"
         /\ bypass' = [x \in Routers |-> [state |-> bypass'[x].state, old |-> bypass'[x].old]]
         /\ \A x \in Routers : x # n => bypass'[x] = bypass[x]
<1>1. Waits(n, place)
  BY DEF Inv, BypassOk
<1>2. /\ n \in DOMAIN routers /\ n[2] > 0 /\ routers[n].outward = EdgeOn(Inner(Pred(n)))
      /\ OutLink(Pred(n), bypass[n].old, place) /\ IsCentral(bypass[n].old)
  BY <1>1 DEF Waits
<1>3. n \in Places(place)
  BY <1>2, ThereFacts
<1>4. SentGrows(sent, sent')
  BY SentSame
<1>5. Leaves(chan, place)
  BY <1>4, CallLeaves
<1>6. bypass = [x \in Routers |-> [state |-> bypass[x].state, old |-> bypass[x].old]]
  BY DEF Inv, BypassOk
<1>7. PICK z : z = bypass[n].old
  OBVIOUS
<1>8. bypass[n] = [state |-> "requested", old |-> z]
  <2>1. bypass[n] = [state |-> bypass[n].state, old |-> bypass[n].old]
    BY <1>6
  <2> QED BY <1>7, <2>1
<1>9. bypass'[n] = [state |-> state, old |-> z]
  <2>1. bypass' = [x \in Routers |-> IF x = n THEN [bypass[n] EXCEPT !.state = state]
                                     ELSE bypass[x]]
    BY <1>6 DEF Answers
  <2>2. bypass'[n] = [bypass[n] EXCEPT !.state = state]
    BY <2>1
  <2> QED BY <1>8, <2>2
<1>10. \A x \in Routers : x # n => bypass'[x] = bypass[x]
  BY <1>6 DEF Answers
<1>11. bypass'[n].state # "requested"
  BY <1>9
<1>12. bypass' = [x \in Routers |-> [state |-> bypass'[x].state, old |-> bypass'[x].old]]
  <2>1. \A x \in Routers : bypass'[x] = [state |-> bypass'[x].state, old |-> bypass'[x].old]
    <3>1. bypass'[n] = [state |-> bypass'[n].state, old |-> bypass'[n].old]
      BY <1>9
    <3>2. ASSUME NEW x \in Routers, x # n
          PROVE  bypass'[x] = [state |-> bypass'[x].state, old |-> bypass'[x].old]
      <4>1. bypass[x] = [state |-> bypass[x].state, old |-> bypass[x].old]
        BY <1>6
      <4> QED BY <1>10, <3>2, <4>1
    <3> QED BY <3>1, <3>2
  <2>2. bypass' = [x \in Routers |-> bypass'[x]]
    BY <1>6 DEF Answers
  <2> QED BY <2>1, <2>2
<1>13. Alone(n, place)
  BY <1>4, <1>10, <1>11, <1>12 DEF Alone
<1> QED BY <1>2, <1>3, <1>5, <1>10, <1>11, <1>12, <1>13

\* An effect that has done nothing yet, or has only removed the router.
LEMMA StandsOk ==
  ASSUME NEW place, Inv(place), NEW n \in DOMAIN routers, sent' = sent,
         NEW c, Usual(c, n, place), ~c.calm,
         NEW e, e = [router |-> e.router, removed |-> e.removed, words |-> e.words,
                     sends |-> e.sends, taken |-> e.taken],
         e.router = routers[n], e.sends = <<>>, e.taken = <<>>
  PROVE  Given(c) /\ EffectOk(n, e, c)
<1>1. /\ n \in Routers /\ place \in [Ends -> 0 .. MaxMoves] /\ End(n) \in Ends
      /\ RouterOk(n, routers[n], place, sent', Len(received[End(n)])) /\ IsRouter(routers[n])
      /\ sent' \in [Ends -> Nat] /\ Len(received[End(n)]) \in Nat
  BY ThereFacts
<1>2. /\ c.place = place /\ c.sent = sent' /\ c.got = Len(received[End(n)])
      /\ c.hush => routers[n].proxying /\ routers[n].inward.primary = NoLink
  BY DEF Usual
<1>3. Given(c)
  BY <1>1, <1>2 DEF Given
<1>4. IsSeq(e.sends) /\ Len(e.sends) = 0 /\ IsSeq(e.taken) /\ Len(e.taken) = 0
  BY EmptySeq
<1>5. IsEffect(e)
  BY <1>1, <1>4 DEF IsEffect
<1>6. SendsFor(n, e.sends, c)
  BY <1>4 DEF SendsFor
<1>7. c.got + Len(e.taken) = Len(received[End(n)])
  BY <1>1, <1>2, <1>4
<1>8. RouterOk(n, e.router, c.place, c.sent, c.got + Len(e.taken))
  BY <1>1, <1>2, <1>7
<1>9. EffectFor(n, e, c)
  BY <1>2, <1>4, <1>5, <1>6 DEF EffectFor
<1> QED BY <1>3, <1>8, <1>9 DEF EffectOk

(* An introduction ends the wait of n.                                     *)
LEMMA AcceptIntroductionKeeps ==
  ASSUME NEW place, Inv(place), NEW n \in Routers, AcceptIntroduction(n)
  PROVE  Inv(place)' /\ Delivered(n)
<1>1. bypass[n].state = "requested" /\ UNCHANGED <<deferred, early, moves, sent>>
  BY DEF AcceptIntroduction
<1>2. PICK old : old = bypass[n].old
  OBVIOUS
<1>3. CASE /\ Commit(n, BypassPeer(n, Effect(routers[n]), old), chan, {NewLink(n, old)})
           /\ bypass' = [bypass EXCEPT ![n].state = "started"]
  <2>1. PICK state : state = "started"
    OBVIOUS
  <2>2. state # "requested" /\ Answers(n, state)
    BY <1>3, <2>1 DEF Answers
  <2> HIDE <1>3
  <2> HIDE <2>1
  <2>3. /\ n \in DOMAIN routers /\ n \in Places(place) /\ n[2] > 0
        /\ routers[n].outward = EdgeOn(Inner(Pred(n)))
        /\ OutLink(Pred(n), bypass[n].old, place) /\ IsCentral(bypass[n].old)
        /\ Alone(n, place) /\ Leaves(chan, place) /\ bypass'[n].state # "requested"
    BY <1>1, <2>2, AnswerFacts
  <2>4. PICK c : Usual(c, n, place)
    BY UsualContext
  <2>5. ~c.calm /\ c.place = place
    BY <2>3, <2>4 DEF Usual
  <2>6. PICK e : e = Effect(routers[n])
    OBVIOUS
  <2>7. /\ e = [router |-> e.router, removed |-> e.removed, words |-> e.words,
                sends |-> e.sends, taken |-> e.taken]
        /\ e.router = routers[n] /\ e.sends = <<>> /\ e.taken = <<>>
    BY <2>6, EffectFacts
  <2>8. Given(c) /\ EffectOk(n, e, c)
    BY <1>1, <2>3, <2>4, <2>5, <2>7, StandsOk
  <2>9. EffectOk(n, BypassPeer(n, e, old), c)
    <3>1. /\ e.router.outward = EdgeOn(Inner(Pred(n))) /\ OutLink(Pred(n), old, c.place)
          /\ IsCentral(old) /\ n \in Places(c.place)
      BY <1>2, <2>3, <2>5, <2>7
    <3> QED BY <2>3, <2>5, <2>8, <3>1, BypassPeerOk
  <2>10. PICK f, links : f = BypassPeer(n, e, old) /\ links = {NewLink(n, old)}
    OBVIOUS
  <2>11. Commit(n, f, chan, links)
    BY <1>3, <2>6, <2>10
  <2>12. EffectOk(n, f, c)
    BY <2>9, <2>10
  <2> QED BY <2>3, <2>4, <2>11, <2>12, HandlerKeeps
<1>4. CASE Ignore(chan) /\ bypass' = [bypass EXCEPT ![n].state = "exhausted"]
  <2>1. PICK state : state = "exhausted"
    OBVIOUS
  <2>2. state # "requested" /\ Answers(n, state)
    BY <1>4, <2>1 DEF Answers
  <2>a. UNCHANGED <<routers, owners, received>> /\ chan' = chan
    BY <1>4 DEF Ignore
  <2> HIDE <1>4
  <2> HIDE <2>1
  <2>3. /\ Leaves(chan, place) /\ bypass'[n].state # "requested"
        /\ bypass' = [x \in Routers |-> [state |-> bypass'[x].state, old |-> bypass'[x].old]]
        /\ \A x \in Routers : x # n => bypass'[x] = bypass[x]
    BY <1>1, <2>2, AnswerFacts
  <2>4. \A x \in Routers : bypass'[x].state = "requested" => bypass'[x] = bypass[x]
    BY <2>3
  <2>5. Leaves(chan', place)
    BY <2>3, <2>a
  <2>6. UNCHANGED <<routers, owners, received, sent, moves>>
    BY <1>1, <2>a
  <2> QED BY <2>3, <2>4, <2>5, <2>6, IdleKeeps
<1> QED BY <1>2, <1>3, <1>4 DEF AcceptIntroduction, Proceed

LEMMA RejectIntroductionKeeps ==
  ASSUME NEW place, Inv(place), NEW n \in Routers, RejectIntroduction(n)
  PROVE  Inv(place)' /\ Delivered(n)
<1>1. bypass[n].state = "requested" /\ UNCHANGED <<deferred, early, moves, sent>>
  BY DEF RejectIntroduction
<1>2. PICK state : state = "rejected"
  OBVIOUS
<1>3. state # "requested" /\ Answers(n, state)
  BY <1>2 DEF RejectIntroduction, Answers
<1> HIDE <1>2
<1>4. /\ n \in DOMAIN routers /\ Alone(n, place) /\ Leaves(chan, place)
      /\ bypass'[n].state # "requested"
  BY <1>1, <1>3, AnswerFacts
<1>5. PICK c : Usual(c, n, place)
  BY UsualContext
<1>6. ~c.calm
  BY <1>4, <1>5 DEF Usual
<1>7. PICK e : e = [Effect(routers[n]) EXCEPT !.removed = TRUE]
  OBVIOUS
<1>8. /\ e = [router |-> e.router, removed |-> e.removed, words |-> e.words,
              sends |-> e.sends, taken |-> e.taken]
      /\ e.router = routers[n] /\ e.sends = <<>> /\ e.taken = <<>>
  <2>1. PICK r, y, z, w, s : r = routers[n] /\ y = FALSE /\ z = TRUE /\ w = words /\ s = <<>>
    OBVIOUS
  <2>2. Effect(routers[n]) = [router |-> r, removed |-> y, words |-> w, sends |-> s, taken |-> s]
    BY <2>1 DEF Effect
  <2>3. e = [Effect(routers[n]) EXCEPT !.removed = z]
    BY <1>7, <2>1
  <2>4. e = [router |-> r, removed |-> z, words |-> w, sends |-> s, taken |-> s]
    BY <2>2, <2>3
  <2> QED BY <2>1, <2>4
<1>9. Commit(n, e, chan, {})
  BY <1>7 DEF RejectIntroduction, Proceed
<1>10. EffectOk(n, e, c)
  <2>1. sent' = sent
    BY <1>1
  <2> HIDE <1>7
  <2> QED BY <1>4, <1>5, <1>6, <1>8, <2>1, StandsOk
<1> HIDE <1>7
<1> QED BY <1>4, <1>5, <1>9, <1>10, HandlerKeeps

(* The node of the right end marks its side of the initial link.           *)
LEMMA MarkKeeps ==
  ASSUME NEW place, Inv(place), MarkInitialLinksStable
  PROVE  Inv(place)' /\ \A n \in Routers : Delivered(n)
<1>1. UNCHANGED <<routers, owners, chan, deferred, early, bypass, moves, sent, received>>
  BY DEF MarkInitialLinksStable
<1>2. SentGrows(sent, sent')
  BY <1>1, SentSame
<1>3. Leaves(chan, place)
  BY <1>1, <1>2, CallLeaves
<1>4. Leaves(chan', place)
  BY <1>1, <1>3
<1>5. /\ bypass' = [x \in Routers |-> [state |-> bypass'[x].state, old |-> bypass'[x].old]]
      /\ \A x \in Routers : bypass'[x].state = "requested" => bypass'[x] = bypass[x]
  BY <1>1 DEF Inv, BypassOk
<1> QED BY <1>1, <1>4, <1>5, IdleKeeps

-----------------------------------------------------------------------------
(* The steps of the nodes.                                                 *)

LEMMA AcceptMessageKeeps ==
  ASSUME NEW place, Inv(place), NEW n, NEW m, NEW channels, Took(n, m, channels, place),
         AcceptMessage(n, m, channels)
  PROVE  Inv(place)' /\ Delivered(n)
<1>1. CASE m.type = "Descriptor" /\ OnDescriptor(n, m, channels)
  BY <1>1, DescriptorKeeps DEF IsDescriptor
<1>2. CASE /\ m.type = "AcceptParcel" /\ UNCHANGED bypass
           /\ \E keep \in BOOLEAN : OnAcceptParcel(n, m, channels, keep)
  <2>1. PICK keep \in BOOLEAN : OnAcceptParcel(n, m, channels, keep)
    BY <1>2
  <2> QED BY <1>2, <2>1, AcceptParcelKeeps
<1> QED BY <1>1, <1>2 DEF AcceptMessage

LEMMA DispatchKeeps ==
  ASSUME NEW place, Inv(place), NEW n, NEW m, NEW channels, Took(n, m, channels, place),
         Dispatch(n, m, channels), UNCHANGED <<early, bypass>>
  PROVE  Inv(place)' /\ Delivered(n)
<1>1. PICK l : l = IF m.type = "AcceptBypassLink" THEN m.old ELSE m.link
  OBVIOUS
<1>2. CASE Ignore(channels)
  <2>1. EarlyOk(early', place, sent')
    BY EarlySame DEF Took
  <2> QED BY <1>2, <2>1, NothingKeeps DEF Ignore
<1>3. CASE <<n, l>> \in owners /\ m.type = "RouteClosed" /\ OnRouteClosed(n, m, channels)
  <2>1. <<n, m.link>> \in owners
    BY <1>1, <1>3
  <2> QED BY <1>3, <2>1, RouteClosedKeeps
<1>4. CASE <<n, l>> \in owners /\ m.type = "AcceptBypassLink" /\ OnAcceptBypassLink(n, m, channels)
  BY <1>4, AcceptBypassLinkKeeps
<1>5. CASE <<n, l>> \in owners /\ m.type = "StopProxying" /\ OnStopProxying(n, m, channels)
  <2>1. <<n, m.link>> \in owners
    BY <1>1, <1>5
  <2> QED BY <1>5, <2>1, StopProxyingKeeps
<1>6. CASE <<n, l>> \in owners /\ m.type = "ProxyWillStop" /\ OnProxyWillStop(n, m, channels)
  <2>1. <<n, m.link>> \in owners
    BY <1>1, <1>6
  <2> QED BY <1>6, <2>1, ProxyWillStopKeeps
<1>7. CASE /\ <<n, l>> \in owners
           /\ Proceed(n, Flush(n, Effect(routers[n]), TRUE, FALSE), channels, {})
  BY <1>7, FlushRouterKeeps
<1> QED BY <1>1, <1>2, <1>3, <1>4, <1>5, <1>6, <1>7 DEF Dispatch

(* A message is read from a channel and handled, or put aside.             *)
LEMMA ReadMessageKeeps ==
  ASSUME NEW place, Inv(place), NEW pair \in Pairs, ReadMessage(pair[1], pair[2])
  PROVE  Inv(place)' /\ Delivered(pair[2])
<1>1. PICK n : n = pair[2]
  OBVIOUS
<1>2. pair = <<pair[1], n>>
  BY <1>1, PairFacts
<1>a. n \in Routers
  BY <1>1, PairFacts
<1>3. PICK m, channels : m = Head(chan[pair]) /\ channels = [chan EXCEPT ![pair] = Tail(@)]
  OBVIOUS
<1>4. chan[pair] # <<>> /\ UNCHANGED <<moves, sent>>
  BY <1>1, <1>2 DEF ReadMessage
<1>5. \/ IsParcel(m) /\ AcceptMessage(n, m, channels) /\ UNCHANGED deferred
      \/ /\ deferred' = [deferred EXCEPT ![n] = Append(@, m)]
         /\ Ignore(channels) /\ UNCHANGED <<early, bypass>>
      \/ Dispatch(n, m, channels) /\ UNCHANGED <<deferred, early, bypass>>
  BY <1>1, <1>2, <1>3 DEF ReadMessage
<1>6. /\ Wired(chan, deferred) /\ Once(chan, deferred)
      /\ \A y \in Routers : \A v \in InFlight(chan, deferred, y) : MsgOk(y, v, place, sent)
  BY DEF Inv, MessagesOk
<1>7. /\ channels = [x \in Pairs |-> channels[x]] /\ channels[pair] = Tail(chan[pair])
      /\ \A x \in Pairs : x # pair => channels[x] = chan[x]
  <2>1. chan = [x \in Pairs |-> chan[x]]
    BY <1>6 DEF Wired
  <2> QED BY <1>3, <2>1
<1>8. m = Head(chan[pair])
  BY <1>3
<1> HIDE <1>3
<1>9. /\ Wired(channels, deferred) /\ Once(channels, deferred)
      /\ m \in InFlight(chan, deferred, pair[2])
  BY <1>4, <1>6, <1>7, <1>8, TakeFromChannel
<1>10. \A y \in Routers : \A v \in InFlight(channels, deferred, y) : v \in InFlight(chan, deferred, y)
  BY <1>4, <1>6, <1>7, <1>8, TakeFromChannel
<1>11. IsDescriptor(m) => \A v \in InFlight(channels, deferred, pair[2]) : ~IsDescriptor(v)
  BY <1>4, <1>6, <1>7, <1>8, TakeFromChannel
<1>12. ASSUME UNCHANGED deferred
       PROVE  Took(n, m, channels, place)
  BY <1>1, <1>a, <1>4, <1>6, <1>9, <1>10, <1>11, <1>12 DEF Took
<1>13. CASE IsParcel(m) /\ AcceptMessage(n, m, channels) /\ UNCHANGED deferred
  BY <1>1, <1>12, <1>13, AcceptMessageKeeps
<1>14. CASE Dispatch(n, m, channels) /\ UNCHANGED <<deferred, early, bypass>>
  BY <1>1, <1>12, <1>14, DispatchKeeps
<1>15. CASE /\ deferred' = [deferred EXCEPT ![n] = Append(@, m)]
            /\ Ignore(channels) /\ UNCHANGED <<early, bypass>>
  <2>1. PICK d : d = deferred'
    OBVIOUS
  <2>2. /\ d = [x \in Routers |-> d[x]] /\ d[n] = Append(deferred[n], m)
        /\ \A x \in Routers : x # n => d[x] = deferred[x]
    <3>1. deferred = [x \in Routers |-> deferred[x]]
      BY <1>6 DEF Wired
    <3> QED BY <1>a, <1>15, <2>1, <3>1
  <2>3. IsDescriptor(m) => \A v \in InFlight(channels, deferred, n) : ~IsDescriptor(v)
    BY <1>1, <1>11
  <2>4. Wired(channels, d) /\ Once(channels, d)
    BY <1>a, <1>9, <2>2, <2>3, PutAside
  <2>5. \A y \in Routers : \A v \in InFlight(channels, d, y) :
          v \in InFlight(channels, deferred, y) \/ (y = n /\ v = m)
    BY <1>a, <1>9, <2>2, <2>3, PutAside
  <2>6. \A y \in Routers : \A v \in InFlight(channels, d, y) : v \in InFlight(chan, deferred, y)
    BY <1>1, <1>9, <1>10, <2>5
  <2>7. EarlyOk(early', place, sent')
    BY <1>4, <1>15, EarlySame
  <2>8. chan' = channels /\ UNCHANGED <<routers, owners, received, sent, moves>>
    BY <1>4, <1>15 DEF Ignore
  <2>9. Leaves(chan', place)
    BY <2>1, <2>4, <2>6, <2>7, <2>8 DEF Leaves
  <2>10. /\ bypass' = [x \in Routers |-> [state |-> bypass'[x].state, old |-> bypass'[x].old]]
         /\ \A x \in Routers : bypass'[x].state = "requested" => bypass'[x] = bypass[x]
    BY <1>15 DEF Inv, BypassOk
  <2> QED BY <1>1, <1>a, <2>8, <2>9, <2>10, IdleKeeps
<1> QED BY <1>5, <1>13, <1>14, <1>15

(* The buffer of a parcel that was put aside arrives.                      *)
LEMMA AddBlockBufferKeeps ==
  ASSUME NEW place, Inv(place), NEW n \in Routers, AddBlockBuffer(n)
  PROVE  Inv(place)' /\ Delivered(n)
<1>1. PICK m : m = Head(deferred[n])
  OBVIOUS
<1>d. PICK d : d = deferred'
  OBVIOUS
<1>2. /\ deferred[n] # <<>> /\ UNCHANGED <<moves, sent>>
      /\ deferred' = [deferred EXCEPT ![n] = Tail(@)]
      /\ AcceptMessage(n, Head(deferred[n]), chan)
  BY DEF AddBlockBuffer
<1>3. /\ Wired(chan, deferred) /\ Once(chan, deferred)
      /\ \A y \in Routers : \A v \in InFlight(chan, deferred, y) : MsgOk(y, v, place, sent)
  BY DEF Inv, MessagesOk
<1>4. /\ d = [x \in Routers |-> d[x]] /\ d[n] = Tail(deferred[n])
      /\ \A x \in Routers : x # n => d[x] = deferred[x]
  <2>1. deferred = [x \in Routers |-> deferred[x]]
    BY <1>3 DEF Wired
  <2> QED BY <1>d, <1>2, <2>1
<1>n. deferred[n] # <<>>
  BY <1>2
<1>5. Wired(chan, d) /\ Once(chan, d) /\ m \in InFlight(chan, deferred, n)
  BY <1>1, <1>n, <1>3, <1>4, TakeFromBuffer
<1>6. \A y \in Routers : \A v \in InFlight(chan, d, y) : v \in InFlight(chan, deferred, y)
  BY <1>1, <1>n, <1>3, <1>4, TakeFromBuffer
<1>7. IsDescriptor(m) => \A v \in InFlight(chan, d, n) : ~IsDescriptor(v)
  BY <1>1, <1>n, <1>3, <1>4, TakeFromBuffer
<1>8. Took(n, m, chan, place)
  BY <1>d, <1>2, <1>3, <1>5, <1>6, <1>7 DEF Took
<1>9. AcceptMessage(n, m, chan)
  BY <1>1, <1>2
<1> QED BY <1>8, <1>9, AcceptMessageKeeps

-----------------------------------------------------------------------------
(* The beginning.                                                          *)

LEMMA InitialRouter ==
  ASSUME NEW place, place = [d \in Ends |-> 0], NEW s, s = [d \in Ends |-> 0],
         NEW n \in Ends \X {0}
  PROVE  RouterOk(n, NewTerminal(InitialLink), place, s, 0) /\ n \in Places(place)
<1>1. n \in Routers /\ n[2] = 0 /\ End(n) \in Ends /\ place[End(n)] = 0
  BY ProxyBypassAssumption DEF Routers, End
<1>2. n \in Places(place)
  BY <1>1 DEF Places
<1>3. PICK r, l : r = NewTerminal(InitialLink) /\ l = InitialLink
  OBVIOUS
<1>4. OutLink(n, l, place) /\ l # NoLink
  <2>1. /\ <<"left", 0>> \in Places(place) /\ <<"right", 0>> \in Places(place)
    BY ProxyBypassAssumption DEF Places, Routers, Ends, End
  <2>2. l.a = <<"left", 0>> /\ l.b = <<"right", 0>> /\ IsCentral(l)
    BY <1>3 DEF InitialLink, Link, IsCentral
  <2>3. n \in {l.a, l.b} /\ End(l.a) # End(l.b)
    BY <2>2 DEF Ends, End
  <2>4. l # NoLink
    BY <2>2, LinkFacts
  <2> QED BY <2>1, <2>2, <2>3, <2>4 DEF OutLink
<1>5. PICK q, f : q = Queue(0, None) /\ f = FALSE
  OBVIOUS
<1>6. IsQueue(q) /\ q.current = 0 /\ q.buffer = {}
  BY <1>5, QueueShape
<1>7. IsEdge(EdgeOn(l)) /\ IsEdge(Bare) /\ EdgeOn(l).primary = l /\ EdgeOn(l).decaying = NoLink
      /\ Bare.primary = NoLink /\ Bare.decaying = NoLink
  BY EdgeFacts DEF Bare
<1>8. /\ r = [outward |-> EdgeOn(l), inward |-> Bare, proxying |-> f,
              inbound |-> q, outbound |-> q, peerClosed |-> f]
  BY <1>3, <1>5 DEF NewTerminal
<1>9. /\ IsRouter(r) /\ r.outward = EdgeOn(l) /\ r.inward = Bare /\ r.proxying = f
      /\ r.inbound = q /\ r.outbound = q
  BY <1>6, <1>7, <1>8, RouterShape
<1>10. s[End(n)] = 0
  BY <1>1
<1>11. Loaded(q, 0)
  BY <1>6 DEF Loaded
<1>12. Ready(n, r, place, s, 0)
  <2>1. f \in BOOLEAN /\ ~f
    BY <1>5
  <2>2. r.proxying \in BOOLEAN /\ ~r.proxying /\ ~(n[2] < place[End(n)])
    BY <1>1, <1>9, <2>1
  <2>3. \A x \in {r.outward.primary, r.outward.decaying} : x = NoLink \/ OutLink(n, x, place)
    BY <1>4, <1>7, <1>9
  <2>4. \A x \in {r.inward.primary, r.inward.decaying} : x = NoLink \/ x = Inner(n)
    BY <1>7, <1>9
  <2>5. r.inbound.buffer = {} /\ r.inbound.current = 0 /\ r.outward.decaying = NoLink
    BY <1>6, <1>7, <1>9
  <2>6. Loaded(r.outbound, s[End(n)])
    BY <1>9, <1>10, <1>11
  <2>7. IsRouter(r)
    BY <1>9
  <2> QED BY <2>2, <2>3, <2>4, <2>5, <2>6, <2>7 DEF Ready
<1>13. RouterOk(n, r, place, s, 0)
  BY <1>6, <1>9, <1>12 DEF RouterOk
<1> QED BY <1>2, <1>3, <1>13

LEMMA InitInv ==
  ASSUME Init
  PROVE  \E place : Inv(place)
<1>1. PICK place : place = [d \in Ends |-> 0]
  OBVIOUS
<1>2. \A d \in Ends : place[d] = 0 /\ sent[d] = 0 /\ received[d] = <<>>
  BY <1>1 DEF Init
<1>3. PlacesOk(place)
  BY <1>1, ProxyBypassAssumption DEF PlacesOk, Init, Ends
<1>4. HistoryOk
  <2>1. sent \in [Ends -> Nat] /\ received = [d \in Ends |-> received[d]]
    BY DEF Init
  <2>2. ASSUME NEW d \in Ends
        PROVE  /\ Len(received[d]) \in Nat /\ Len(received[d]) <= sent[Peer(d)]
               /\ received[d] = [i \in 1 .. Len(received[d]) |-> i]
    <3>1. Len(received[d]) = 0 /\ sent[Peer(d)] = 0
      BY <1>2, EndFacts, EmptySeq
    <3>2. <<>> = [i \in 1 .. 0 |-> i]
      OBVIOUS
    <3> QED BY <1>2, <3>1, <3>2
  <2> QED BY <2>1, <2>2 DEF HistoryOk
<1>5. RoutersOk(place)
  <2>1. DOMAIN routers = Ends \X {0} /\ \A n \in Ends \X {0} : routers[n] = NewTerminal(InitialLink)
    BY DEF Init
  <2>2. sent = [d \in Ends |-> 0]
    BY DEF Init
  <2>3. ASSUME NEW n \in Ends \X {0}
        PROVE  n \in Places(place) /\ RouterOk(n, routers[n], place, sent, Len(received[End(n)]))
    <3>1. RouterOk(n, NewTerminal(InitialLink), place, sent, 0) /\ n \in Places(place)
      BY <1>1, <2>2, InitialRouter
    <3>2. End(n) \in Ends
      BY DEF End
    <3>3. Len(received[End(n)]) = 0
      BY <1>2, <3>2, EmptySeq
    <3> QED BY <2>1, <3>1, <3>3
  <2> QED BY <2>1, <2>3 DEF RoutersOk
<1>6. OwnersOk
  BY DEF OwnersOk, Init
<1>7. /\ chan = [pair \in Pairs |-> <<>>] /\ deferred = [n \in Routers |-> <<>>]
      /\ early = [n \in Routers |-> <<>>]
  BY DEF Init
<1>8. \A y \in Routers : \A m \in InFlight(chan, deferred, y) : FALSE
  <2>1. ASSUME NEW y \in Routers, NEW m \in InFlight(chan, deferred, y)
        PROVE  FALSE
    <3>1. \/ \E pair \in Pairs : pair[2] = y /\ \E i \in 1 .. Len(chan[pair]) : m = chan[pair][i]
          \/ \E i \in 1 .. Len(deferred[y]) : m = deferred[y][i]
      BY <2>1, InFlightCases
    <3>2. Len(deferred[y]) = 0 /\ \A pair \in Pairs : Len(chan[pair]) = 0
      BY <1>7, EmptySeq
    <3> QED BY <3>1, <3>2
  <2> QED BY <2>1
<1>9. MessagesOk(place)
  <2>1. \A pair \in Pairs : IsSeq(chan[pair]) /\ Len(chan[pair]) = 0
    BY <1>7, EmptySeq
  <2>2. \A y \in Routers : IsSeq(deferred[y]) /\ Len(deferred[y]) = 0
    BY <1>7, EmptySeq
  <2>3. \A y \in Routers : IsSeq(early[y]) /\ Len(early[y]) = 0
    BY <1>7, EmptySeq
  <2>4. Wired(chan, deferred)
    BY <1>7, <2>1, <2>2 DEF Wired
  <2>5. Once(chan, deferred)
    BY <2>1, <2>2 DEF Once
  <2>6. EarlyOk(early, place, sent)
    BY <1>7, <2>3 DEF EarlyOk
  <2> QED BY <1>8, <2>4, <2>5, <2>6 DEF MessagesOk
<1>10. DescriptorsOk(place)
  BY <1>8 DEF DescriptorsOk
<1>11. BypassOk(place)
  BY DEF BypassOk, Init
<1> QED BY <1>3, <1>4, <1>5, <1>6, <1>9, <1>10, <1>11 DEF Inv

-----------------------------------------------------------------------------
(* The route keeps its promise.                                            *)

\* The portals are somewhere.
IInv == \E place : Inv(place)

(* What a router does for its end is what the promise allows.              *)
LEMMA StepDelivers ==
  ASSUME NEW n \in Routers, Delivered(n)
  PROVE  End(n) \in Ends /\ Abstract!Deliver(End(n))
<1>1. End(n) \in Ends
  BY RouterFacts
<1>2. Abstract!Other(End(n)) = Peer(End(n))
  BY DEF Abstract!Other, Peer
<1> QED BY <1>1, <1>2 DEF Delivered, Abstract!Deliver

LEMMA PutSends ==
  ASSUME NEW n \in Routers, Put(n), Delivered(n)
  PROVE  Abstract!Next
<1>1. End(n) \in Ends /\ Abstract!Deliver(End(n))
  BY StepDelivers
<1>2. Abstract!Send(End(n))
  BY DEF Abstract!Send, Put
<1> QED BY <1>1, <1>2 DEF Abstract!Next

LEMMA CloseRouteCloses ==
  ASSUME NEW n \in Routers, CloseRoute(n), Delivered(n)
  PROVE  Abstract!Next
<1>1. End(n) \in Ends /\ Abstract!Deliver(End(n))
  BY StepDelivers
<1>2. Abstract!Close(End(n))
  BY DEF Abstract!Close, CloseRoute
<1> QED BY <1>1, <1>2 DEF Abstract!Next

LEMMA OthersDeliver ==
  ASSUME NEW n \in Routers, UNCHANGED <<sent, closed>>, Delivered(n)
  PROVE  Abstract!Next
<1>1. End(n) \in Ends /\ Abstract!Deliver(End(n))
  BY StepDelivers
<1> QED BY <1>1 DEF Abstract!Next

LEMMA StepInv ==
  ASSUME IInv, Step
  PROVE  IInv' /\ (Abstract!Next \/ UNCHANGED Abstract!vars)
<1>1. PICK place : Inv(place)
  BY DEF IInv
<1>2. ASSUME NEW n \in Routers, Put(n)
      PROVE  IInv' /\ Abstract!Next
  <2>1. Inv(place)' /\ Delivered(n)
    BY <1>1, <1>2, PutKeeps
  <2> QED BY <1>2, <2>1, PutSends DEF IInv
<1>3. ASSUME NEW n \in Routers, CloseRoute(n)
      PROVE  IInv' /\ Abstract!Next
  <2>1. Inv(place)' /\ Delivered(n)
    BY <1>1, <1>3, CloseRouteKeeps
  <2> QED BY <1>3, <2>1, CloseRouteCloses DEF IInv
<1>4. ASSUME NEW n \in Routers, SerializeRouter(n)
      PROVE  IInv' /\ Abstract!Next
  <2>1. PICK next : Inv(next)' /\ Delivered(n)
    BY <1>1, <1>4, SerializeKeeps
  <2>2. UNCHANGED <<sent, closed>>
    BY <1>4 DEF SerializeRouter
  <2> QED BY <2>1, <2>2, OthersDeliver DEF IInv
<1>5. ASSUME NEW n \in Routers, AddBlockBuffer(n)
      PROVE  IInv' /\ Abstract!Next
  <2>1. Inv(place)' /\ Delivered(n)
    BY <1>1, <1>5, AddBlockBufferKeeps
  <2>2. UNCHANGED <<sent, closed>>
    BY <1>5 DEF AddBlockBuffer
  <2> QED BY <2>1, <2>2, OthersDeliver DEF IInv
<1>6. ASSUME NEW n \in Routers, AcceptIntroduction(n)
      PROVE  IInv' /\ Abstract!Next
  <2>1. Inv(place)' /\ Delivered(n)
    BY <1>1, <1>6, AcceptIntroductionKeeps
  <2>2. UNCHANGED <<sent, closed>>
    BY <1>6 DEF AcceptIntroduction
  <2> QED BY <2>1, <2>2, OthersDeliver DEF IInv
<1>7. ASSUME NEW n \in Routers, RejectIntroduction(n)
      PROVE  IInv' /\ Abstract!Next
  <2>1. Inv(place)' /\ Delivered(n)
    BY <1>1, <1>7, RejectIntroductionKeeps
  <2>2. UNCHANGED <<sent, closed>>
    BY <1>7 DEF RejectIntroduction
  <2> QED BY <2>1, <2>2, OthersDeliver DEF IInv
<1>8. ASSUME NEW pair \in Pairs, ReadMessage(pair[1], pair[2])
      PROVE  IInv' /\ Abstract!Next
  <2>1. Inv(place)' /\ Delivered(pair[2])
    BY <1>1, <1>8, ReadMessageKeeps
  <2>2. UNCHANGED <<sent, closed>>
    BY <1>8 DEF ReadMessage
  <2>3. PICK n \in Routers : n = pair[2]
    BY PairFacts
  <2> QED BY <2>1, <2>2, <2>3, OthersDeliver DEF IInv
<1>9. ASSUME MarkInitialLinksStable
      PROVE  IInv' /\ UNCHANGED Abstract!vars
  <2>1. Inv(place)'
    BY <1>1, <1>9, MarkKeeps
  <2>2. UNCHANGED <<sent, received, closed>>
    BY <1>9 DEF MarkInitialLinksStable
  <2> QED BY <2>1, <2>2 DEF IInv, Abstract!vars
<1> QED BY <1>2, <1>3, <1>4, <1>5, <1>6, <1>7, <1>8, <1>9 DEF Step

(* Nothing happens.                                                        *)
LEMMA StutterInv ==
  ASSUME IInv, UNCHANGED vars
  PROVE  IInv' /\ UNCHANGED Abstract!vars
<1>1. PICK place : Inv(place)
  BY DEF IInv
<1>2. UNCHANGED <<routers, owners, chan, deferred, early, bypass, moves, sent, received>>
  BY DEF vars
<1>3. SentGrows(sent, sent')
  BY <1>1, <1>2, SentSame
<1>4. Leaves(chan', place)
  BY <1>1, <1>2, <1>3, CallLeaves
<1>5. /\ bypass' = [x \in Routers |-> [state |-> bypass'[x].state, old |-> bypass'[x].old]]
      /\ \A x \in Routers : bypass'[x].state = "requested" => bypass'[x] = bypass[x]
  BY <1>1, <1>2 DEF Inv, BypassOk
<1>6. Inv(place)'
  BY <1>1, <1>2, <1>4, <1>5, IdleKeeps
<1> QED BY <1>6 DEF IInv, Abstract!vars, vars

(* Parcels go through proxies that come and go, over links that are taken  *)
(* into use and left again (router_flush, serialize_router, bypass): what  *)
(* the portals see of it is the route of Route, for any number of moves,   *)
(* parcels and parcels that wait for a buffer.                             *)
THEOREM RouteKept == Spec => ImplementsRoute
<1>1. Init => IInv /\ Abstract!Init
  BY InitInv DEF IInv, Init, Abstract!Init
<1>2. IInv /\ [Next]_vars => IInv' /\ [Abstract!Next]_(Abstract!vars)
  BY StepInv, StutterInv DEF Next
<1> QED BY <1>1, <1>2, PTL DEF Spec, ImplementsRoute, Abstract!Spec
=============================================================================
