------------------------------- MODULE Router -------------------------------
(***************************************************************************)
(* The parts a router is made of: sequenced parcel queues, edges with a    *)
(* primary and a decaying link, and the passes over them that a flush      *)
(* makes (router.rs). Everything here is a function of a router's own      *)
(* state; who the links lead to is up to the modules that use it.          *)
(*                                                                         *)
(* A parcel is a sequence number and the message it carries. A length that *)
(* is not set (an Option in the code) is None, a missing link is NoLink.   *)
(***************************************************************************)
EXTENDS Integers, FiniteSets, Sequences

None == -1

\* A link, by its kind and the routers at its sides A and B.
Link(kind, a, b) == [kind |-> kind, a |-> a, b |-> b]
NoLink == Link("none", <<>>, <<>>)

-----------------------------------------------------------------------------
(* ParcelQueue: the next sequence number, the final length if it is known, *)
(* and the parcels that have arrived and were not popped yet.              *)

Queue(n, final) == [current |-> n, final |-> final, buffer |-> {}]

Holds(q, n) == \E p \in q.buffer : p.seq = n

\* The length of the sequence received without a gap, popped or not. The
\* buffer has finitely many parcels, so a gap is at most that far away.
SequenceLength(q) ==
  CHOOSE n \in q.current .. q.current + Cardinality(q.buffer) :
    /\ ~Holds(q, n)
    /\ \A m \in q.current .. n - 1 : Holds(q, m)

PushAllowed(q, parcel) == parcel.seq >= q.current

\* A parcel with the number of one that is still buffered replaces it.
Push(q, parcel) ==
  [q EXCEPT !.buffer = {p \in @ : p.seq # parcel.seq} \cup {parcel}]

\* The parcels numbered q.current up to n - 1, in order, and the queue without
\* them.
Run(q, n) ==
  [i \in 1 .. n - q.current |->
     CHOOSE p \in q.buffer : p.seq = q.current + i - 1]

PopTo(q, n) ==
  [q EXCEPT !.current = n, !.buffer = {p \in @ : p.seq >= n}]

FinalAllowed(q, length) == length >= q.current
\* Mutant: the length is what has arrived, not what the closure says.
SetFinalReceived(q, length) == [q EXCEPT !.final = SequenceLength(q)]
SetFinal(q, length) == [q EXCEPT !.final = length]

FullyConsumed(q) == q.final # None /\ q.current >= q.final
ExpectsMore(q) == q.final = None \/ q.current < q.final

-----------------------------------------------------------------------------
(* Edge: at most one primary and one decaying link. A decay without a link *)
(* is deferred until the edge is given one. `to` and `from` are the        *)
(* lengths of the sequences the decaying link still carries.               *)

EdgeOn(link) ==
  [primary |-> link, decays |-> FALSE, decaying |-> NoLink, to |-> None, from |-> None]

Bare == EdgeOn(NoLink)

SetPrimaryLink(edge, link) ==
  IF edge.decays /\ edge.decaying = NoLink
  THEN [edge EXCEPT !.decaying = link]
  ELSE [edge EXCEPT !.primary = link]

ReleasePrimaryLink(edge) == [edge EXCEPT !.primary = NoLink]

\* Refused, and without effect, while an earlier decay is under way.
DecayAllowed(edge) == ~edge.decays

BeginPrimaryLinkDecay(edge) ==
  IF DecayAllowed(edge)
  THEN [edge EXCEPT !.primary = NoLink, !.decays = TRUE, !.decaying = edge.primary]
  ELSE edge

SetLengths(edge, to, from) == [edge EXCEPT !.to = to, !.from = from]

ShouldTransmitOnDecayingLink(edge, n) ==
  edge.decaying # NoLink /\ (edge.to = None \/ n < edge.to)

LinkFor(edge, n) ==
  IF ShouldTransmitOnDecayingLink(edge, n) THEN edge.decaying ELSE edge.primary

\* Mutant: the decay waits for one parcel more than the link will carry.
FinishesDecayLate(edge, sent, received) ==
  /\ edge.decaying # NoLink
  /\ edge.to # None /\ edge.from # None
  /\ sent > edge.to /\ received >= edge.from

FinishesDecay(edge, sent, received) ==
  /\ edge.decaying # NoLink
  /\ edge.to # None /\ edge.from # None
  /\ sent >= edge.to /\ received >= edge.from

FinishDecay(edge) == EdgeOn(edge.primary)

HasNoLinks(edge) == edge.primary = NoLink /\ ~edge.decays

-----------------------------------------------------------------------------
(* Router: two queues and two edges. `proxying` says that the inward edge  *)
(* exists; such a router has given its portal away.                        *)

NewTerminal(link) ==
  [outward |-> EdgeOn(link), inward |-> Bare, proxying |-> FALSE,
   inbound |-> Queue(0, None), outbound |-> Queue(0, None), peerClosed |-> FALSE]

\* CollectParcelsToFlush stops at the first gap and at the first parcel without
\* a link to go out on. The end of the run of parcels `edge` can take now:
Goes(q, edge, n) == Holds(q, n) /\ LinkFor(edge, n) # NoLink

CollectEnd(q, edge) ==
  CHOOSE n \in q.current .. q.current + Cardinality(q.buffer) :
    /\ ~Goes(q, edge, n)
    /\ \A m \in q.current .. n - 1 : Goes(q, edge, m)

\* What goes out, as pairs of a link and a parcel.
Collected(q, edge) ==
  [i \in 1 .. CollectEnd(q, edge) - q.current |->
     [link |-> LinkFor(edge, q.current + i - 1),
      parcel |-> Run(q, CollectEnd(q, edge))[i]]]

\* The router after its outbound and its inbound parcels have been collected.
AfterCollect(r) ==
  [r EXCEPT !.outbound = PopTo(@, CollectEnd(@, r.outward)),
            !.inbound = IF r.proxying THEN PopTo(@, CollectEnd(@, r.inward)) ELSE @]

\* The lengths finish_decays compares are the number of parcels popped from
\* the outbound queue and the number received in the inbound queue.
OutwardDecayed(r) ==
  FinishesDecay(r.outward, r.outbound.current, SequenceLength(r.inbound))

InwardDecayed(r) ==
  r.proxying /\ FinishesDecay(r.inward, SequenceLength(r.inbound), r.outbound.current)

AfterDecays(r) ==
  [r EXCEPT !.outward = IF OutwardDecayed(r) THEN FinishDecay(@) ELSE @,
            !.inward = IF InwardDecayed(r) THEN FinishDecay(@) ELSE @]

\* A router with a portal hands it every parcel it can, unless the flush must
\* keep them queued.
PortalTakes(r, keep) ==
  IF keep \/ r.proxying THEN <<>> ELSE Run(r.inbound, SequenceLength(r.inbound))

AfterDelivery(r, keep) ==
  IF keep \/ r.proxying THEN r
  ELSE [r EXCEPT !.inbound = PopTo(@, SequenceLength(@))]

=============================================================================
