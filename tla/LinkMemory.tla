----------------------------- MODULE LinkMemory -----------------------------
(***************************************************************************)
(* The memory that the two nodes of a link share (link_memory.rs) and how  *)
(* a node uses it (routing.rs): blocks for the states of links, counted by *)
(* reference, and for the data of parcels; a request for another buffer    *)
(* when no state can be allocated; parcels that wait for their buffer.     *)
(*                                                                         *)
(* The node is a RoutingAcceptor: one thread, a handler at a time, except  *)
(* that it shares a buffer in one step and initialises it in the next. The *)
(* other side of each link, its peer, is the reference implementation,     *)
(* modelled from what the node expects of it; it runs at any time. A call  *)
(* on a list of free blocks is one step; BlockAllocator has its accesses.  *)
(*                                                                         *)
(* Two things go wrong here, and the properties say how far. The node      *)
(* enters the buffers of every link into the memory of its broker link     *)
(* (`misfiled`), and a peer may use a buffer before the node that shared   *)
(* it initialises it (`early`).                                            *)
(***************************************************************************)
EXTENDS Integers, FiniteSets, Sequences, SequencesExt

CONSTANTS Links, Broker, \* the node's links, and the one to the broker
          PrimarySizes,  \* block sizes of the regions of a primary buffer
          UsableBlocks,  \* blocks of a region, without the first
          DataSizes,     \* sizes of the data of parcels
          MaxBuffers,    \* bound: buffers added to a link
          MaxParcels,    \* bound: parcels put on all links
          MaxStates,     \* bound: states in use on a link when another is allocated
          MaxInFlight,   \* bound: unread messages when a parcel or link is sent
          PrimaryBlocks, \* bound: blocks of a primary region that are used
          Requesters     \* bound: links on which the node asks for capacity

RouterLinkStateSize == 64

ASSUME LinkMemoryAssumption ==
  /\ Broker \in Links /\ RouterLinkStateSize \in PrimarySizes
  /\ PrimarySizes \subseteq {2^k : k \in 6 .. 20}
  /\ DataSizes \subseteq 0 .. 2^20 - 8
  /\ UsableBlocks \in Nat \ {0}
  /\ {MaxBuffers, MaxParcels, MaxStates, MaxInFlight} \subseteq Nat
  /\ PrimaryBlocks \in 0 .. UsableBlocks /\ Requesters \subseteq Links

Sides == {"node", "peer"}
Other(s) == CHOOSE o \in Sides : o # s

\* A region is <<link, buffer, block size>>, a block <<region, index>>; a descriptor
\* does not say in which link's memory its buffer is. Buffers are added for the
\* states of links only: the embedder fixes the capacity for parcels.
Regions == (Links \X {0} \X PrimarySizes)
             \cup (Links \X (1 .. MaxBuffers) \X {RouterLinkStateSize})
Blocks == Regions \X (1 .. UsableBlocks)
BlockOf(l, d) == <<<<l, d.buffer, d.size>>, d.index>>

VARIABLES
  next_buffer_id,   \* shared counter, by link
  free,             \* free blocks, by region
  contents,         \* what was written to a block last
  known,            \* the regions that a side knows on a link, oldest first
  held,             \* link states of the links that a side has
  chan,             \* unread messages to a side, by link
  unsent,           \* buffers that the peer of a link has not announced yet
  pending_fragments,       \* the node's parcels without their buffer, by link
  pending_memory_requests, \* how many, by link
  capacity_pending,        \* links with a request for capacity
  registering,      \* the buffer between its two steps
  error,            \* what made the node give up, and over which buffer
  sent, received,   \* history: how many parcels were put, what was read of which
  lost,             \* history: how references were left that nobody will release
  misfiled,         \* history: buffers that came to the node over other links
  early             \* history: buffers that a peer adopted uninitialised

shared == <<next_buffer_id, free, contents>>
requests == <<pending_memory_requests, capacity_pending, registering>>
wrong == <<misfiled, early>>
vars == <<shared, known, held, chan, unsent, pending_fragments, requests, error,
          sent, received, lost, wrong>>

Region(l, buffer, size) == [of |-> l, buffer |-> buffer, size |-> size]
Place(e) == <<e.of, e.buffer, e.size>>
AllBlocks == [i \in 1 .. UsableBlocks |-> i]
PrimaryRegions(l) == SetToSeq({Region(l, 0, size) : size \in PrimarySizes})

\* A buffer that was just mapped is zero: every block points to the next one, and
\* that the last one points to no block makes pop_block refuse it.
Init ==
  /\ next_buffer_id = [l \in Links |-> 1]
  /\ free = [r \in Regions |-> IF r[2] = 0 THEN SubSeq(AllBlocks, 1, PrimaryBlocks)
                              ELSE Front(AllBlocks)]
  /\ contents = [b \in Blocks |-> <<"none", 0>>]
  /\ known = [s \in Sides |-> [l \in Links |-> PrimaryRegions(l)]]
  /\ held = [s \in Sides |-> [l \in Links |-> {}]]
  /\ chan = [s \in Sides |-> [l \in Links |-> <<>>]]
  /\ unsent = [l \in Links |-> {}]
  /\ pending_fragments = [l \in Links |-> {}]
  /\ pending_memory_requests = [l \in Links |-> 0]
  /\ capacity_pending = {}
  /\ registering = <<>>
  /\ error = <<>>
  /\ sent = 0 /\ received = {}
  /\ lost = [b \in Blocks |-> {}]
  /\ misfiled = {} /\ early = {}

Runs(s) == error = <<>> /\ (registering # <<>> => s = "peer")
Unread == UNION {{<<s, l, i>> : i \in DOMAIN chan[s][l]} : s \in Sides, l \in Links}
MaySend(s, l) == Runs(s) /\ Cardinality(Unread) < MaxInFlight
Send(s, l, m) == chan' = [chan EXCEPT ![Other(s)][l] = Append(@, m)]

-----------------------------------------------------------------------------
(* Allocation.                                                             *)

BlockSizeFor(n) == CHOOSE b \in {2^k : k \in 6 .. 20} :
                     /\ b >= n
                     /\ b > 64 => b < 2 * n

\* The regions of the smallest size that will do.
Serves(s, l, e, n) ==
  /\ e.size >= BlockSizeFor(n)
  /\ \A f \in ToSet(known[s][l]) : f.size >= BlockSizeFor(n) => f.size >= e.size

\* The places among them of those with a free block, of which the newest is taken.
Allocatable(s, l, n) ==
  {i \in DOMAIN known[s][l] :
     Serves(s, l, known[s][l][i], n) /\ free[Place(known[s][l][i])] # <<>>}

CanAllocate(s, l, n) == Allocatable(s, l, n) # {}

Newest(s, l, n) == known[s][l][Max(Allocatable(s, l, n))]

Fragment(s, l, n) ==
  LET e == Newest(s, l, n)
  IN  [buffer |-> e.buffer, size |-> e.size, index |-> Head(free[Place(e)])]

\* pop_block, and what the caller writes to the block before another can see it.
Allocate(s, l, n, content) ==
  LET e == Newest(s, l, n)
  IN  /\ free' = [free EXCEPT ![Place(e)] = Tail(@)]
      /\ contents' = [contents EXCEPT ![<<Place(e), Head(free[Place(e)])>>] = content]

Resolves(regions, d) == \E e \in ToSet(regions) : e.buffer = d.buffer
Locate(regions, d) == LET e == CHOOSE e \in ToSet(regions) :
                                 e.buffer = d.buffer /\ (d.buffer = 0 => e.size = d.size)
                      IN  <<Place(e), d.index>>

\* The header of a free block takes the place of its count or size.
FreeBlock(b) == /\ free' = [free EXCEPT ![b[1]] = <<b[2]>> \o @]
                /\ contents' = [contents EXCEPT ![b] = <<"none", 0>>]

-----------------------------------------------------------------------------
(* Parcels.                                                                *)

Inline == <<>>
AcceptParcel(fragment) == [kind |-> "AcceptParcel", data |-> sent + 1, fragment |-> fragment]

\* Data that is empty or finds no block travels in the message.
PutInline(s, l, n) ==
  /\ MaySend(s, l) /\ sent < MaxParcels
  /\ n = 0 \/ ~CanAllocate(s, l, n + 8)
  /\ Send(s, l, AcceptParcel(Inline))
  /\ sent' = sent + 1
  /\ UNCHANGED <<shared, known, held, unsent, pending_fragments, requests, error, received, lost, wrong>>

PutFragment(s, l, n) ==
  /\ MaySend(s, l) /\ sent < MaxParcels
  /\ n > 0 /\ CanAllocate(s, l, n + 8)
  /\ Allocate(s, l, n + 8, <<"data", sent + 1>>)
  /\ Send(s, l, AcceptParcel(Fragment(s, l, n + 8)))
  /\ sent' = sent + 1
  /\ UNCHANGED <<next_buffer_id, known, held, unsent, pending_fragments, requests, error,
                 received, lost, wrong>>

Read(regions, p) ==
  LET b == Locate(regions, p.fragment)
      damaged == p.fragment # Inline /\ contents[b] # <<"data", p.data>>
  IN  [data |-> p.data, damaged |-> damaged, from |-> IF damaged THEN b[1] ELSE Inline]

Readable(regions, p) == p.fragment = Inline \/ Resolves(regions, p.fragment)

Failure(what, l, buffer) == [what |-> what, link |-> l, buffer |-> buffer]

\* The size of data that is not the parcel's may lead out of the block, which the
\* handler fails on.
ReadAll(l, regions, parcels) ==
  /\ received' = received \cup {Read(regions, p) : p \in parcels}
  /\ \/ UNCHANGED error
     \/ \E p \in parcels : /\ Read(regions, p).damaged
                           /\ error' = Failure("OutOfBounds", l, p.fragment.buffer)

\* The node leaves the fragment allocated.
NodeReads(l, p) ==
  /\ ReadAll(l, known["node"][l], {p})
  /\ UNCHANGED <<free, contents, pending_fragments>>

Defer(l, p) ==
  /\ pending_fragments' = [pending_fragments EXCEPT ![l] = @ \cup {p}]
  /\ UNCHANGED <<free, contents, received, error>>

\* The peer gives the fragment back.
PeerReads(l, p) ==
  /\ received' = received \cup {Read(known["peer"][l], p)}
  /\ IF p.fragment = Inline THEN UNCHANGED <<free, contents>>
     ELSE FreeBlock(Locate(known["peer"][l], p.fragment))
  /\ UNCHANGED <<pending_fragments, error>>

GiveUp(what, l, buffer) == /\ error' = Failure(what, l, buffer)
                           /\ UNCHANGED <<free, contents, received, pending_fragments>>

process_accept_parcel(s, l, p) ==
  /\ IF Readable(known[s][l], p)
     THEN IF s = "node" THEN NodeReads(l, p) ELSE PeerReads(l, p)
     ELSE IF s = "node" THEN Defer(l, p)
     ELSE GiveUp("unknown to the peer", l, p.fragment.buffer)
  /\ chan' = [chan EXCEPT ![s][l] = Tail(@)]
  /\ UNCHANGED <<next_buffer_id, known, held, unsent, requests, sent, lost, wrong>>

-----------------------------------------------------------------------------
(* Links with a shared state.                                              *)

Offer(d) == [kind |-> "Offer", state |-> d]

\* Mutant: the link of this side is not counted.
OnlyTheirs == 1

InitialReferences == 2

\* A new central link, by the transfer of a portal or a bypass: one reference for
\* this side's link and one that goes to the other side with the message.
OfferLink(s, l) ==
  /\ MaySend(s, l) /\ CanAllocate(s, l, RouterLinkStateSize)
  /\ Cardinality({b \in Blocks : b[1][1] = l /\ contents[b][1] = "refs"}) < MaxStates
  /\ Allocate(s, l, RouterLinkStateSize, <<"refs", InitialReferences>>)
  /\ LET d == Fragment(s, l, RouterLinkStateSize)
     IN  /\ held' = [held EXCEPT ![s][l] = @ \cup {d}]
         /\ Send(s, l, Offer(d))
  /\ UNCHANGED <<next_buffer_id, known, unsent, pending_fragments, requests, error,
                 sent, received, lost, wrong>>

\* Adopting a link takes over the sender's reference.
AdoptLink(s, l, d) ==
  /\ held' = [held EXCEPT ![s][l] = @ \cup {d}]
  /\ UNCHANGED <<error, lost>>

\* The router that the node's bypass is for is gone. (The peer adopts, then releases.)
IgnoreLink(l, d) ==
  /\ lost' = [lost EXCEPT ![BlockOf(l, d)] = @ \cup {"ignored"}]
  /\ UNCHANGED <<held, error>>

\* A state that does not resolve ends the node.
RefuseLink(l, d) ==
  /\ error' = Failure("UnknownBuffer", l, d.buffer)
  /\ lost' = [lost EXCEPT ![BlockOf(l, d)] = @ \cup {"ignored"}]
  /\ UNCHANGED held

AcceptLink(s, l, d) ==
  /\ IF Resolves(known[s][l], d) THEN AdoptLink(s, l, d) \/ (s = "node" /\ IgnoreLink(l, d))
     ELSE IF s = "node" THEN RefuseLink(l, d) \/ IgnoreLink(l, d)
     ELSE error' = Failure("unknown to the peer", l, d.buffer) /\ UNCHANGED <<held, lost>>
  /\ chan' = [chan EXCEPT ![s][l] = Tail(@)]
  /\ UNCHANGED <<shared, known, unsent, pending_fragments, requests, sent, received, wrong>>

\* Mutant: the comparison is made after the subtraction.
LastAfterwards(refs) == refs - 1 = 1

IsLast(refs) == refs = 1

\* release_link_state: a link has decayed, or its router is removed. The count is in
\* the word that holds the size of the data when a parcel has the block; it wraps
\* around below zero, which a negative number stands for.
ReleaseLink(s, l, d) ==
  LET b == Locate(known[s][l], d)
      refs == contents[b][2]
  IN  /\ Runs(s)
      /\ held' = [held EXCEPT ![s][l] = @ \ {d}]
      /\ IF IsLast(refs) THEN FreeBlock(b)
         ELSE UNCHANGED free /\ contents' = [contents EXCEPT ![b] = <<@[1], refs - 1>>]
      /\ UNCHANGED <<next_buffer_id, known, chan, unsent, pending_fragments,
                     requests, error, sent, received, lost, wrong>>

\* The node closes or disconnects a route: its link goes, its reference does not.
CloseLink(l, d) ==
  /\ Runs("node")
  /\ held' = [held EXCEPT !["node"][l] = @ \ {d}]
  /\ lost' = [lost EXCEPT ![Locate(known["node"][l], d)] = @ \cup {"closed"}]
  /\ UNCHANGED <<shared, known, chan, unsent, pending_fragments, requests, error, sent, received, wrong>>

-----------------------------------------------------------------------------
(* More buffers.                                                           *)

\* Bound: buffers that were asked for count.
MoreBuffers(l) == next_buffer_id[l] + pending_memory_requests[l] <= MaxBuffers

\* No state for a transfer or for the bypass of a bridge: the node asks for capacity,
\* unless it has done so already, and makes do without.
request_block_capacity(l) ==
  /\ Runs("node") /\ ~CanAllocate("node", l, RouterLinkStateSize) /\ MoreBuffers(l)
  /\ l \notin capacity_pending /\ l \in Requesters
  /\ capacity_pending' = capacity_pending \cup {l}
  /\ pending_memory_requests' = [pending_memory_requests EXCEPT ![l] = @ + 1]
  /\ Send("node", l, [kind |-> "RequestMemory"])
  /\ UNCHANGED <<shared, known, held, unsent, pending_fragments, registering, error, sent,
                 received, lost, wrong>>

ProvideMemory(l) ==
  /\ chan' = [chan EXCEPT !["peer"][l] = Tail(@),
                          !["node"][l] = Append(@, [kind |-> "ProvideMemory"])]
  /\ UNCHANGED <<shared, known, held, unsent, pending_fragments, requests, error, sent,
                 received, lost, wrong>>

\* Mutant: the counter is read and not advanced.
ReuseBufferId(l) == UNCHANGED next_buffer_id

AllocateNewBufferId(l) == next_buffer_id' = [next_buffer_id EXCEPT ![l] = @ + 1]

AddBlockBuffer(id, size) == [kind |-> "AddBlockBuffer", buffer |-> id, size |-> size]

\* The first step of on_provide_memory: name the buffer and share it.
ShareBuffer(l) ==
  /\ pending_memory_requests' = [pending_memory_requests EXCEPT ![l] = @ - 1]
  /\ AllocateNewBufferId(l)
  /\ chan' = [chan EXCEPT
               !["node"][l] = Tail(@),
               !["peer"][l] = Append(@, AddBlockBuffer(next_buffer_id[l], RouterLinkStateSize))]
  /\ registering' = <<l, next_buffer_id[l]>>
  /\ UNCHANGED <<free, contents, capacity_pending, error, received, pending_fragments>>

on_provide_memory(l) ==
  /\ IF pending_memory_requests[l] > 0 THEN ShareBuffer(l)
     ELSE /\ GiveUp("ProvideMemory without a pending request", l, 0)
          /\ chan' = [chan EXCEPT !["node"][l] = Tail(@)]
          /\ UNCHANGED <<next_buffer_id, requests>>
  /\ UNCHANGED <<known, held, unsent, sent, lost, wrong>>

\* A name is in the table once, and in the order of insertion as often as it was added.
InPlaceOf(regions, e) ==
  [i \in DOMAIN regions |-> IF regions[i].buffer = e.buffer THEN e ELSE regions[i]]

\* The second step: zero the buffer and use it, in place of one of that name.
register_block_buffer ==
  /\ error = <<>> /\ registering # <<>>
  /\ LET l == registering[1]
         e == Region(l, registering[2], RouterLinkStateSize)
     IN  /\ free' = [free EXCEPT ![Place(e)] = AllBlocks]
         /\ contents' = [b \in Blocks |-> IF b[1] = Place(e) THEN <<"none", 0>> ELSE contents[b]]
         /\ known' = [known EXCEPT !["node"][l] = Append(InPlaceOf(@, e), e)]
         /\ capacity_pending' = capacity_pending \ {l}
  /\ registering' = <<>>
  /\ UNCHANGED <<next_buffer_id, held, chan, unsent, pending_fragments,
                 pending_memory_requests, error, sent, received, lost, wrong>>

\* The node enters a buffer into the memory of its broker link, whichever link the
\* message came over.
Table(s, l) == IF s = "node" THEN Broker ELSE l

\* Mutant: the parcels that wait for the buffer are left.
WakeNone(p, id) == FALSE

WaitsFor(p, id) == p.fragment.buffer = id

\* A new buffer, then the parcels that wait for one of its name on this link. One
\* whose buffer is still not there waits again.
add_block_buffer(s, l, id, size) ==
  /\ known' = [known EXCEPT ![s][Table(s, l)] = Append(@, Region(l, id, size))]
  /\ LET woken == {p \in pending_fragments[l] : /\ s = "node" /\ WaitsFor(p, id)
                                                /\ Resolves(known'[s][l], p.fragment)}
     IN  /\ ReadAll(l, known'[s][l], woken)
         /\ pending_fragments' = [pending_fragments EXCEPT ![l] = @ \ woken]
  /\ UNCHANGED <<free, contents>>

AcceptBuffer(s, l, id, size) ==
  /\ IF Resolves(known[s][Table(s, l)], [buffer |-> id])
     THEN GiveUp("duplicate buffer id", l, id) /\ UNCHANGED known
     ELSE add_block_buffer(s, l, id, size)
  /\ chan' = [chan EXCEPT ![s][l] = Tail(@)]
  /\ misfiled' = misfiled \cup {m \in {<<l, id>>} : s = "node" /\ l # Broker}
  /\ early' = early \cup {m \in {<<l, id>>} : s = "peer" /\ registering = m}
  /\ UNCHANGED <<next_buffer_id, held, unsent, requests, sent, lost>>

\* The peer adds a buffer of its own. What it sends meanwhile on other threads can
\* arrive before the message with the buffer.
PeerAddsBuffer(l) ==
  /\ Runs("peer") /\ MoreBuffers(l)
  /\ LET e == Region(l, next_buffer_id[l], RouterLinkStateSize)
     IN  /\ AllocateNewBufferId(l)
         /\ free' = [free EXCEPT ![Place(e)] = AllBlocks]
         /\ known' = [known EXCEPT !["peer"][l] = Append(@, e)]
         /\ unsent' = [unsent EXCEPT ![l] = @ \cup {e}]
  /\ UNCHANGED <<contents, held, chan, pending_fragments, requests, error, sent, received, lost, wrong>>

PeerSendsBuffer(l) ==
  \E e \in unsent[l] :
    /\ Runs("peer")
    /\ unsent' = [unsent EXCEPT ![l] = @ \ {e}]
    /\ Send("peer", l, AddBlockBuffer(e.buffer, e.size))
    /\ UNCHANGED <<shared, known, held, pending_fragments, requests, error, sent, received, lost, wrong>>

-----------------------------------------------------------------------------
Dispatch(s, l, m) ==
  \/ m.kind = "AcceptParcel" /\ process_accept_parcel(s, l, m)
  \/ m.kind = "Offer" /\ AcceptLink(s, l, m.state)
  \/ m.kind = "AddBlockBuffer" /\ AcceptBuffer(s, l, m.buffer, m.size)
  \/ m.kind = "RequestMemory" /\ ProvideMemory(l)
  \/ m.kind = "ProvideMemory" /\ on_provide_memory(l)

Receive(s, l) == Runs(s) /\ chan[s][l] # <<>> /\ Dispatch(s, l, Head(chan[s][l]))

Next ==
  \/ register_block_buffer
  \/ \E l \in Links :
       \/ \E d \in held["node"][l] : CloseLink(l, d)
       \/ request_block_capacity(l)
       \/ PeerSendsBuffer(l)
       \/ PeerAddsBuffer(l)
       \/ \E s \in Sides :
            \/ Receive(s, l)
            \/ OfferLink(s, l)
            \/ \E d \in held[s][l] : ReleaseLink(s, l, d)
            \/ \E n \in DataSizes : PutInline(s, l, n) \/ PutFragment(s, l, n)

Spec == Init /\ [][Next]_vars

\* A handler goes on to its end, both sides read what arrives, and a buffer that the
\* peer adds is announced.
Fairness ==
  /\ WF_vars(register_block_buffer)
  /\ \A l \in Links : WF_vars(PeerSendsBuffer(l)) /\ \A s \in Sides : WF_vars(Receive(s, l))

FairSpec == Spec /\ Fairness

-----------------------------------------------------------------------------
OnTheWay(s, l, kind) == {i \in DOMAIN chan[s][l] : chan[s][l][i].kind = kind}

\* The references to a state that there are: of links, of messages, and lost ones.
Holders(b) == {s \in Sides : \E l \in Links : \E d \in held[s][l] : BlockOf(l, d) = b}
Offered(s, l, b) == {i \in OnTheWay(s, l, "Offer") : BlockOf(l, chan[s][l][i].state) = b}
References(b) ==
  Cardinality(Holders(b)) + Cardinality(lost[b])
    + Cardinality(UNION {{<<s, l, i>> : i \in Offered(s, l, b)} : s \in Sides, l \in Links})

IsFree(b) == b[2] \in ToSet(free[b[1]])

(* A name for which the tables of a link's two sides need not agree, and   *)
(* the buffers that the properties except.                                 *)
Misfiled(l, buffer) == \E m \in misfiled : m[2] = buffer /\ l \in {m[1], Broker}
Excepted(l, buffer) == Misfiled(l, buffer) \/ <<l, buffer>> \in early

(* The count in a link state is the number of references to it, on either  *)
(* side, in messages and lost, and is zero for no state that is allocated; *)
(* no reference leads to a free block, and no block is in its list twice.  *)
(* So no state goes back before its last reference is released, nor twice. *)
(* A reference that a closure or a disconnection left is never released,   *)
(* and its state never goes back. Excepted are blocks in buffers whose     *)
(* name is misfiled or that a peer adopted before they were initialised.   *)
StatesCounted ==
  /\ \A b \in Blocks : ~Excepted(b[1][1], b[1][2]) =>
       IF IsFree(b) THEN References(b) = 0
       ELSE contents[b][1] = "refs" => contents[b][2] = References(b) /\ References(b) > 0
  /\ \A r \in Regions : ~Excepted(r[1], r[2]) => IsInjective(free[r])

(* What is read of a parcel is what was put, also when it had to wait for  *)
(* its buffer while other blocks came and went, unless its data is in an   *)
(* excepted buffer.                                                        *)
PayloadIntact ==
  \A r \in received : r.damaged => Excepted(r.from[1], r.from[2])

(* Names of buffers do not collide, answers find their request, and what   *)
(* the node sends never refers to a buffer that the peer does not have.    *)
(* The node gives up on one occasion only: the state of a link arrives     *)
(* before the very buffer that it is in, which a parcel's data may do.     *)
(* Anything may go wrong over an excepted buffer.                          *)
OnlyOvertakingFails ==
  error # <<>> =>
    \/ Excepted(error.link, error.buffer)
    \/ /\ error.what = "UnknownBuffer"
       /\ \/ \E e \in unsent[error.link] : e.buffer = error.buffer
          \/ \E i \in OnTheWay("node", error.link, "AddBlockBuffer") :
               chan["node"][error.link][i].buffer = error.buffer

(* Every parcel that was put is read, by way of a buffer that comes late   *)
(* too; but one whose buffer came over another link than the broker's may  *)
(* wait for ever.                                                          *)
ParcelsArrive ==
  \A k \in 1 .. MaxParcels :
    sent >= k ~> \/ error # <<>>
                 \/ \E r \in received : r.data = k
                 \/ \E l \in Links : \E p \in pending_fragments[l] :
                      p.data = k /\ Misfiled(l, p.fragment.buffer)
=============================================================================
