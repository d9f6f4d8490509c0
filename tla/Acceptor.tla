------------------------------ MODULE Acceptor ------------------------------
(***************************************************************************)
(* The acceptor (acceptor.rs): a node without a broker role that takes the *)
(* broker's greeting, waits for a message on the bootstrap pipe, answers   *)
(* it and closes the pipe.  Meanwhile the broker may move its end of the   *)
(* pipe, so that the acceptor is told to use another sublink.              *)
(*                                                                         *)
(* Here is the state of the acceptor as a record, and what each message    *)
(* makes of it; MessageStream has the channel that brings the messages.    *)
(* Sublinks and lengths are u64 in messages, two words, and numbers here.  *)
(* All errors end the run and are not told apart.                          *)
(***************************************************************************)
EXTENDS NodeMessages, SequencesExt

CONSTANT MAX_INITIAL_PORTALS     \* 12 in the code

ASSUME MaxPortalsAssumption == MAX_INITIAL_PORTALS \in Nat \ {0, 1}

PRIMARY_BUFFER_SIZE == 128 * 1024

MIN_FRAGMENT_SIZE == 64

INITIAL_LINK_STATES_OFFSET == 256

ROUTER_LINK_STATE_SIZE == 64

BootstrapSublink == 1

(* "hello-from-broker", as one word.                                       *)
HelloFromBroker == <<401>>

Number(words) == words[1]

NoEdge == [sublink |-> -1, link_state |-> NullFragment]

(* Acceptor::new.  routers, early_parcels and pending_split are the hash   *)
(* maps of the code; link_states are the ones marked stable for side B,    *)
(* and answers the messages sent to the broker.                            *)
NewAcceptor ==
  [connected |-> FALSE, failed |-> FALSE, buffers |-> {0}, routers |-> <<>>,
   early_parcels |-> <<>>, pending_split |-> <<>>, reply_ready |-> FALSE,
   link_states |-> {}, answers |-> <<>>]

Failed(a) == [a EXCEPT !.failed = TRUE]

Answer(kind, sublink, number) == [kind |-> kind, sublink |-> sublink, number |-> number]

-----------------------------------------------------------------------------
(* connect.                                                                *)

(* parse_shared_buffer_driver_object: a SharedBuffer of the right size.    *)
IsLinkMemory(object) ==
  /\ object.num_fds = 1
  /\ Len(object.data) >= 10
  /\ SubSeq(object.data, 1, 4) = <<8, 1, 32, PRIMARY_BUFFER_SIZE>>

InitialLinkState(i) ==
  <<0, 0, INITIAL_LINK_STATES_OFFSET + ROUTER_LINK_STATE_SIZE * i, ROUTER_LINK_STATE_SIZE>>

(* Portal 1 is the bootstrap pipe; 0 is internal; the rest, and those that *)
(* the broker does not have, are closed.                                   *)
InitialRouter(i, broker_portals) ==
  [has_portal |-> i = 1 /\ i < broker_portals, messages |-> <<>>,
   primary |-> [sublink |-> i, link_state |-> InitialLinkState(i)], decaying |-> NoEdge,
   outbound_seq |-> 0, inbound_seq |-> 0, closed |-> i > 1 \/ i >= broker_portals]

connect(a, m, fds) ==
  IF \/ m.kind # "ConnectFromBrokerToNonBroker"
     \/ m.f.num_initial_portals[1] > MAX_INITIAL_PORTALS
     \/ Len(fds) # 1 \/ ~IsLinkMemory(m.objects[1])
  THEN Failed(a)
  ELSE LET broker_portals == m.f.num_initial_portals[1]
       IN  [a EXCEPT
              !.connected = TRUE,
              !.answers = <<Answer("ConnectFromNonBrokerToBroker", 0, 0)>>,
              !.routers = [i \in 0 .. MAX_INITIAL_PORTALS - 1 |->
                             InitialRouter(i, broker_portals)],
              !.link_states = {InitialLinkState(i) : i \in 0 .. broker_portals - 1}]

-----------------------------------------------------------------------------
(* Parcels.                                                                *)

(* The link memory: a fragment lies in a buffer that is known, within it.  *)
(* The size of a buffer that was added is that of its descriptor, which    *)
(* the broker made; it is taken to be large enough.                        *)
Resolves(a, f) ==
  /\ ~is_null(f) /\ f[3] % 8 = 0
  /\ f[1] \in a.buffers /\ f[2] = 0
  /\ f[1] = 0 => f[3] + f[4] <= PRIMARY_BUFFER_SIZE

(* read_parcel_fragment: what the broker has put there, its message.       *)
read_parcel_fragment(f) == HelloFromBroker

QueuedFor(a, sublink) ==
  IF sublink \in DOMAIN a.early_parcels THEN a.early_parcels[sublink] ELSE <<>>

Without(map, key) == [k \in DOMAIN map \ {key} |-> map[k]]

deliver_parcel(a, sublink, sequence_number, parcel) ==
  IF sublink \notin DOMAIN a.routers
  THEN [a EXCEPT !.early_parcels = (sublink :> Append(QueuedFor(a, sublink), parcel)) @@ @]
  ELSE IF sequence_number # a.routers[sublink].inbound_seq THEN Failed(a)
  ELSE LET to_portal == a.routers[sublink].has_portal
       IN  [a EXCEPT
              !.routers[sublink].inbound_seq = @ + 1,
              !.routers[sublink].messages = IF to_portal THEN Append(@, parcel) ELSE @,
              !.reply_ready = @ \/ (to_portal /\ sublink = BootstrapSublink)]

(* unwrap_wrapped_platform_handle.                                         *)
IsWrappedHandle(object, fds) ==
  /\ object.num_fds = 1 /\ object.first_fd < Len(fds)
  /\ Len(object.data) >= 4
  /\ object.data[1] = 8 /\ object.data[2] = 4
  /\ object.data[3] >= 8 /\ object.data[3] % 8 = 0 /\ object.data[4] = 0

Unwrapped(objects, fds) == [i \in DOMAIN objects |-> fds[objects[i].first_fd + 1]]

BOXED_DRIVER_OBJECT == 1

RELAYED_DRIVER_OBJECT == 2

CountOf(seq, x) == Len(SelectSeq(seq, LAMBDA y : y = x))

ParcelAccepted(a, p, fds) ==
  /\ p.f.num_subparcels[1] = 1 /\ p.f.subparcel_index[1] = 0
  /\ is_null(p.f.parcel_fragment) \/ Resolves(a, p.f.parcel_fragment)
  /\ \A i \in DOMAIN p.handle_types :
       p.handle_types[i] \in {BOXED_DRIVER_OBJECT, RELAYED_DRIVER_OBJECT}
  /\ CountOf(p.handle_types, BOXED_DRIVER_OBJECT) = Len(p.objects)
  /\ \A i \in DOMAIN p.objects : IsWrappedHandle(p.objects[i], fds)

SplitKey(p) == <<Number(p.f.sublink), Number(p.f.sequence_number)>>

DataHalf(p) == [half |-> "Data", data |-> p.data,
                placeholders |-> CountOf(p.handle_types, RELAYED_DRIVER_OBJECT)]

ObjectsHalf == [half |-> "Objects", data |-> <<>>, placeholders |-> 0]

(* on_accept_parcel: a data half takes the place of whatever is pending    *)
(* under its key, an objects half too.  It is kept as it came, without the *)
(* data that a fragment holds.                                             *)
on_accept_parcel(a, p, fds) ==
  IF ~ParcelAccepted(a, p, fds) THEN Failed(a)
  ELSE IF RELAYED_DRIVER_OBJECT \in Range(p.handle_types)
  THEN [a EXCEPT !.pending_split = (SplitKey(p) :> DataHalf(p)) @@ @]
  ELSE deliver_parcel(a, Number(p.f.sublink), Number(p.f.sequence_number),
         [data |-> IF is_null(p.f.parcel_fragment) THEN p.data
                   ELSE read_parcel_fragment(p.f.parcel_fragment),
          fds |-> Unwrapped(p.objects, fds)])

(* on_accept_parcel_objects: objects that come first are kept, though not  *)
(* their descriptors.                                                      *)
on_accept_parcel_objects(a, p, fds) ==
  LET key == SplitKey(p)
  IN  IF \E i \in DOMAIN p.objects : ~IsWrappedHandle(p.objects[i], fds) THEN Failed(a)
      ELSE IF key \notin DOMAIN a.pending_split
      THEN [a EXCEPT !.pending_split = (key :> ObjectsHalf) @@ @]
      ELSE IF \/ a.pending_split[key].half = "Objects"
              \/ a.pending_split[key].placeholders # Len(p.objects)
      THEN Failed(a)
      ELSE deliver_parcel([a EXCEPT !.pending_split = Without(@, key)], key[1], key[2],
             [data |-> a.pending_split[key].data, fds |-> Unwrapped(p.objects, fds)])

-----------------------------------------------------------------------------
(* Routes.                                                                 *)

(* inbound_by_edge: parcels are counted under the sublink by which the     *)
(* router is found, which is its initial one.                              *)
Received(r, key) == IF r.primary.sublink = key THEN r.inbound_seq ELSE 0

(* The parcels queued for a sublink are delivered to it, all with sequence *)
(* number 0.                                                               *)
DrainEarly(a, sublink) ==
  FoldLeft(LAMBDA b, parcel : deliver_parcel(b, sublink, 0, parcel),
           [a EXCEPT !.early_parcels = Without(@, sublink)], QueuedFor(a, sublink))

(* on_bypass_peer_with_link: the new link takes the place of the old one,  *)
(* which decays; the router stays under its old sublink.                   *)
on_bypass_peer_with_link(a, b) ==
  LET key  == Number(b.f.sublink)
      link == [sublink |-> Number(b.f.new_sublink), link_state |-> b.f.new_link_state_fragment]
  IN  IF ~Resolves(a, link.link_state) \/ key \notin DOMAIN a.routers THEN Failed(a)
      ELSE LET r       == a.routers[key]
               drained == Received(r, key) >= Number(b.f.inbound_sequence_length)
           IN  IF drained /\ link.link_state[4] < ROUTER_LINK_STATE_SIZE THEN Failed(a)
               ELSE DrainEarly(
                      [a EXCEPT
                         !.routers[key].primary = link,
                         !.routers[key].decaying = IF drained THEN NoEdge ELSE r.primary,
                         !.link_states = IF drained THEN @ \cup {link.link_state} ELSE @,
                         !.answers = Append(@, Answer("StopProxyingToLocalPeer",
                                                      r.primary.sublink, r.outbound_seq))],
                      link.sublink)

(* RouteClosed and RouteDisconnected.                                      *)
close_router(a, sublink) ==
  IF sublink \in DOMAIN a.routers THEN [a EXCEPT !.routers[sublink].closed = TRUE] ELSE a

(* AddBlockBuffer, with add_block_buffer of the link memory.               *)
add_block_buffer(a, m, fds) ==
  LET id == Number(m.f.buffer_id)
  IN  IF \/ m.f.buffer_index[1] >= Len(fds)
         \/ m.f.buffer_id = INVALID_BUFFER_ID
         \/ m.f.block_size[1] < MIN_FRAGMENT_SIZE \/ m.f.block_size[1] % 8 # 0
         \/ id \in a.buffers \ {0}
      THEN Failed(a)
      ELSE [a EXCEPT !.buffers = @ \cup {id}]

dispatch(a, m, fds) ==
  CASE m.kind = "AddBlockBuffer" -> add_block_buffer(a, m, fds)
    [] m.kind = "AcceptParcel" -> on_accept_parcel(a, m, fds)
    [] m.kind = "AcceptParcelDriverObjects" -> on_accept_parcel_objects(a, m, fds)
    [] m.kind \in {"RouteClosed", "RouteDisconnected"} -> close_router(a, Number(m.f.sublink))
    [] m.kind = "BypassPeerWithLink" -> on_bypass_peer_with_link(a, m)
    [] m.kind \in {"StopProxyingToLocalPeer", "FlushRouter"} -> a
    [] OTHER -> Failed(a)

-----------------------------------------------------------------------------
(* Mutant: the old link is used until it has decayed.                      *)
outbound_sublinkDecaying(r) ==
  IF r.decaying # NoEdge THEN r.decaying.sublink ELSE r.primary.sublink

outbound_sublink(r) == r.primary.sublink

(* send_reply, and the closure with which exchange ends.  The content of   *)
(* the descriptor is the broker's, and in order.                           *)
ReplyDue(a) == a.connected /\ a.reply_ready

send_reply(a) ==
  LET r       == a.routers[BootstrapSublink]
      parcel  == Head(r.messages)
  IN  IF parcel.data # HelloFromBroker \/ Len(parcel.fds) # 1 THEN Failed(a)
      ELSE [a EXCEPT
              !.routers[BootstrapSublink].messages = Tail(@),
              !.routers[BootstrapSublink].outbound_seq = @ + 1,
              !.answers = @ \o <<Answer("AcceptParcel", outbound_sublink(r), r.outbound_seq),
                                 Answer("RouteClosed", outbound_sublink(r),
                                        r.outbound_seq + 1)>>]
=============================================================================
