---------------------------- MODULE NodeMessages ----------------------------
(***************************************************************************)
(* The messages of a node link as they lie in memory (messages.rs and the  *)
(* MessageBuilder of wire.rs).  A payload is a sequence of 32-bit words: a *)
(* header of 24 bytes, a parameter struct, and the arrays that follow it.  *)
(* Offsets and sizes are in bytes, as in the code, and multiples of four.  *)
(* A field of 64 bits is a sequence of two words, a NodeName (high, low)   *)
(* or a FragmentDescriptor (buffer_id, offset, size) one of four.  A word  *)
(* of all ones is written -1: it is less than no offset and no size, and   *)
(* the checks of a lower bound see to that.                                *)
(*                                                                         *)
(* Encode is what the sender writes; MessageDecoder has what the receiver  *)
(* makes of any payload.  The two were written separately, from offsets    *)
(* that appear in no common place, which is why they are compared.         *)
(***************************************************************************)
EXTENDS Integers, Sequences, TLC

Zeros(n) == [i \in 1 .. n |-> 0]

align8(n) == ((n + 7) \div 8) * 8

MESSAGE_HEADER_SIZE == 24

(* The word at a byte offset of a payload.                                 *)
WordAt(p, off) == p[off \div 4 + 1]

(* The words from byte offset s to byte offset e.                          *)
Slice(p, s, e) == SubSeq(p, s \div 4 + 1, e \div 4)

-----------------------------------------------------------------------------
(* The message structs, field by field.                                    *)

ConnectStructs ==
  [ConnectFromBrokerToNonBroker |->
     {"broker_name", "receiver_name", "protocol_version",
      "num_initial_portals", "buffer_index"},
   ConnectFromNonBrokerToBroker |-> {"protocol_version", "num_initial_portals"},
   ReferNonBroker |-> {"referral_id", "num_initial_portals", "transport_index"},
   ConnectToReferredBroker |-> {"protocol_version", "num_initial_portals"},
   ConnectToReferredNonBroker |->
     {"name", "broker_name", "referrer_name", "broker_protocol_version",
      "referrer_protocol_version", "num_initial_portals",
      "broker_link_buffer_index", "referrer_link_transport_index",
      "referrer_link_buffer_index"},
   NonBrokerReferralAccepted |->
     {"referral_id", "protocol_version", "num_initial_portals", "name",
      "transport_index", "buffer_index"},
   NonBrokerReferralRejected |-> {"referral_id"},
   ConnectFromBrokerToBroker |->
     {"name", "protocol_version", "num_initial_portals", "buffer_index"}]

IntroductionStructs ==
  [RequestIntroduction |-> {"name"},
   AcceptIntroduction |->
     {"name", "link_side", "remote_node_type", "remote_protocol_version",
      "transport_index", "memory_index"},
   RejectIntroduction |-> {"name"},
   RequestIndirectIntroduction |-> {"source_node", "target_node"}]

ParcelStructs ==
  [AcceptParcel |->
     {"sublink", "sequence_number", "subparcel_index", "num_subparcels",
      "parcel_fragment"},
   AcceptParcelDriverObjects |-> {"sublink", "sequence_number"}]

RouteStructs ==
  [RouteClosed |-> {"sublink", "sequence_length"},
   RouteDisconnected |-> {"sublink"},
   BypassPeerWithLink |->
     {"sublink", "new_sublink", "new_link_state_fragment",
      "inbound_sequence_length"},
   BypassPeer |-> {"sublink", "bypass_target_node", "bypass_target_sublink"},
   AcceptBypassLink |->
     {"current_peer_node", "current_peer_sublink",
      "inbound_sequence_length_from_bypassed_link", "new_sublink",
      "new_link_state_fragment"},
   StopProxying |->
     {"sublink", "inbound_sequence_length", "outbound_sequence_length"},
   ProxyWillStop |-> {"sublink", "inbound_sequence_length"},
   StopProxyingToLocalPeer |-> {"sublink", "outbound_sequence_length"},
   FlushRouter |-> {"sublink"}]

MemoryStructs ==
  [AddBlockBuffer |-> {"buffer_id", "block_size", "buffer_index"},
   RequestMemory |-> {"size"},
   ProvideMemory |-> {"size"}]

Kinds ==
  DOMAIN ConnectStructs \cup DOMAIN IntroductionStructs \cup DOMAIN ParcelStructs
    \cup DOMAIN RouteStructs \cup DOMAIN MemoryStructs

Structs ==
  [k \in Kinds |-> CASE k \in DOMAIN ConnectStructs -> ConnectStructs[k]
                     [] k \in DOMAIN IntroductionStructs -> IntroductionStructs[k]
                     [] k \in DOMAIN ParcelStructs -> ParcelStructs[k]
                     [] k \in DOMAIN RouteStructs -> RouteStructs[k]
                     [] k \in DOMAIN MemoryStructs -> MemoryStructs[k]]

(* Fields of four words, and of one; every other field is a u64.           *)
WideFields ==
  {"name", "broker_name", "receiver_name", "referrer_name", "source_node",
   "target_node", "bypass_target_node", "current_peer_node",
   "parcel_fragment", "new_link_state_fragment"}

NarrowFields ==
  {"protocol_version", "num_initial_portals", "buffer_index",
   "transport_index", "memory_index", "broker_protocol_version",
   "referrer_protocol_version", "broker_link_buffer_index",
   "referrer_link_transport_index", "referrer_link_buffer_index",
   "link_side", "remote_node_type", "remote_protocol_version",
   "subparcel_index", "num_subparcels", "block_size", "size"}

Width(n) == IF n \in WideFields THEN 4 ELSE IF n \in NarrowFields THEN 1 ELSE 2

Words(n) == [1 .. n -> Int]

(* RouterDescriptor.                                                       *)
RouterDescriptors ==
  [closed_peer_sequence_length : Words(2), new_sublink : Words(2),
   new_link_state_fragment : Words(4), new_decaying_sublink : Words(2),
   next_outgoing_sequence_number : Words(2), next_incoming_sequence_number : Words(2),
   decaying_incoming_sequence_length : Words(2), peer_closed : BOOLEAN,
   proxy_already_bypassed : BOOLEAN, proxy_peer_node_name : Words(4),
   proxy_peer_sublink : Words(2)]

(* What is there to encode: the fields that the struct of its kind has,    *)
(* each of its width, and objects, which a u16 counts, data, handle types  *)
(* and routers.                                                            *)
IsMessage(m) ==
  /\ m.kind \in Kinds
  /\ \A n \in Structs[m.kind] : m.f[n] \in Words(Width(n))
  /\ m.objects \in Seq(Seq(Int)) /\ Len(m.objects) < 65536
  /\ m.data \in Seq(Int)
  /\ m.handle_types \in Seq(Int) /\ m.new_routers \in Seq(RouterDescriptors)

message_id ==
  [ConnectFromBrokerToNonBroker |-> 0, ConnectFromNonBrokerToBroker |-> 1,
   ReferNonBroker |-> 2, ConnectToReferredBroker |-> 3,
   ConnectToReferredNonBroker |-> 4, NonBrokerReferralAccepted |-> 5,
   NonBrokerReferralRejected |-> 6, ConnectFromBrokerToBroker |-> 7,
   RequestIntroduction |-> 10, AcceptIntroduction |-> 11,
   RejectIntroduction |-> 12, RequestIndirectIntroduction |-> 13,
   AddBlockBuffer |-> 14, AcceptParcel |-> 20,
   AcceptParcelDriverObjects |-> 21, RouteClosed |-> 22,
   RouteDisconnected |-> 23, BypassPeer |-> 30, AcceptBypassLink |-> 31,
   StopProxying |-> 32, ProxyWillStop |-> 33, BypassPeerWithLink |-> 34,
   StopProxyingToLocalPeer |-> 35, FlushRouter |-> 36,
   RequestMemory |-> 64, ProvideMemory |-> 65]

-----------------------------------------------------------------------------
(* MessageBuilder.                                                         *)

(* append_params: the struct header, the fields, and zeros up to 8 bytes.  *)
append_params(fields) ==
  LET padded == align8(8 + 4 * Len(fields))
  IN  <<padded, 0>> \o fields \o Zeros((padded - 8) \div 4 - Len(fields))

(* append_array: nothing for no elements; its offset is then 0.            *)
append_array(words, elements) ==
  LET padded == align8(8 + 4 * Len(words))
  IN  IF words = <<>> THEN <<>>
      ELSE <<padded, elements>> \o words \o Zeros((padded - 8) \div 4 - Len(words))

(* The bytes that an array of so many words takes, and the offset it has   *)
(* at a position of the payload.                                           *)
ArraySize(words) == IF words = <<>> THEN 0 ELSE align8(8 + 4 * Len(words))

ArrayOffset(words, position) == IF words = <<>> THEN 0 ELSE position

(* append_driver_objects, after a payload of `base` bytes: one entry per   *)
(* object, with the offset of its data, its first descriptor and the       *)
(* number of them, 1; then the data, one array per object.  The offsets    *)
(* are computed ahead, and an object without data advances them too.       *)
ObjectEntries(base, objects) ==
  LET DataOffset[i \in 1 .. Len(objects)] ==
        IF i = 1 THEN base + align8(8 + 8 * Len(objects))
        ELSE DataOffset[i - 1] + align8(8 + 4 * Len(objects[i - 1]))
      Entry[i \in 0 .. Len(objects)] ==
        IF i = 0 THEN <<>>
        ELSE Entry[i - 1] \o <<IF objects[i] = <<>> THEN 0 ELSE DataOffset[i],
                               (i - 1) + 65536>>
  IN  Entry[Len(objects)]

append_driver_objects(base, objects) ==
  LET Data[i \in 0 .. Len(objects)] ==
        IF i = 0 THEN <<>>
        ELSE Data[i - 1] \o append_array(objects[i], 4 * Len(objects[i]))
  IN  append_array(ObjectEntries(base, objects), Len(objects))
        \o Data[Len(objects)]

(* build: the header, with the id and the offset of the object array; the  *)
(* sequence number is filled in when the message is sent.                  *)
build(kind, doa, body) ==
  <<MESSAGE_HEADER_SIZE + 65536 * message_id[kind], 0, 0, 0, doa, 0>> \o body

(* A message of parameters, arrays behind them, and driver objects.        *)
Built(kind, body, objects) ==
  LET base == MESSAGE_HEADER_SIZE + 4 * Len(body)
  IN  build(kind, IF objects = <<>> THEN 0 ELSE base,
            body \o append_driver_objects(base, objects))

set_message_sequence_number(p, seq) == [p EXCEPT ![3] = seq, ![4] = 0]

-----------------------------------------------------------------------------
(* Encoding.  A message has a kind, fields f, and for a parcel inline      *)
(* data, handle types and router descriptors; objects are the serialized   *)
(* driver objects of any message.                                          *)

(* encode_transport_object and encode_shared_buffer_object.                *)
encode_transport_object(destination_type) == <<8, 0, destination_type, 0>>

MOJO_BUFFER_MODE_UNSAFE == 2

encode_shared_buffer_object(size, guid) ==
  <<8, 1, 32, size, MOJO_BUFFER_MODE_UNSAFE, 0>> \o guid

(* The features offset of the connect messages and the introduction: the   *)
(* array follows the parameters, which it is one of.                       *)
FeaturesOffset(fields) == MESSAGE_HEADER_SIZE + align8(8 + 4 * (Len(fields) + 1))

WithFeatures(fields, features) ==
  append_params(Append(fields, FeaturesOffset(fields))) \o append_array(features, 1)

(* The two replies of a connecting node, to a broker it was invited by or  *)
(* referred to.                                                            *)
encode_connect(m) ==
  Built(m.kind,
        WithFeatures(m.f.protocol_version \o m.f.num_initial_portals, Zeros(2)),
        <<>>)

encode_refer_non_broker(m) ==
  Built(m.kind, append_params(m.f.referral_id \o m.f.num_initial_portals
                                \o m.f.transport_index), m.objects)

(* link_side and remote_node_type share a word, one byte each.             *)
encode_accept_introduction(m) ==
  Built(m.kind,
        WithFeatures(m.f.name \o <<m.f.link_side[1] + 256 * m.f.remote_node_type[1]>>
                       \o m.f.remote_protocol_version
                       \o m.f.transport_index \o m.f.memory_index, Zeros(2)),
        m.objects)

encode_introduction(m) ==
  Built(m.kind,
        append_params(IF m.kind = "RequestIndirectIntroduction"
                      THEN m.f.source_node \o m.f.target_node ELSE m.f.name),
        <<>>)

(* RouterDescriptor::encode: 96 bytes, the two flags in byte 64.           *)
RouterDescriptorSize == 96

RouterDescriptorEncode(d) ==
  d.closed_peer_sequence_length \o d.new_sublink \o d.new_link_state_fragment
    \o d.new_decaying_sublink \o d.next_outgoing_sequence_number
    \o d.next_incoming_sequence_number \o d.decaying_incoming_sequence_length
    \o <<(IF d.peer_closed THEN 1 ELSE 0)
           + (IF d.proxy_already_bypassed THEN 2 ELSE 0), 0>>
    \o d.proxy_peer_node_name \o d.proxy_peer_sublink

Descriptors(routers) ==
  LET Encoded[i \in 0 .. Len(routers)] ==
        IF i = 0 THEN <<>> ELSE Encoded[i - 1] \o RouterDescriptorEncode(routers[i])
  IN  Encoded[Len(routers)]

(* FragmentDescriptor::is_null: the buffer id that no buffer has.          *)
INVALID_BUFFER_ID == <<-1, -1>>

NullFragment == INVALID_BUFFER_ID \o <<0, 0>>

is_null(fragment) == SubSeq(fragment, 1, 2) = INVALID_BUFFER_ID

(* encode_accept_parcel_arrays: 72 bytes of parameters with the offsets of *)
(* the three arrays, which are laid out one behind the other.  With a      *)
(* fragment the data are there and not in the message.                     *)
encode_accept_parcel_arrays(m) ==
  LET data    == IF is_null(m.f.parcel_fragment) THEN m.data ELSE <<>>
      routers == Descriptors(m.new_routers)
      first   == align8(MESSAGE_HEADER_SIZE + 72)
      second  == first + ArraySize(data)
      third   == second + ArraySize(m.handle_types)
      fields  == m.f.sublink \o m.f.sequence_number \o m.f.subparcel_index
                   \o m.f.num_subparcels \o m.f.parcel_fragment
                   \o <<ArrayOffset(data, first),
                        ArrayOffset(m.handle_types, second),
                        ArrayOffset(routers, third), 0, 0, Len(m.objects)>>
  IN  Built(m.kind, append_params(fields)
                      \o append_array(data, 4 * Len(data))
                      \o append_array(m.handle_types, Len(m.handle_types))
                      \o append_array(routers, Len(m.new_routers)), m.objects)

encode_accept_parcel_driver_objects(m) ==
  Built(m.kind, append_params(m.f.sublink \o m.f.sequence_number
                                \o <<0, Len(m.objects)>>), m.objects)

(* The messages about one route, all of parameters only.                   *)
RouteFields(m) ==
  CASE m.kind \in {"RouteDisconnected", "FlushRouter"} -> m.f.sublink
    [] m.kind = "RouteClosed" -> m.f.sublink \o m.f.sequence_length
    [] m.kind = "StopProxyingToLocalPeer" ->
         m.f.sublink \o m.f.outbound_sequence_length
    [] m.kind = "BypassPeerWithLink" ->
         m.f.sublink \o m.f.new_sublink \o m.f.new_link_state_fragment
           \o m.f.inbound_sequence_length
    [] m.kind = "BypassPeer" ->
         m.f.sublink \o Zeros(2) \o m.f.bypass_target_node
           \o m.f.bypass_target_sublink
    [] m.kind = "AcceptBypassLink" ->
         m.f.current_peer_node \o m.f.current_peer_sublink
           \o m.f.inbound_sequence_length_from_bypassed_link
           \o m.f.new_sublink \o m.f.new_link_state_fragment
    [] m.kind = "StopProxying" ->
         m.f.sublink \o m.f.inbound_sequence_length
           \o m.f.outbound_sequence_length
    [] m.kind = "ProxyWillStop" -> m.f.sublink \o m.f.inbound_sequence_length

encode_route_message(m) == Built(m.kind, append_params(RouteFields(m)), <<>>)

encode_add_block_buffer(m) ==
  Built(m.kind, append_params(m.f.buffer_id \o m.f.block_size \o m.f.buffer_index),
        m.objects)

encode_memory_message(m) == Built(m.kind, append_params(m.f.size \o <<0>>), m.objects)

(* What a broker of the reference implementation sends: the fields of its  *)
(* structs in order, padded to 8 bytes.  This repository only decodes it.  *)
PeerFields(m) ==
  CASE m.kind = "ConnectFromBrokerToNonBroker" ->
         m.f.broker_name \o m.f.receiver_name \o m.f.protocol_version
           \o m.f.num_initial_portals \o m.f.buffer_index \o <<0>>
    [] m.kind = "ConnectToReferredNonBroker" ->
         m.f.name \o m.f.broker_name \o m.f.referrer_name
           \o m.f.broker_protocol_version \o m.f.referrer_protocol_version
           \o m.f.num_initial_portals \o m.f.broker_link_buffer_index
           \o m.f.referrer_link_transport_index
           \o m.f.referrer_link_buffer_index
    [] m.kind = "NonBrokerReferralAccepted" ->
         m.f.referral_id \o m.f.protocol_version \o m.f.num_initial_portals
           \o m.f.name \o m.f.transport_index \o m.f.buffer_index
    [] m.kind = "NonBrokerReferralRejected" -> m.f.referral_id
    [] m.kind = "ConnectFromBrokerToBroker" ->
         m.f.name \o m.f.protocol_version \o m.f.num_initial_portals
           \o m.f.buffer_index \o <<0>>

PeerKinds == {"ConnectFromBrokerToNonBroker", "ConnectToReferredNonBroker",
              "NonBrokerReferralAccepted", "NonBrokerReferralRejected",
              "ConnectFromBrokerToBroker"}

EncodePeer(m) == Built(m.kind, append_params(PeerFields(m)), m.objects)

Encode(m) ==
  CASE m.kind \in PeerKinds -> EncodePeer(m)
    [] m.kind \in {"ConnectFromNonBrokerToBroker", "ConnectToReferredBroker"} ->
         encode_connect(m)
    [] m.kind = "ReferNonBroker" -> encode_refer_non_broker(m)
    [] m.kind = "AcceptIntroduction" -> encode_accept_introduction(m)
    [] m.kind \in DOMAIN IntroductionStructs \ {"AcceptIntroduction"} ->
         encode_introduction(m)
    [] m.kind = "AcceptParcel" -> encode_accept_parcel_arrays(m)
    [] m.kind = "AcceptParcelDriverObjects" ->
         encode_accept_parcel_driver_objects(m)
    [] m.kind \in DOMAIN RouteStructs -> encode_route_message(m)
    [] m.kind = "AddBlockBuffer" -> encode_add_block_buffer(m)
    [] m.kind \in {"RequestMemory", "ProvideMemory"} -> encode_memory_message(m)
=============================================================================
