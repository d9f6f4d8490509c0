--------------------------- MODULE MessageDecoder ---------------------------
(***************************************************************************)
(* decode_message: what a node makes of a payload, whoever wrote it        *)
(* (messages.rs).  Per kind, the least size of the parameters that the     *)
(* code demands and the byte offset at which it reads each field; then the *)
(* arrays and the driver objects.                                          *)
(*                                                                         *)
(* The result is a record: kind is a kind of message, "Unknown", "Refused" *)
(* (any of the WireErrors, which the callers treat alike), or "Panic",     *)
(* for an access outside the payload that the checks before it let happen. *)
(***************************************************************************)
EXTENDS NodeMessages

ConnectLayouts ==
  [ConnectFromBrokerToNonBroker |-> [min |-> 48, at |->
     [broker_name |-> 0, receiver_name |-> 16, protocol_version |-> 32,
      num_initial_portals |-> 36, buffer_index |-> 40]],
   ConnectFromNonBrokerToBroker |-> [min |-> 8, at |->
     [protocol_version |-> 0, num_initial_portals |-> 4]],
   ReferNonBroker |-> [min |-> 16, at |->
     [referral_id |-> 0, num_initial_portals |-> 8, transport_index |-> 12]],
   ConnectToReferredBroker |-> [min |-> 8, at |->
     [protocol_version |-> 0, num_initial_portals |-> 4]],
   ConnectToReferredNonBroker |-> [min |-> 72, at |->
     [name |-> 0, broker_name |-> 16, referrer_name |-> 32,
      broker_protocol_version |-> 48, referrer_protocol_version |-> 52,
      num_initial_portals |-> 56, broker_link_buffer_index |-> 60,
      referrer_link_transport_index |-> 64, referrer_link_buffer_index |-> 68]],
   NonBrokerReferralAccepted |-> [min |-> 40, at |->
     [referral_id |-> 0, protocol_version |-> 8, num_initial_portals |-> 12,
      name |-> 16, transport_index |-> 32, buffer_index |-> 36]],
   NonBrokerReferralRejected |-> [min |-> 8, at |-> [referral_id |-> 0]],
   ConnectFromBrokerToBroker |-> [min |-> 32, at |->
     [name |-> 0, protocol_version |-> 16, num_initial_portals |-> 20,
      buffer_index |-> 24]]]

(* The side and the type of an introduction are read as one word.          *)
IntroductionLayouts ==
  [RequestIntroduction |-> [min |-> 16, at |-> [name |-> 0]],
   AcceptIntroduction |-> [min |-> 32, at |->
     [name |-> 0, link_side |-> 16, remote_node_type |-> 16,
      remote_protocol_version |-> 20, transport_index |-> 24,
      memory_index |-> 28]],
   RejectIntroduction |-> [min |-> 16, at |-> [name |-> 0]],
   RequestIndirectIntroduction |-> [min |-> 32, at |->
     [source_node |-> 0, target_node |-> 16]]]

ParcelLayouts ==
  [AcceptParcel |-> [min |-> 64, at |->
     [sublink |-> 0, sequence_number |-> 8, subparcel_index |-> 16,
      num_subparcels |-> 20, parcel_fragment |-> 24]],
   AcceptParcelDriverObjects |-> [min |-> 16, at |->
     [sublink |-> 0, sequence_number |-> 8]]]

(* Mutant: the lengths of StopProxying are swapped.                        *)
RouteLayoutsSwapped ==
  [RouteClosed |-> [min |-> 16, at |-> [sublink |-> 0, sequence_length |-> 8]],
   RouteDisconnected |-> [min |-> 8, at |-> [sublink |-> 0]],
   BypassPeerWithLink |-> [min |-> 40, at |->
     [sublink |-> 0, new_sublink |-> 8, new_link_state_fragment |-> 16,
      inbound_sequence_length |-> 32]],
   BypassPeer |-> [min |-> 32, at |->
     [sublink |-> 0, bypass_target_node |-> 16, bypass_target_sublink |-> 24]],
   AcceptBypassLink |-> [min |-> 48, at |->
     [current_peer_node |-> 0, current_peer_sublink |-> 16,
      inbound_sequence_length_from_bypassed_link |-> 24, new_sublink |-> 32,
      new_link_state_fragment |-> 40]],
   StopProxying |-> [min |-> 24, at |->
     [sublink |-> 0, inbound_sequence_length |-> 16,
      outbound_sequence_length |-> 8]],
   ProxyWillStop |-> [min |-> 16, at |->
     [sublink |-> 0, inbound_sequence_length |-> 8]],
   StopProxyingToLocalPeer |-> [min |-> 16, at |->
     [sublink |-> 0, outbound_sequence_length |-> 8]],
   FlushRouter |-> [min |-> 8, at |-> [sublink |-> 0]]]

(* BypassPeer: the name is read at 16 to 32 and the sublink at 24, in the  *)
(* middle of it; encode_bypass_peer writes the sublink at 32.              *)
RouteLayouts ==
  [RouteClosed |-> [min |-> 16, at |-> [sublink |-> 0, sequence_length |-> 8]],
   RouteDisconnected |-> [min |-> 8, at |-> [sublink |-> 0]],
   BypassPeerWithLink |-> [min |-> 40, at |->
     [sublink |-> 0, new_sublink |-> 8, new_link_state_fragment |-> 16,
      inbound_sequence_length |-> 32]],
   BypassPeer |-> [min |-> 32, at |->
     [sublink |-> 0, bypass_target_node |-> 16, bypass_target_sublink |-> 24]],
   AcceptBypassLink |-> [min |-> 48, at |->
     [current_peer_node |-> 0, current_peer_sublink |-> 16,
      inbound_sequence_length_from_bypassed_link |-> 24, new_sublink |-> 32,
      new_link_state_fragment |-> 40]],
   StopProxying |-> [min |-> 24, at |->
     [sublink |-> 0, inbound_sequence_length |-> 8,
      outbound_sequence_length |-> 16]],
   ProxyWillStop |-> [min |-> 16, at |->
     [sublink |-> 0, inbound_sequence_length |-> 8]],
   StopProxyingToLocalPeer |-> [min |-> 16, at |->
     [sublink |-> 0, outbound_sequence_length |-> 8]],
   FlushRouter |-> [min |-> 8, at |-> [sublink |-> 0]]]

MemoryLayouts ==
  [AddBlockBuffer |-> [min |-> 16, at |->
     [buffer_id |-> 0, block_size |-> 8, buffer_index |-> 12]],
   RequestMemory |-> [min |-> 8, at |-> [size |-> 0]],
   ProvideMemory |-> [min |-> 8, at |-> [size |-> 0]]]

Layouts ==
  [k \in Kinds |-> CASE k \in DOMAIN ConnectLayouts -> ConnectLayouts[k]
                     [] k \in DOMAIN IntroductionLayouts -> IntroductionLayouts[k]
                     [] k \in DOMAIN ParcelLayouts -> ParcelLayouts[k]
                     [] k \in DOMAIN RouteLayouts -> RouteLayouts[k]
                     [] k \in DOMAIN MemoryLayouts -> MemoryLayouts[k]]

-----------------------------------------------------------------------------
(* The fields begin after the message header and the struct header.        *)
FieldsStart == MESSAGE_HEADER_SIZE + 8

(* parse_message_header: long enough, and of the known size.               *)
HeaderOk(p) == 4 * Len(p) >= MESSAGE_HEADER_SIZE /\ p[1] % 256 = MESSAGE_HEADER_SIZE

KindOf(p) ==
  LET id == (p[1] \div 65536) % 256
  IN  IF \E k \in Kinds : message_id[k] = id
      THEN CHOOSE k \in Kinds : message_id[k] = id ELSE "Unknown"

DriverObjectArray(p) == p[5]

(* Mutant: the claimed size of the parameters is believed.                 *)
ParamsBelieved(p) ==
  4 * Len(p) - MESSAGE_HEADER_SIZE >= 8 /\ WordAt(p, MESSAGE_HEADER_SIZE) >= 8

(* The parameter struct has its header and lies within the payload.        *)
ParamsOk(p) ==
  LET room == 4 * Len(p) - MESSAGE_HEADER_SIZE
  IN  /\ room >= 8
      /\ WordAt(p, MESSAGE_HEADER_SIZE) >= 8
      /\ WordAt(p, MESSAGE_HEADER_SIZE) <= room

FieldsEnd(p) == FieldsStart + WordAt(p, MESSAGE_HEADER_SIZE) - 8

(* f_u32, f_u64, f_node and f_frag check the end of the parameters; then   *)
(* the slice is taken, which panics outside the payload.                   *)
FieldEnd(n, off) == FieldsStart + off + 4 * Width(n)

FieldsFit(p, layout) ==
  /\ FieldsEnd(p) >= FieldsStart + layout.min
  /\ \A n \in DOMAIN layout.at : FieldEnd(n, layout.at[n]) <= FieldsEnd(p)

FieldsPanic(p, layout) ==
  \E n \in DOMAIN layout.at : FieldEnd(n, layout.at[n]) > 4 * Len(p)

(* The words of each field; two of them are bytes of the same word.        *)
Fields(p, layout) ==
  [n \in DOMAIN layout.at |->
     LET words == Slice(p, FieldsStart + layout.at[n], FieldEnd(n, layout.at[n]))
     IN  CASE n = "link_side" -> <<words[1] % 256>>
           [] n = "remote_node_type" -> <<(words[1] \div 256) % 256>>
           [] OTHER -> words]

-----------------------------------------------------------------------------
(* read_array: offset 0 is no array; any other one is a header and         *)
(* elements that fit into the size it claims, and into the payload.        *)

ArrayOk(p, off, element_size) ==
  off = 0 \/
    /\ off > 0 /\ 4 * Len(p) - off >= 8
    /\ LET num_bytes == WordAt(p, off)
       IN  /\ num_bytes >= 8 /\ num_bytes % 8 = 0
           /\ num_bytes <= 4 * Len(p) - off
           /\ WordAt(p, off + 4) >= 0
           /\ WordAt(p, off + 4) * element_size <= num_bytes - 8

ArrayEnd(p, off, element_size) == off + 8 + WordAt(p, off + 4) * element_size

ArrayPanics(p, off, element_size) ==
  off # 0 /\ ArrayEnd(p, off, element_size) > 4 * Len(p)

ArrayWords(p, off, element_size) ==
  IF off = 0 THEN <<>> ELSE Slice(p, off + 8, ArrayEnd(p, off, element_size))

(* Consecutive chunks of n words.                                          *)
Chunks(words, n) ==
  [i \in 1 .. Len(words) \div n |-> SubSeq(words, n * (i - 1) + 1, n * i)]

(* The entries of the driver object array.                                 *)
Entries(p) ==
  LET chunks == Chunks(ArrayWords(p, DriverObjectArray(p), 8), 2)
  IN  [i \in DOMAIN chunks |-> [array |-> chunks[i][1],
                                first_fd |-> chunks[i][2] % 65536,
                                num_fds |-> (chunks[i][2] \div 65536) % 65536]]

(* Objects consume the descriptors in order, without gap, and all of them. *)
EntriesOk(entries, num_fds) ==
  LET Next_fd[i \in 0 .. Len(entries)] ==
        IF i = 0 THEN 0 ELSE entries[i].first_fd + entries[i].num_fds
  IN  /\ \A i \in DOMAIN entries : /\ entries[i].first_fd = Next_fd[i - 1]
                                   /\ Next_fd[i] <= num_fds
      /\ Next_fd[Len(entries)] = num_fds

(* read_driver_objects.                                                    *)
ObjectsOk(p, num_fds) ==
  DriverObjectArray(p) = 0 \/
    /\ ArrayOk(p, DriverObjectArray(p), 8)
    /\ EntriesOk(Entries(p), num_fds)
    /\ \A i \in DOMAIN Entries(p) : ArrayOk(p, Entries(p)[i].array, 1)

ObjectsPanic(p) ==
  \/ ArrayPanics(p, DriverObjectArray(p), 8)
  \/ \E i \in DOMAIN Entries(p) : ArrayPanics(p, Entries(p)[i].array, 1)

Objects(p) ==
  IF DriverObjectArray(p) = 0 THEN <<>>
  ELSE [i \in DOMAIN Entries(p) |->
          [data |-> ArrayWords(p, Entries(p)[i].array, 1),
           first_fd |-> Entries(p)[i].first_fd,
           num_fds |-> Entries(p)[i].num_fds]]

(* The kinds whose objects are read at all, those that are refused unless  *)
(* there is exactly one, and those that with_objects_check turns into an   *)
(* unknown message then.                                                   *)
ObjectKinds ==
  {"ConnectFromBrokerToNonBroker", "ReferNonBroker",
   "ConnectToReferredNonBroker", "NonBrokerReferralAccepted",
   "ConnectFromBrokerToBroker", "AcceptIntroduction", "AddBlockBuffer",
   "AcceptParcel", "AcceptParcelDriverObjects", "ProvideMemory"}

OneObjectOrRefused == {"ConnectFromBrokerToNonBroker", "ProvideMemory"}

with_objects_check == {"ReferNonBroker", "ConnectFromBrokerToBroker", "AddBlockBuffer"}

(* ProvideMemory also demands that its buffer index is 0.                  *)
BufferIndexOk(p, kind) == kind = "ProvideMemory" => WordAt(p, FieldsStart + 4) = 0

-----------------------------------------------------------------------------
(* RouterDescriptor::decode of 96 bytes.                                   *)
RouterDescriptorDecode(b) ==
  [closed_peer_sequence_length |-> Slice(b, 0, 8),
   new_sublink |-> Slice(b, 8, 16),
   new_link_state_fragment |-> Slice(b, 16, 32),
   new_decaying_sublink |-> Slice(b, 32, 40),
   next_outgoing_sequence_number |-> Slice(b, 40, 48),
   next_incoming_sequence_number |-> Slice(b, 48, 56),
   decaying_incoming_sequence_length |-> Slice(b, 56, 64),
   peer_closed |-> WordAt(b, 64) % 2 = 1,
   proxy_already_bypassed |-> (WordAt(b, 64) \div 2) % 2 = 1,
   proxy_peer_node_name |-> Slice(b, 72, 88),
   proxy_peer_sublink |-> Slice(b, 88, 96)]

(* The three arrays of a parcel: their offsets are fields.                 *)
ParcelArrays(p) ==
  [data |-> [off |-> WordAt(p, FieldsStart + 40), size |-> 1],
   handle_types |-> [off |-> WordAt(p, FieldsStart + 44), size |-> 4],
   new_routers |-> [off |-> WordAt(p, FieldsStart + 48), size |-> RouterDescriptorSize]]

ParcelOk(p) ==
  \A a \in DOMAIN ParcelArrays(p) :
    ArrayOk(p, ParcelArrays(p)[a].off, ParcelArrays(p)[a].size)

ParcelPanics(p) ==
  \E a \in DOMAIN ParcelArrays(p) :
    ArrayPanics(p, ParcelArrays(p)[a].off, ParcelArrays(p)[a].size)

ParcelArray(p, a) == ArrayWords(p, ParcelArrays(p)[a].off, ParcelArrays(p)[a].size)

-----------------------------------------------------------------------------
Result(kind) == [kind |-> kind]

DecodedMessage(p, kind) ==
  [kind |-> kind,
   f |-> Fields(p, Layouts[kind]),
   objects |-> IF kind \in ObjectKinds THEN Objects(p) ELSE <<>>,
   data |-> IF kind = "AcceptParcel" THEN ParcelArray(p, "data") ELSE <<>>,
   handle_types |-> IF kind = "AcceptParcel" THEN ParcelArray(p, "handle_types")
                    ELSE <<>>,
   new_routers |->
     IF kind # "AcceptParcel" THEN <<>>
     ELSE LET chunks == Chunks(ParcelArray(p, "new_routers"), RouterDescriptorSize \div 4)
          IN  [i \in DOMAIN chunks |-> RouterDescriptorDecode(chunks[i])]]

(* A known kind, once header and parameters are in order: the checks in    *)
(* the order in which each read comes behind the one that guards it.       *)
DecodeKind(p, num_fds, kind) ==
  LET parcel      == kind = "AcceptParcel"
      has_objects == kind \in ObjectKinds
  IN  IF ~FieldsFit(p, Layouts[kind]) THEN Result("Refused")
      ELSE IF FieldsPanic(p, Layouts[kind]) THEN Result("Panic")
      ELSE IF has_objects /\ ~ObjectsOk(p, num_fds) THEN Result("Refused")
      ELSE IF has_objects /\ ObjectsPanic(p) THEN Result("Panic")
      ELSE IF parcel /\ ~ParcelOk(p) THEN Result("Refused")
      ELSE IF parcel /\ ParcelPanics(p) THEN Result("Panic")
      ELSE IF kind \in OneObjectOrRefused
                /\ (Len(Objects(p)) # 1 \/ ~BufferIndexOk(p, kind))
           THEN Result("Refused")
      ELSE IF kind \in with_objects_check /\ Len(Objects(p)) # 1
           THEN Result("Unknown")
      ELSE DecodedMessage(p, kind)

decode_message(p, num_fds) ==
  IF ~HeaderOk(p) \/ ~ParamsOk(p) THEN Result("Refused")
  ELSE IF KindOf(p) = "Unknown" THEN Result("Unknown")
  ELSE DecodeKind(p, num_fds, KindOf(p))
=============================================================================
