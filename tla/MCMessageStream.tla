-------------------------- MODULE MCMessageStream --------------------------
(***************************************************************************)
(* MessageStream with one or more samples of every kind of message, in     *)
(* which no two words of a struct are equal, and sequences of three short  *)
(* ones with 0, 1, 2 and, one too many for a read, 3 descriptors.          *)
(***************************************************************************)
EXTENDS MessageStream, FiniteSetsExt

(* Fields that the encoders fix.                                           *)
FixedFields(kind) ==
  CASE kind \in {"ConnectFromNonBrokerToBroker", "ConnectToReferredBroker"} ->
         [protocol_version |-> <<0>>]
    [] kind \in {"ReferNonBroker", "AddBlockBuffer"} ->
         [transport_index |-> <<0>>, buffer_index |-> <<0>>]
    [] kind = "AcceptIntroduction" ->
         [transport_index |-> <<0>>, memory_index |-> <<1>>]
    [] kind = "AcceptParcel" ->
         [subparcel_index |-> <<0>>, num_subparcels |-> <<1>>,
          parcel_fragment |-> NullFragment]
    [] OTHER -> <<>>

SampleFields(kind) ==
  LET names == FoldSet(LAMBDA n, seq : Append(seq, n), <<>>, Structs[kind])
      fixed == FixedFields(kind)
  IN  [n \in Structs[kind] |->
         IF n \in DOMAIN fixed THEN fixed[n]
         ELSE [j \in 1 .. Width(n) |->
                 20 * (CHOOSE i \in DOMAIN names : names[i] = n) + j]]

Message(kind, objects) ==
  [kind |-> kind, f |-> SampleFields(kind), objects |-> objects,
   data |-> <<>>, handle_types |-> <<>>, new_routers |-> <<>>]

Transport == encode_transport_object(1)

Buffer == encode_shared_buffer_object(64, <<11, 12, 13, 14>>)

SampleObjects(kind) ==
  CASE kind = "AcceptIntroduction" -> <<Transport, Buffer>>
    [] kind = "ConnectToReferredNonBroker" -> <<Buffer, Transport, Buffer>>
    [] kind = "NonBrokerReferralAccepted" -> <<Transport, Buffer>>
    [] kind \in ObjectKinds \ {"AcceptParcel"} -> <<Buffer>>
    [] OTHER -> <<>>

SampleRouter(closed, bypassed) ==
  [closed_peer_sequence_length |-> <<301, 302>>, new_sublink |-> <<303, 304>>,
   new_link_state_fragment |-> <<305, 306, 307, 308>>,
   new_decaying_sublink |-> <<309, 310>>,
   next_outgoing_sequence_number |-> <<311, 312>>,
   next_incoming_sequence_number |-> <<313, 314>>,
   decaying_incoming_sequence_length |-> <<315, 316>>,
   peer_closed |-> closed, proxy_already_bypassed |-> bypassed,
   proxy_peer_node_name |-> <<317, 318, 319, 320>>,
   proxy_peer_sublink |-> <<321, 322>>]

Parcel == Message("AcceptParcel", <<>>)

Parcels ==
  {[Parcel EXCEPT !.data = <<401, 402, 403>>],
   [Parcel EXCEPT !.data = <<401>>, !.handle_types = <<0, 1>>,
                  !.new_routers = <<SampleRouter(TRUE, FALSE)>>, !.objects = <<Buffer>>],
   [Parcel EXCEPT !.handle_types = <<0, 0>>,
                  !.new_routers = <<SampleRouter(FALSE, TRUE), SampleRouter(TRUE, TRUE)>>,
                  !.f.parcel_fragment = <<3, 0, 64, 64>>],
   [Parcel EXCEPT !.handle_types = <<1, 1>>, !.objects = <<Transport, Buffer>>]}

MCSingles == {Message(k, SampleObjects(k)) : k \in Kinds \ {"AcceptParcel"}} \cup Parcels

MCDamaged == MCSingles

ShortMessages ==
  {Message("FlushRouter", <<>>), Message("ProvideMemory", <<Buffer>>),
   Message("AcceptParcelDriverObjects", <<Transport, Transport>>)}

MCScenarios ==
  [1 .. 3 -> ShortMessages]
    \cup {<<Message("FlushRouter", <<>>),
            Message("AcceptParcelDriverObjects", <<Transport, Transport, Transport>>)>>}

MCDamagedWords == {0, 4, 8, 16, 24, 2^20}

-----------------------------------------------------------------------------
(* What a broker sends to the acceptor.                                    *)

U64(n) == <<n, 0>>

Greeting(portals) ==
  [Message("ConnectFromBrokerToNonBroker",
           <<encode_shared_buffer_object(PRIMARY_BUFFER_SIZE, <<11, 12, 13, 14>>)>>)
     EXCEPT !.f.num_initial_portals = <<portals>>]

WrappedHandle == <<8, 4, 8, 0>>

HelloOn(sublink, seq) ==
  [Parcel EXCEPT !.f.sublink = U64(sublink), !.f.sequence_number = U64(seq),
                 !.data = HelloFromBroker, !.handle_types = <<1>>,
                 !.objects = <<WrappedHandle>>]

InFragment(p) == [p EXCEPT !.data = <<>>, !.f.parcel_fragment = <<0, 0, 2048, 64>>]

DataOf(p) == [p EXCEPT !.handle_types = <<2>>, !.objects = <<>>]

ObjectsOn(sublink, seq) ==
  [Message("AcceptParcelDriverObjects", <<WrappedHandle>>)
     EXCEPT !.f.sublink = U64(sublink), !.f.sequence_number = U64(seq)]

Bypass(sublink, new, length) ==
  [Message("BypassPeerWithLink", <<>>)
     EXCEPT !.f.sublink = U64(sublink), !.f.new_sublink = U64(new),
            !.f.new_link_state_fragment = <<0, 0, 64 * new, 64>>,
            !.f.inbound_sequence_length = U64(length)]

OnRoute(kind, sublink) == [Message(kind, <<>>) EXCEPT !.f.sublink = U64(sublink)]

NewBuffer ==
  [Message("AddBlockBuffer", <<Buffer>>)
     EXCEPT !.f.buffer_id = U64(1), !.f.block_size = <<64>>]

(* The bypass and the two forms of the message, in every order; and pairs  *)
(* of everything else that a broker may send.                              *)
MainMessages ==
  {HelloOn(1, 0), DataOf(HelloOn(1, 0)), ObjectsOn(1, 0), Bypass(1, 13, 0),
   Bypass(1, 14, 1), HelloOn(13, 0)}

OtherMessages ==
  {HelloOn(1, 1), InFragment(HelloOn(1, 0)), DataOf(InFragment(HelloOn(1, 0))),
   Bypass(9, 15, 0), NewBuffer, OnRoute("RouteClosed", 1),
   OnRoute("StopProxyingToLocalPeer", 1), Message("AcceptIntroduction", <<Transport, Buffer>>),
   [Parcel EXCEPT !.f.sublink = U64(1), !.handle_types = <<0>>]}

MCBrokerScenarios ==
  {<<Greeting(2)>> \o s : s \in [1 .. 3 -> MainMessages]}
    \cup {<<Greeting(2)>> \o s : s \in [1 .. 2 -> MainMessages \cup OtherMessages]}
    \cup {<<Greeting(n), HelloOn(1, 0)>> : n \in {1, 4}}
    \cup {<<HelloOn(1, 0)>>}
=============================================================================
