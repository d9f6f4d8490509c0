--------------------------- MODULE MessageStream ---------------------------
(***************************************************************************)
(* Node messages over a channel: what one node encodes and sends           *)
(* (send_link_message), framed and cut up by the socket, and what the      *)
(* other one receives, decodes and hands on (recv_until, recv_until_any).  *)
(* In a part of the scenarios one word of the frame has been damaged, or   *)
(* was written by a peer that errs.  In another part the receiver is the   *)
(* acceptor, and the writer its broker.                                    *)
(***************************************************************************)
EXTENDS Channel, MessageDecoder, Acceptor

CONSTANTS
  Scenarios,        \* sequences of messages sent undamaged, in pieces
  Singles,          \* messages sent alone, whole
  DamagedMessages,  \* messages of which one word is damaged
  DamagedWords,     \* the values that a damaged word may have
  BrokerScenarios   \* sequences of messages sent to the acceptor, each whole

ASSUME StreamAssumption ==
  /\ \A s \in Scenarios \cup BrokerScenarios :
       s \in Seq({s[i] : i \in DOMAIN s}) /\ \A i \in DOMAIN s : IsMessage(s[i])
  /\ \A m \in Singles \cup DamagedMessages : IsMessage(m)
  /\ DamagedWords \subseteq Int

VARIABLES
  messages,         \* the messages that the writer encodes
  damaged,          \* whether a word of the frame was replaced
  decoded,          \* what the reader made of the messages received
  acceptor          \* the receiver, if it is the acceptor

streamVars == <<messages, damaged, decoded, acceptor>>

vars == <<channelVars, streamVars>>

(* One descriptor per driver object.  Descriptors are told apart by the    *)
(* message they belong to and their place in it.                           *)
FdsFor(m, i) == [j \in DOMAIN m.objects |-> <<i, j>>]

(* The frame of the i-th message of a link: send_link_message gives it the *)
(* sequence number, which counts from 0.                                   *)
FrameWords(m, i) ==
  encode_channel_message(set_message_sequence_number(Encode(m), i - 1), Len(m.objects))

(* Where a socket may stop taking words: within the channel header, right  *)
(* behind it, within the payload, and short of its end.                    *)
PieceEnds(len) == {1, 4, 5, len - 1, len}

Outgoing(m, i, words, ends) == [words |-> words, fds |-> FdsFor(m, i), ends |-> ends]

(* A damaged word has one of a few values, or is off by one alignment, or, *)
(* in the channel header, beyond the limit of sizes.                       *)
DamagedValues(words, w) ==
  (DamagedWords \cup {words[w] + 8}
     \cup (IF words[w] >= 8 THEN {words[w] - 8} ELSE {})
     \cup (IF w <= 4 THEN {MaxMessageSize + 4} ELSE {})) \ {words[w]}

(* The acceptor, of which the nodes among the receivers know nothing.      *)
NoAcceptor == [failed |-> FALSE]

IsAcceptor == acceptor # NoAcceptor

InitBroker ==
  /\ damaged = FALSE /\ acceptor = NewAcceptor
  /\ messages \in BrokerScenarios
  /\ outbox = [i \in DOMAIN messages |->
                 LET words == FrameWords(messages[i], i)
                 IN  Outgoing(messages[i], i, words, {Len(words)})]

InitUndamaged ==
  /\ damaged = FALSE /\ acceptor = NoAcceptor
  /\ \/ /\ messages \in Scenarios
        /\ outbox = [i \in DOMAIN messages |->
                       LET words == FrameWords(messages[i], i)
                       IN  Outgoing(messages[i], i, words, PieceEnds(Len(words)))]
     \/ /\ messages \in {<<m>> : m \in Singles}
        /\ outbox = [i \in {1} |->
                       LET words == FrameWords(messages[i], i)
                       IN  Outgoing(messages[i], i, words, {Len(words)})]

InitDamaged ==
  /\ damaged = TRUE /\ acceptor = NoAcceptor
  /\ messages \in {<<m>> : m \in DamagedMessages}
  /\ \E w \in 1 .. Len(FrameWords(messages[1], 1)) :
       \E v \in DamagedValues(FrameWords(messages[1], 1), w) :
         outbox = <<Outgoing(messages[1], 1,
                             [FrameWords(messages[1], 1) EXCEPT ![w] = v],
                             {Len(FrameWords(messages[1], 1))})>>

Init == ChannelInit /\ decoded = <<>> /\ (InitUndamaged \/ InitDamaged \/ InitBroker)

-----------------------------------------------------------------------------
(* Faults are not combined: a damaged frame is sent by a writer that goes  *)
(* on.                                                                     *)
WriterStep ==
  (SendPiece \/ (~damaged /\ (SendFails \/ Close))) /\ UNCHANGED streamVars

(* The message at hand is decoded before the channel is read again.        *)
AllDecoded == Len(decoded) = Len(received)

ReaderStep == AllDecoded /\ (Read \/ Assemble \/ ReadError \/ ReadEnd) /\ UNCHANGED streamVars

(* The acceptor replies before it waits again.                             *)
ReplyPending == IsAcceptor /\ ReplyDue(acceptor)

GiveUp == AllDecoded /\ ~ReplyPending /\ TimeOut /\ UNCHANGED streamVars

(* What the acceptor makes of a message: the first one is the greeting.    *)
Handled(result, fds) ==
  IF ~IsAcceptor \/ result.kind = "Refused" THEN acceptor
  ELSE IF acceptor.connected THEN dispatch(acceptor, result, fds)
  ELSE connect(acceptor, result, fds)

(* recv_until_on, and connect and exchange of the acceptor:                *)
(* decode_message, whose error ends the reading; any message, one of       *)
(* unknown id too, goes on to the routers, or to dispatch.                 *)
Decode ==
  /\ Reading /\ ~AllDecoded
  /\ LET msg == received[Len(decoded) + 1]
     IN  \E result \in {decode_message(msg.payload, Len(msg.fds))} :
           /\ decoded' = Append(decoded, result)
           /\ acceptor' \in {Handled(result, msg.fds)}
           /\ reader' = IF result.kind = "Refused" \/ acceptor'.failed THEN "Refused"
                        ELSE reader
  /\ UNCHANGED <<outbox, next, sent, writer, socket, rights, recv_buf, fd_marks,
                 received, messages, damaged>>

(* exchange: nothing more is to be read at the moment, and the reply goes  *)
(* out; then the acceptor ends.  Without a block for its data the reply    *)
(* fails.                                                                  *)
Reply ==
  /\ ReplyPending /\ AllDecoded /\ NothingToRead /\ writer # "closed"
  /\ \/ /\ acceptor' = send_reply(acceptor)
        /\ reader' = IF acceptor'.failed THEN "Refused" ELSE "Success"
     \/ /\ acceptor' = Failed(acceptor)
        /\ reader' = "Refused"
  /\ UNCHANGED <<outbox, next, sent, writer, socket, rights, recv_buf, fd_marks,
                 received, messages, damaged, decoded>>

(* The writer is done, or has given up; the reader has ended.              *)
Done == ~Reading /\ (writer # "open" \/ next > Len(outbox)) /\ UNCHANGED vars

Next == WriterStep \/ ReaderStep \/ GiveUp \/ Decode \/ Reply \/ Done

(* The reader is in its receive loop; nothing obliges the writer.          *)
Spec == Init /\ [][Next]_vars /\ WF_vars(ReaderStep \/ Decode \/ Reply)

-----------------------------------------------------------------------------
(* What the receiver of m should get: its fields, and each object with the *)
(* one descriptor that was sent for it.                                    *)
Expected(m) ==
  [kind |-> m.kind, f |-> m.f,
   objects |-> [j \in DOMAIN m.objects |->
                  [data |-> m.objects[j], first_fd |-> j - 1, num_fds |-> 1]],
   data |-> IF m.kind = "AcceptParcel" /\ ~is_null(m.f.parcel_fragment) THEN <<>> ELSE m.data,
   handle_types |-> m.handle_types, new_routers |-> m.new_routers]

(* Messages arrive in order, unaltered, each with its own descriptors and  *)
(* no others, however the socket cut up the frames and the reads.          *)
DescriptorsStayWithMessages ==
  ~damaged =>
    /\ Len(received) < next
    /\ \A i \in DOMAIN received :
         /\ encode_channel_message(received[i].payload, Len(received[i].fds))
              = outbox[i].words
         /\ received[i].fds = outbox[i].fds

(* Decoding is the inverse of encoding, for every kind of message except   *)
(* BypassPeer: encode_bypass_peer puts the target's sublink behind the     *)
(* target's name, decode_message reads it from the middle of the name.     *)
MessagesRoundTrip ==
  ~damaged => \A i \in DOMAIN decoded :
                (decoded[i] = Expected(messages[i])) <=> (messages[i].kind # "BypassPeer")

(* "Unknown or malformed messages are classified, never panicked on": no   *)
(* word of a frame leads the decoder out of the payload, and the objects   *)
(* of a message that it accepts share out the descriptors among them, none *)
(* twice and none left over.                                               *)
FrameDamageContained ==
  \A i \in DOMAIN decoded :
    /\ decoded[i].kind # "Panic"
    /\ decoded[i].kind \in Kinds /\ decoded[i].objects # <<>> =>
         LET objects == decoded[i].objects
             Span(j) == objects[j].first_fd .. objects[j].first_fd + objects[j].num_fds - 1
         IN  /\ UNION {Span(j) : j \in DOMAIN objects} = 0 .. Len(received[i].fds) - 1
             /\ \A j, k \in DOMAIN objects : j # k => Span(j) \cap Span(k) = {}

(* The reader takes the end of the stream for an orderly one only if every *)
(* frame that the writer began was sent whole and received; it reports a   *)
(* truncation only if the writer stopped within a frame.                   *)
CloseIsClean ==
  ~damaged =>
    /\ reader = "PeerClosed" => sent = 0 /\ Len(decoded) = next - 1
    /\ reader = "TruncatedMessage" => sent > 0 /\ Len(decoded) = next - 1

(* A frame of which the socket has taken every word, with no more          *)
(* descriptors than a read takes, is decoded in the end, unless the reader *)
(* waited too long for an earlier one, or is the acceptor and has ended.   *)
Deliverable(k) == \A i \in 1 .. k : Len(messages[i].objects) <= MaxFdsPerRecv

SentIsDecoded ==
  \A k \in 1 .. 3 :
    (~damaged /\ next > k /\ Deliverable(k))
      ~> (Len(decoded) >= k \/ reader = "TimedOut" \/ (IsAcceptor /\ ~Reading))

(* The sublinks of the route to the acceptor: the first one, and those     *)
(* that the broker has named in bypasses since.                            *)
IsBypass(m) == m.kind = "BypassPeerWithLink" /\ Number(m.f.sublink) = BootstrapSublink

Bypasses == SelectSeq(decoded, IsBypass)

NamedSublinks == {BootstrapSublink} \cup {Number(m.f.new_sublink) : m \in Range(Bypasses)}

CurrentSublink ==
  IF Bypasses = <<>> THEN BootstrapSublink ELSE Number(Last(Bypasses).f.new_sublink)

(* The messages handled that bring a parcel of the broker's: its data and  *)
(* its objects, which are one message if it is not split.  Without a       *)
(* second initial portal there is no pipe.                                 *)
Brings(i, kind) == decoded[i].kind = kind /\ Number(decoded[i].f.sublink) \in NamedSublinks

AreHalves(i, j) ==
  /\ decoded[1].f.num_initial_portals[1] > BootstrapSublink
  /\ Brings(i, "AcceptParcel")
  /\ IF decoded[i].objects # <<>> THEN j = i
     ELSE /\ Brings(j, "AcceptParcelDriverObjects")
          /\ SplitKey(decoded[j]) = SplitKey(decoded[i])

HelloHalves == {h \in (DOMAIN decoded) \X (DOMAIN decoded) : AreHalves(h[1], h[2])}

(* What the acceptor loses, though its comments promise otherwise: objects *)
(* that come before their data ("keep them for the pending data half"),    *)
(* and what comes on a sublink of a bypass ("deliver when the sublink is   *)
(* adopted").                                                              *)
MayBeLost(i, j) == j < i \/ Number(decoded[i].f.sublink) # BootstrapSublink

(* The acceptor does not wait in vain once the broker's message is there,  *)
(* whole or in two halves, on any sublink of the route, and whatever       *)
(* arrived before it, between its halves or right behind it, but for the   *)
(* two losses, which it may mend.  It answers nothing else, and it answers *)
(* and closes on the sublink that the broker named last, of all the        *)
(* messages there were to read.                                            *)
BootstrapAnswered ==
  IsAcceptor =>
    /\ reader = "TimedOut" => \A h \in HelloHalves : MayBeLost(h[1], h[2])
    /\ reader = "Success" =>
         /\ HelloHalves # {}
         /\ LET n == Len(acceptor.answers)
            IN  SubSeq(acceptor.answers, n - 1, n)
                  = <<Answer("AcceptParcel", CurrentSublink, 0),
                      Answer("RouteClosed", CurrentSublink, 1)>>
=============================================================================
