------------------------------ MODULE Channel ------------------------------
(***************************************************************************)
(* One direction of a channel: frames over a stream socket, with           *)
(* descriptors as SCM_RIGHTS beside the bytes (channel.rs, the framing of  *)
(* wire.rs, and socket.rs).  A writer sends the frames of its outbox one   *)
(* after the other, in as many pieces as the socket takes; a reader        *)
(* assembles messages.  Bytes are counted in 32-bit words.                 *)
(*                                                                         *)
(* The socket is nonblocking on both sides: a full socket makes send fail, *)
(* which may be in the middle of a frame.  The callers pass the error on   *)
(* and send nothing more.                                                  *)
(***************************************************************************)
EXTENDS Integers, Sequences, SequencesExt

CONSTANT MaxFdsPerRecv      \* max_fds_per_recv, 32 in the code

ASSUME MaxFdsAssumption == MaxFdsPerRecv \in Nat \ {0}

VARIABLES
  outbox,     \* the frames to send: words, descriptors, ends of the pieces
  next,       \* index of the frame being sent
  sent,       \* words of it that the socket has taken
  writer,     \* "open", "failed" after an error of send, or "closed"
  socket,     \* the words in flight
  rights,     \* descriptors in flight, each at an offset of the socket
  recv_buf,   \* words read and not yet consumed
  fd_marks,   \* descriptors read, each at an offset of recv_buf
  received,   \* the messages assembled: payload and descriptors
  reader      \* "reading", or how the reading ended

channelVars == <<outbox, next, sent, writer, socket, rights, recv_buf, fd_marks,
                 received, reader>>

IPCZ_HEADER_SIZE == 16

(* The guard against absurd sizes.                                         *)
MaxMessageSize == 256 * 1024 * 1024

(* encode_channel_message: the two shorts of the first word are the header *)
(* size and the number of handles; the second word is the size in all.     *)
encode_channel_message(payload, num_handles) ==
  <<IPCZ_HEADER_SIZE + 65536 * num_handles,
    IPCZ_HEADER_SIZE + 4 * Len(payload), 0, 0>> \o payload

HeaderSize(buf) == buf[1] % 65536

NumHandles(buf) == (buf[1] \div 65536) % 65536

NumBytes(buf) == buf[2]

HasHeader(buf) == 4 * Len(buf) >= IPCZ_HEADER_SIZE

ChannelInit ==
  /\ next = 1 /\ sent = 0 /\ writer = "open"
  /\ socket = <<>> /\ rights = <<>>
  /\ recv_buf = <<>> /\ fd_marks = <<>> /\ received = <<>> /\ reader = "reading"

-----------------------------------------------------------------------------
(* The writer.                                                             *)

Frame == outbox[next]

(* The descriptors of a frame go with its first piece only.                *)
RightsWith(queue, offset) ==
  IF sent = 0 /\ Frame.fds # <<>>
  THEN Append(queue, [offset |-> offset, fds |-> Frame.fds]) ELSE queue

(* send, one round of its loop: the socket takes the words up to `end`.    *)
Send(end) ==
  /\ writer = "open" /\ end > sent
  /\ socket' = socket \o SubSeq(Frame.words, sent + 1, end)
  /\ rights' = RightsWith(rights, Len(socket))
  /\ IF end = Len(Frame.words) THEN next' = next + 1 /\ sent' = 0
     ELSE sent' = end /\ next' = next
  /\ UNCHANGED <<outbox, writer, recv_buf, fd_marks, received, reader>>

SendPiece == next <= Len(outbox) /\ \E end \in Frame.ends : Send(end)

(* sendmsg fails, on a full socket or a closed one, perhaps after a part   *)
(* of the frame.                                                           *)
SendFails ==
  /\ writer = "open" /\ next <= Len(outbox)
  /\ writer' = "failed"
  /\ UNCHANGED <<outbox, next, sent, socket, rights, recv_buf, fd_marks, received, reader>>

(* The channel is dropped, or its process ends, wherever the writer is.    *)
Close ==
  /\ writer # "closed"
  /\ writer' = "closed"
  /\ UNCHANGED <<outbox, next, sent, socket, rights, recv_buf, fd_marks, received, reader>>

-----------------------------------------------------------------------------
(* The reader.                                                             *)

(* Mutant: as many words as the scratch buffer holds.                      *)
NeededScratch(buf) == 64

(* READ-SIZING: the words that complete the header or the message, so that *)
(* no read spans two messages.                                             *)
Needed(buf) ==
  IF ~HasHeader(buf) THEN IPCZ_HEADER_SIZE \div 4 - Len(buf)
  ELSE NumBytes(buf) \div 4 - Len(buf)

(* A header that recv_available and try_assemble refuse.                   *)
HeaderRefused(buf) ==
  /\ HasHeader(buf)
  /\ \/ HeaderSize(buf) # IPCZ_HEADER_SIZE
     \/ NumBytes(buf) < IPCZ_HEADER_SIZE
     \/ NumBytes(buf) > 4 * Len(buf) /\ NumBytes(buf) > MaxMessageSize

(* A message is complete at the front of the buffer.                       *)
has_complete_message(buf) ==
  HasHeader(buf) /\ NumBytes(buf) >= IPCZ_HEADER_SIZE /\ NumBytes(buf) <= 4 * Len(buf)

Reading == reader = "reading"

(* The descriptors that recvmsg returns with n words: what came with those *)
(* bytes, as far as the control buffer holds it (the kernel drops the      *)
(* rest).  The kernel ends a read behind the bytes that bring descriptors. *)
FdsOf(marks) == FlattenSeq([i \in DOMAIN marks |-> marks[i].fds])

(* How many of the marks, which are in order, lie before an offset.        *)
Before(marks, n) ==
  CHOOSE k \in 0 .. Len(marks) :
    /\ \A i \in 1 .. k : marks[i].offset < n
    /\ k < Len(marks) => marks[k + 1].offset >= n

MarksBefore(marks, n) == SubSeq(marks, 1, Before(marks, n))

MarksFrom(marks, n) == SubSeq(marks, Before(marks, n) + 1, Len(marks))

(* What fits into the control buffer.                                      *)
Truncated(fds) == SubSeq(fds, 1, IF Len(fds) < MaxFdsPerRecv THEN Len(fds) ELSE MaxFdsPerRecv)

extract_fds(n) == Truncated(FdsOf(MarksBefore(rights, n)))

Shift(marks, n) == [i \in DOMAIN marks |-> [marks[i] EXCEPT !.offset = @ - n]]

(* recv_available: one recvmsg; the mark is where its bytes begin.         *)
recv_with_fds(n, fds) ==
  /\ recv_buf' = recv_buf \o SubSeq(socket, 1, n)
  /\ socket' = SubSeq(socket, n + 1, Len(socket))
  /\ rights' = Shift(MarksFrom(rights, n), n)
  /\ fd_marks' = IF fds = <<>> THEN fd_marks
                 ELSE Append(fd_marks, [offset |-> Len(recv_buf), fds |-> fds])

Read ==
  /\ Reading /\ socket # <<>>
  /\ ~HeaderRefused(recv_buf) /\ ~has_complete_message(recv_buf)
  /\ LET n == IF Needed(recv_buf) < Len(socket) THEN Needed(recv_buf) ELSE Len(socket)
     IN  recv_with_fds(n, extract_fds(n))
  /\ UNCHANGED <<outbox, next, sent, writer, received, reader>>

(* The marks at offset 0, with which the message begins, and the rest.     *)
AssembledFds == FdsOf(MarksBefore(fd_marks, 1))

RestMarks == MarksFrom(fd_marks, 1)

SaturatingShift(marks, n) ==
  [i \in DOMAIN marks |->
     [marks[i] EXCEPT !.offset = IF @ < n THEN 0 ELSE @ - n]]

(* Mutant: fewer descriptors than announced will do.                       *)
HandlesMatchAtMost == Len(AssembledFds) <= NumHandles(recv_buf)

HandlesMatch == Len(AssembledFds) = NumHandles(recv_buf)

(* try_assemble: the message leaves the buffer with the descriptors it     *)
(* announces.                                                              *)
Assemble ==
  /\ Reading /\ ~HeaderRefused(recv_buf) /\ has_complete_message(recv_buf)
  /\ HandlesMatch
  /\ LET words == NumBytes(recv_buf) \div 4
     IN  /\ received' = Append(received,
              [payload |-> SubSeq(recv_buf, IPCZ_HEADER_SIZE \div 4 + 1, words),
               fds |-> AssembledFds])
         /\ recv_buf' = SubSeq(recv_buf, words + 1, Len(recv_buf))
         /\ fd_marks' = SaturatingShift(RestMarks, words)
  /\ UNCHANGED <<outbox, next, sent, writer, socket, rights, reader>>

(* The errors of recv: they reach the caller, which reads no more.         *)
ReadError ==
  /\ Reading
  /\ \/ /\ HeaderRefused(recv_buf)
        /\ reader' = "BadHeader"
     \/ /\ ~HeaderRefused(recv_buf) /\ has_complete_message(recv_buf)
        /\ ~HandlesMatch
        /\ reader' = "BadDriverObjects"
  /\ UNCHANGED <<outbox, next, sent, writer, socket, rights, recv_buf, fd_marks, received>>

(* Mutant: the end of the stream is an orderly one wherever it comes.      *)
EndOfStreamAnywhere == "PeerClosed"

(* End of the stream: within a message it is a truncation.                 *)
EndOfStream == IF recv_buf = <<>> THEN "PeerClosed" ELSE "TruncatedMessage"

(* Nothing to read: the peer has closed, or 30 seconds have passed.        *)
NothingToRead ==
  Reading /\ socket = <<>> /\ ~HeaderRefused(recv_buf) /\ ~has_complete_message(recv_buf)

ReadEnd ==
  /\ NothingToRead /\ writer = "closed"
  /\ reader' = EndOfStream
  /\ UNCHANGED <<outbox, next, sent, writer, socket, rights, recv_buf, fd_marks, received>>

TimeOut ==
  /\ NothingToRead /\ writer # "closed"
  /\ reader' = "TimedOut"
  /\ UNCHANGED <<outbox, next, sent, writer, socket, rights, recv_buf, fd_marks, received>>
=============================================================================
