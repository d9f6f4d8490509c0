------------------------------ MODULE DataPipe ------------------------------
(***************************************************************************)
(* A data pipe of mojo-rs-core (data_pipe.rs): producer and consumer each  *)
(* have a view of one ring buffer, and tell each other of their progress   *)
(* by control messages, byte counts in a queue.  One mutex serializes the  *)
(* pair, so every call is one step; what happens between the two halves of *)
(* a two-phase operation, and between an update and the peer's flush of    *)
(* it, is what has to work out.                                            *)
(*                                                                         *)
(* A flush takes all queued counts at once and zero counts are never sent, *)
(* so a queue is modelled by its sum: it is empty iff the sum is zero.     *)
(* The bytes of the stream are numbered 0, 1, 2, ... in the order they are *)
(* produced; the memory holds their numbers.                               *)
(***************************************************************************)
EXTENDS RingBuffer, Signals

CONSTANTS ElementSize, \* element_size of the pipe
          MaxBytes     \* bound: bytes ever produced

ASSUME DataPipeAssumption ==
  /\ ElementSize \in Nat \ {0}
  /\ ElementSize <= Capacity
  /\ MaxBytes \in Nat

Ends == {"producer", "consumer"}
Peer(e) == IF e = "producer" THEN "consumer" ELSE "producer"

VARIABLES
  bytes,               \* the shared memory
  producer, consumer,  \* the view of each endpoint
  control,             \* sum of the byte counts queued at each endpoint
  localClosed, peerClosed,
  writer, reader,      \* the span of the open two-phase operation, if any
  filled,              \* has the client written its span (external)
  hasNewData,          \* the consumer's latch
  collected,           \* endpoints whose watchers the last call went through
  produced, consumed   \* length of the stream so far at each endpoint (history)

vars == <<bytes, producer, consumer, control, localClosed, peerClosed, writer,
          reader, filled, hasNewData, collected, produced, consumed>>

NoSpan == [start |-> 0, len |-> 0]
Spans == [start: Offsets, len: 0 .. Capacity]

(* The data of the pipe has its types; lengths and sums stay in range.     *)
TypeOK ==
  /\ bytes \in [Offsets -> Nat]
  /\ producer \in Views
  /\ consumer \in Views
  /\ control \in [Ends -> 0 .. Capacity]
  /\ localClosed \in [Ends -> BOOLEAN]
  /\ peerClosed \in [Ends -> BOOLEAN]
  /\ writer \in Spans
  /\ reader \in Spans
  /\ filled \in BOOLEAN
  /\ hasNewData \in BOOLEAN
  /\ collected \subseteq Ends
  /\ produced \in Nat
  /\ consumed \in Nat

Init ==
  /\ bytes = [p \in Offsets |-> 0]
  /\ producer = EmptyView
  /\ consumer = EmptyView
  /\ control = [e \in Ends |-> 0]
  /\ localClosed = [e \in Ends |-> FALSE]
  /\ peerClosed = [e \in Ends |-> FALSE]
  /\ writer = NoSpan
  /\ reader = NoSpan
  /\ filled = FALSE
  /\ hasNewData = FALSE
  /\ collected = {}
  /\ produced = 0
  /\ consumed = 0

-----------------------------------------------------------------------------
(* signals_of, for the state of an endpoint and its latch.                 *)
SignalsOf(e) ==
  LET newData == hasNewData \/ control["consumer"] > 0
      data == newData \/ consumer.size > 0
      room == AvailableCapacity(producer) > 0 \/ control["producer"] > 0
      closed == peerClosed[e] IN
  [satisfied |->
     (IF closed THEN {"PEER_CLOSED"} ELSE {})
       \cup (IF e = "consumer" /\ newData THEN {"NEW_DATA_READABLE"} ELSE {})
       \cup (IF e = "consumer" /\ data THEN {"READABLE"} ELSE {})
       \cup (IF e = "producer" /\ ~closed /\ room THEN {"WRITABLE"} ELSE {}),
   satisfiable |->
     {"PEER_CLOSED"}
       \cup (IF closed THEN {} ELSE {"PEER_REMOTE"})
       \cup (IF e = "consumer" /\ (newData \/ ~closed)
             THEN {"NEW_DATA_READABLE"} ELSE {})
       \cup (IF e = "consumer" /\ (data \/ ~closed) THEN {"READABLE"} ELSE {})
       \cup (IF e = "producer" /\ ~closed THEN {"WRITABLE"} ELSE {})]

(* flush_locked: the views after the counts queued at the endpoint have    *)
(* been applied.                                                           *)
FlushedProducer == DiscardAll(producer, control["producer"])
FlushedConsumer == Extend(consumer, control["consumer"])
Latched == hasNewData \/ control["consumer"] > 0

(* Mutant: an update replaces the one before it.                           *)
FlushAndReplace(e, n) == [control EXCEPT ![e] = 0, ![Peer(e)] = n]

(* The counts after a flush of e that is followed by an update of its peer *)
(* (push_and_collect: none when it is zero).                               *)
FlushAndSend(e, n) == [control EXCEPT ![e] = 0, ![Peer(e)] = @ + n]

(* Mutant: the watchers of the sender are gone through.                    *)
CollectOwn(e, n) == collected' = IF n > 0 THEN {e} ELSE {}

(* The watchers of e's peer are gone through iff something was sent to it; *)
(* for the consumer this latches hasNewData.                               *)
CollectIfSent(e, n) == collected' = IF n > 0 THEN {Peer(e)} ELSE {}

(* A client that still has its endpoint.                                   *)
Usable(e) == ~localClosed[e]

(* write: the count written is zero on every error path.                   *)
WriteCount(n, allOrNone) ==
  LET room == AvailableCapacity(FlushedProducer) IN
  IF writer.len > 0 \/ peerClosed["producer"] THEN 0
  ELSE IF allOrNone /\ n > room THEN 0
  ELSE Least(n, room)

WriteData(n, allOrNone) ==
  LET k == WriteCount(n, allOrNone) IN
  /\ Usable("producer") /\ n % ElementSize = 0 /\ produced + k <= MaxBytes
  /\ producer' = Extend(FlushedProducer, k)
  /\ bytes' = Written(bytes, FlushedProducer, k, produced)
  /\ control' = FlushAndSend("producer", k)
  /\ CollectIfSent("producer", k)
  /\ hasNewData' = (hasNewData \/ k > 0)
  /\ produced' = produced + k
  /\ UNCHANGED <<consumer, localClosed, peerClosed, writer, reader, filled,
                 consumed>>

(* begin_write, which also flushes when it fails.                          *)
BeginWrite ==
  /\ Usable("producer")
  /\ producer' = FlushedProducer
  /\ control' = FlushAndSend("producer", 0)
  /\ writer' = IF writer.len > 0 \/ peerClosed["producer"] THEN writer
               ELSE LET span == AvailableCapacityView(FlushedProducer) IN
                    IF span.len > 0 THEN span ELSE writer
  /\ collected' = {}
  /\ UNCHANGED <<bytes, consumer, localClosed, peerClosed, reader, filled,
                 hasNewData, produced, consumed>>

(* The client writes the next bytes of the stream into its span.           *)
FillSpan ==
  /\ writer.len > 0 /\ ~filled
  /\ bytes' = [p \in Offsets |->
                 IF p \in writer.start .. writer.start + writer.len - 1
                 THEN produced + (p - writer.start) ELSE bytes[p]]
  /\ filled' = TRUE
  /\ collected' = {}
  /\ UNCHANGED <<producer, consumer, control, localClosed, peerClosed, writer,
                 reader, hasNewData, produced, consumed>>

(* end_write: the operation ends in any case; a count that is no multiple  *)
(* of the element size, or larger than the span, commits nothing.  The     *)
(* client commits only what it has written.  No flush (commit checks the   *)
(* room again).                                                            *)
EndWrite(n) ==
  LET k == IF /\ n % ElementSize = 0 /\ n <= writer.len
              /\ n <= AvailableCapacity(producer) THEN n ELSE 0 IN
  /\ Usable("producer") /\ writer.len > 0
  /\ k > 0 => filled /\ produced + k <= MaxBytes
  /\ writer' = NoSpan
  /\ filled' = FALSE
  /\ producer' = Extend(producer, k)
  /\ control' = [control EXCEPT !["consumer"] = @ + k]
  /\ CollectIfSent("producer", k)
  /\ hasNewData' = (hasNewData \/ k > 0)
  /\ produced' = produced + k
  /\ UNCHANGED <<bytes, consumer, localClosed, peerClosed, reader, consumed>>

(* read, with a mode: "take" (copied out or discarded), "peek", "query".   *)
(* The count taken is zero on every error path.                            *)
ReadCount(n, allOrNone, mode) ==
  IF mode # "take" \/ reader.len > 0 THEN 0
  ELSE IF allOrNone /\ n > FlushedConsumer.size THEN 0
  ELSE Least(n, FlushedConsumer.size)

(* Mutant: a read leaves the latch set.                                    *)
ReadKeepsLatch(n, allOrNone, mode) ==
  LET k == IF n % ElementSize = 0 THEN ReadCount(n, allOrNone, mode) ELSE 0 IN
  /\ Usable("consumer")
  /\ consumer' = DiscardAll(FlushedConsumer, k)
  /\ control' = FlushAndSend("consumer", k)
  /\ CollectIfSent("consumer", k)
  /\ hasNewData' = Latched
  /\ consumed' = consumed + k
  /\ UNCHANGED <<bytes, producer, localClosed, peerClosed, writer, reader,
                 filled, produced>>

ReadData(n, allOrNone, mode) ==
  LET k == IF n % ElementSize = 0 THEN ReadCount(n, allOrNone, mode) ELSE 0 IN
  /\ Usable("consumer")
  /\ consumer' = DiscardAll(FlushedConsumer, k)
  /\ control' = FlushAndSend("consumer", k)
  /\ CollectIfSent("consumer", k)
  /\ hasNewData' = (/\ Latched
                    /\ \/ reader.len > 0
                       \/ mode = "query"
                       \/ n % ElementSize # 0)
  /\ consumed' = consumed + k
  /\ UNCHANGED <<bytes, producer, localClosed, peerClosed, writer, reader,
                 filled, produced>>

(* begin_read: the latch is cleared only when it succeeds.                 *)
BeginRead ==
  LET span == ReadableDataView(FlushedConsumer)
      ok == reader.len = 0 /\ span.len > 0 IN
  /\ Usable("consumer")
  /\ consumer' = FlushedConsumer
  /\ control' = FlushAndSend("consumer", 0)
  /\ reader' = IF ok THEN span ELSE reader
  /\ hasNewData' = (Latched /\ ~ok)
  /\ collected' = {}
  /\ UNCHANGED <<bytes, producer, localClosed, peerClosed, writer, filled,
                 produced, consumed>>

EndRead(n) ==
  LET k == IF /\ n % ElementSize = 0 /\ n <= reader.len
              /\ n <= consumer.size THEN n ELSE 0 IN
  /\ Usable("consumer") /\ reader.len > 0
  /\ reader' = NoSpan
  /\ consumer' = DiscardAll(consumer, k)
  /\ control' = [control EXCEPT !["producer"] = @ + k]
  /\ CollectIfSent("consumer", k)
  /\ consumed' = consumed + k
  /\ UNCHANGED <<bytes, producer, localClosed, peerClosed, writer, filled,
                 hasNewData, produced>>

(* query_signals flushes first.                                            *)
QuerySignals(e) ==
  /\ Usable(e)
  /\ producer' = IF e = "producer" THEN FlushedProducer ELSE producer
  /\ consumer' = IF e = "consumer" THEN FlushedConsumer ELSE consumer
  /\ hasNewData' = IF e = "consumer" THEN Latched ELSE hasNewData
  /\ control' = FlushAndSend(e, 0)
  /\ collected' = {}
  /\ UNCHANGED <<bytes, localClosed, peerClosed, writer, reader, filled,
                 produced, consumed>>

(* close: the peer's watchers are gone through, with the latch set if the  *)
(* peer is a consumer with counts in its queue.                            *)
Close(e) ==
  /\ Usable(e)
  /\ localClosed' = [localClosed EXCEPT ![e] = TRUE]
  /\ peerClosed' = [peerClosed EXCEPT ![Peer(e)] = TRUE]
  /\ hasNewData' = IF e = "producer" THEN Latched ELSE hasNewData
  /\ collected' = {Peer(e)}
  /\ UNCHANGED <<bytes, producer, consumer, control, writer, reader, filled,
                 produced, consumed>>

Counts == 0 .. Capacity + 1

Next ==
  \/ \E n \in Counts, all \in BOOLEAN : WriteData(n, all)
  \/ BeginWrite
  \/ FillSpan
  \/ \E n \in Counts : EndWrite(n)
  \/ \E n \in Counts, all \in BOOLEAN, mode \in {"take", "peek", "query"} :
       ReadData(n, all, mode)
  \/ BeginRead
  \/ \E n \in Counts : EndRead(n)
  \/ \E e \in Ends : QuerySignals(e) \/ Close(e)

Spec == Init /\ [][Next]_vars

-----------------------------------------------------------------------------
(* What is in the pipe and not yet taken.                                  *)
Unread == consumer.size + control["consumer"]

(* The two views agree, up to the counts in the queues: what one side has  *)
(* done and the other not yet been told of accounts for every difference,  *)
(* nothing exceeds the buffer, and no flush can fail (the debug_assert in  *)
(* flush_locked, and the overflow break in its drain).                     *)
ViewsAgree ==
  /\ producer.size = Unread + control["producer"]
  /\ (producer.offset + control["producer"]) % Capacity = consumer.offset
  /\ produced = consumed + Unread

(* The byte at place i after the consumer's offset.                        *)
ByteAt(i) == bytes[(consumer.offset + i) % Capacity]

(* First in, first out, and nothing is overwritten before it is read: the  *)
(* unread bytes in the memory are the next ones of the stream, also while  *)
(* a writer fills its span, and an open reader's span shows them.  Spans   *)
(* stay where the views continue, whatever is flushed in the meantime.     *)
StreamIntact ==
  /\ \A i \in 0 .. Unread - 1 : ByteAt(i) = consumed + i
  /\ reader.len > 0 => /\ reader.start = consumer.offset
                       /\ reader.len <= consumer.size
  /\ writer.len > 0 => /\ writer.start = End(producer)
                       /\ writer.len <= AvailableCapacity(producer)
                       /\ writer.start + writer.len <= Capacity
  /\ filled => /\ writer.len > 0
               /\ \A i \in 0 .. writer.len - 1 :
                    bytes[writer.start + i] = produced + i

(* Signals tell the truth at all times, flushed or not: READABLE iff a     *)
(* byte is unread, WRITABLE iff there is room and the consumer is there,   *)
(* NEW_DATA_READABLE only with unread bytes.                               *)
SignalsTruthful ==
  LET c == SignalsOf("consumer").satisfied
      p == SignalsOf("producer").satisfied IN
  /\ "READABLE" \in c <=> Unread > 0
  /\ "NEW_DATA_READABLE" \in c => Unread > 0
  /\ "WRITABLE" \in p <=> Unread < Capacity /\ ~peerClosed["producer"]

(* Watchers hear of every change: a step after which a watch would fire    *)
(* and before which it would not has gone through that endpoint's          *)
(* watchers.  The endpoint's own calls never collect for itself.           *)
ChangeIsHeard ==
  [][\A e \in Ends, s \in SUBSET AllSignals :
       /\ ~localClosed[e]
       /\ ~Fires(SignalsOf(e), s)
       /\ Fires(SignalsOf(e)', s)
       => e \in collected']_vars
=============================================================================
