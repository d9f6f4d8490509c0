--------------------------- MODULE DataPipeProofs ---------------------------
(***************************************************************************)
(* Proofs about module DataPipe, for every capacity and element size.      *)
(*                                                                         *)
(* The invariant is TypeOK, ViewsAgree and StreamIntact together.  Its     *)
(* heart: after a flush the view of either endpoint is the same, the       *)
(* consumer's offset and the number of unread bytes (lemma FlushedViews),  *)
(* so every call can be looked at on that one view.  Offsets are taken     *)
(* modulo the capacity but never exceed twice of it; the first lemmas turn *)
(* % into one conditional subtraction.                                     *)
(***************************************************************************)
EXTENDS DataPipe, TLAPS

Inv == TypeOK /\ ViewsAgree /\ StreamIntact

Wrap(x) == IF x >= Capacity THEN x - Capacity ELSE x

(* The modulus of an offset below twice the capacity.                      *)
LEMMA ModIsWrap ==
  ASSUME NEW x \in 0 .. 2 * Capacity - 1
  PROVE  /\ x % Capacity = Wrap(x)
         /\ Wrap(x) \in Offsets
<1>1. CASE x < Capacity
  BY <1>1, CapacityAssumption DEF Wrap, Offsets
<1>2. CASE x >= Capacity
  BY <1>2, CapacityAssumption DEF Wrap, Offsets
<1> QED BY <1>1, <1>2, CapacityAssumption

(* A view that is extended by what fits stays a view, with its offset.     *)
LEMMA ExtendView ==
  ASSUME NEW v \in Views, NEW n \in 0 .. AvailableCapacity(v)
  PROVE  /\ Extend(v, n) \in Views
         /\ Extend(v, n).offset = v.offset
         /\ Extend(v, n).size = v.size + n
BY CapacityAssumption DEF Views, Extend, AvailableCapacity, Offsets

(* Discarding moves the offset and keeps the end in place.                 *)
LEMMA DiscardView ==
  ASSUME NEW v \in Views, NEW n \in 0 .. v.size
  PROVE  /\ DiscardAll(v, n) \in Views
         /\ DiscardAll(v, n).offset = Wrap(v.offset + n)
         /\ DiscardAll(v, n).size = v.size - n
         /\ End(DiscardAll(v, n)) = End(v)
<1>1. v.offset + n \in 0 .. 2 * Capacity - 1
  BY CapacityAssumption DEF Views, Offsets
<1>2. /\ (v.offset + n) % Capacity = Wrap(v.offset + n)
      /\ Wrap(v.offset + n) \in Offsets
  BY <1>1, ModIsWrap
<1>3. DiscardAll(v, n) = [offset |-> Wrap(v.offset + n), size |-> v.size - n]
  BY <1>2, CapacityAssumption DEF DiscardAll, Views
<1> QED
  BY <1>2, <1>3, CapacityAssumption DEF Views, Offsets, End, Wrap

(* The end of a view is an offset, its free room is within the buffer.     *)
LEMMA ViewBounds ==
  ASSUME NEW v \in Views
  PROVE  /\ End(v) \in Offsets
         /\ AvailableCapacity(v) \in 0 .. Capacity
BY CapacityAssumption DEF Views, Offsets, End, AvailableCapacity

(* Nothing added or discarded is no change.                                *)
LEMMA ZeroView ==
  ASSUME NEW v \in Views
  PROVE  Extend(v, 0) = v /\ DiscardAll(v, 0) = v
<1>1. v.offset \in 0 .. Capacity - 1 /\ v.size \in 0 .. Capacity
  BY DEF Views, Offsets
<1>2. (v.offset + 0) % Capacity = v.offset
  BY <1>1, ModIsWrap, CapacityAssumption DEF Wrap
<1>3. v = [offset |-> v.offset, size |-> v.size]
  BY DEF Views
<1>4. DiscardAll(v, 0) = v
  BY <1>1, <1>2, <1>3 DEF DiscardAll
<1>5. Extend(v, 0) = v
  BY <1>1, <1>3, CapacityAssumption DEF Extend, AvailableCapacity
<1> QED BY <1>4, <1>5

(* Both endpoints see the same view once they have flushed.                *)
LEMMA FlushedViews ==
  ASSUME Inv
  PROVE  /\ Unread \in 0 .. Capacity
         /\ FlushedProducer \in Views
         /\ FlushedProducer.offset = consumer.offset
         /\ FlushedProducer.size = Unread
         /\ End(FlushedProducer) = End(producer)
         /\ FlushedConsumer \in Views
         /\ FlushedConsumer.offset = consumer.offset
         /\ FlushedConsumer.size = Unread
         /\ consumer.offset = Wrap(producer.offset + control["producer"])
<1>1. /\ producer \in Views /\ consumer \in Views
      /\ control["producer"] \in 0 .. Capacity
      /\ control["consumer"] \in 0 .. Capacity
      /\ producer.size = consumer.size + control["consumer"] + control["producer"]
      /\ (producer.offset + control["producer"]) % Capacity = consumer.offset
  BY DEF Inv, TypeOK, ViewsAgree, Unread, Ends
<1>2. control["producer"] \in 0 .. producer.size
  BY <1>1, CapacityAssumption DEF Views
<1>3. producer.offset + control["producer"] \in 0 .. 2 * Capacity - 1
  BY <1>1, CapacityAssumption DEF Views, Offsets
<1>4. consumer.offset = Wrap(producer.offset + control["producer"])
  BY <1>1, <1>3, ModIsWrap
<1>5. control["consumer"] \in 0 .. AvailableCapacity(consumer)
  BY <1>1, CapacityAssumption DEF Views, AvailableCapacity
<1>6. /\ FlushedProducer \in Views
      /\ FlushedProducer.offset = consumer.offset
      /\ FlushedProducer.size = producer.size - control["producer"]
      /\ End(FlushedProducer) = End(producer)
  BY <1>1, <1>2, <1>4, DiscardView DEF FlushedProducer
<1>7. /\ FlushedConsumer \in Views
      /\ FlushedConsumer.offset = consumer.offset
      /\ FlushedConsumer.size = consumer.size + control["consumer"]
  BY <1>1, <1>5, ExtendView DEF FlushedConsumer
<1>8. Unread \in 0 .. Capacity
  BY <1>1, CapacityAssumption DEF Unread, Views
<1> QED
  BY <1>1, <1>4, <1>6, <1>7, <1>8, CapacityAssumption DEF Unread, Views

(* Where a write of n bytes after s bytes at offset o goes: a first chunk  *)
(* of c bytes, the rest at the start of the buffer, clear of the data.     *)
LEMMA Placement ==
  ASSUME NEW o \in Offsets, NEW s \in 0 .. Capacity,
         NEW n \in 0 .. Capacity - s, NEW c \in 0 .. n,
         Wrap(o + s) + c <= Capacity,
         c < n => Wrap(o + s) + c = Capacity
  PROVE  /\ \A i \in 0 .. s - 1 :
              /\ Wrap(o + i) \in Offsets
              /\ ~(Wrap(o + i) \in Wrap(o + s) .. Wrap(o + s) + c - 1)
              /\ ~(Wrap(o + i) < n - c)
         /\ \A j \in 0 .. n - 1 :
              /\ Wrap(o + s + j) \in Offsets
              /\ j < c => Wrap(o + s + j) = Wrap(o + s) + j
              /\ j >= c => /\ Wrap(o + s + j) = j - c
                           /\ j - c < Wrap(o + s)
<1>0. /\ Capacity \in Nat /\ Capacity > 0
      /\ o \in 0 .. Capacity - 1
  BY CapacityAssumption DEF Offsets
<1>1. ASSUME NEW i \in 0 .. s - 1
      PROVE  /\ Wrap(o + i) \in Offsets
             /\ ~(Wrap(o + i) \in Wrap(o + s) .. Wrap(o + s) + c - 1)
             /\ ~(Wrap(o + i) < n - c)
  BY <1>0 DEF Wrap, Offsets
<1>2. ASSUME NEW j \in 0 .. n - 1
      PROVE  /\ Wrap(o + s + j) \in Offsets
             /\ j < c => Wrap(o + s + j) = Wrap(o + s) + j
             /\ j >= c => /\ Wrap(o + s + j) = j - c
                          /\ j - c < Wrap(o + s)
  BY <1>0 DEF Wrap, Offsets
<1> QED BY <1>1, <1>2

(* A write leaves the data in place and puts the new bytes after it.       *)
LEMMA WrittenBytes ==
  ASSUME NEW b \in [Offsets -> Nat], NEW v \in Views,
         NEW n \in 0 .. AvailableCapacity(v), NEW m \in Nat
  PROVE  /\ Written(b, v, n, m) \in [Offsets -> Nat]
         /\ \A i \in 0 .. v.size - 1 :
              Written(b, v, n, m)[Wrap(v.offset + i)] = b[Wrap(v.offset + i)]
         /\ \A j \in 0 .. n - 1 :
              Written(b, v, n, m)[Wrap(v.offset + v.size + j)] = m + j
         /\ n = 0 => Written(b, v, n, m) = b
<1> DEFINE o == v.offset
           s == v.size
           free == Wrap(o + s)
           c == Least(n, Least(Capacity - s, Capacity - free))
           w == Written(b, v, n, m)
<1>1. /\ o \in Offsets /\ s \in 0 .. Capacity
      /\ Capacity \in Nat /\ Capacity > 0
      /\ n \in 0 .. Capacity - s
  BY CapacityAssumption DEF Views, Offsets, AvailableCapacity
<1>2. End(v) = free /\ AvailableCapacity(v) = Capacity - s
  BY <1>1, CapacityAssumption DEF End, Wrap, AvailableCapacity, Offsets
<1> HIDE DEF o, s
<1>3. free \in Offsets
  BY <1>1 DEF Wrap, Offsets
<1> HIDE DEF free
<1>4. /\ c \in 0 .. n /\ free + c <= Capacity
      /\ c < n => free + c = Capacity
      /\ Least(n - c, Capacity - s - c) = n - c
  BY <1>1, <1>3 DEF Least, Offsets
<1>5. w = [p \in Offsets |->
             IF p \in free .. free + c - 1 THEN m + (p - free)
             ELSE IF p < Least(n - c, Capacity - s - c) THEN m + c + p
             ELSE b[p]]
  BY <1>2 DEF Written
<1> HIDE DEF c, w
<1>6. w = [p \in Offsets |->
             IF p \in free .. free + c - 1 THEN m + (p - free)
             ELSE IF p < n - c THEN m + c + p
             ELSE b[p]]
  BY <1>4, <1>5
<1>7. w \in [Offsets -> Nat]
  BY <1>1, <1>3, <1>4, <1>6 DEF Offsets
<1>8. /\ \A i \in 0 .. s - 1 :
           /\ Wrap(o + i) \in Offsets
           /\ ~(Wrap(o + i) \in free .. free + c - 1)
           /\ ~(Wrap(o + i) < n - c)
      /\ \A j \in 0 .. n - 1 :
           /\ Wrap(o + s + j) \in Offsets
           /\ j < c => Wrap(o + s + j) = free + j
           /\ j >= c => /\ Wrap(o + s + j) = j - c
                        /\ j - c < free
  BY <1>1, <1>4, Placement DEF free
<1>9. \A i \in 0 .. s - 1 : w[Wrap(o + i)] = b[Wrap(o + i)]
  BY <1>6, <1>8
<1>10. ASSUME NEW j \in 0 .. n - 1
       PROVE  w[Wrap(o + s + j)] = m + j
  <2>1. CASE j < c
    <3>1. Wrap(o + s + j) = free + j /\ free + j \in Offsets
      BY <1>8, <2>1
    <3>2. free + j \in free .. free + c - 1
      BY <1>1, <1>3, <1>4, <2>1 DEF Offsets
    <3>3. w[free + j] = m + ((free + j) - free)
      BY <1>6, <3>1, <3>2
    <3> QED BY <1>1, <1>3, <3>1, <3>3 DEF Offsets
  <2>2. CASE j >= c
    <3>1. /\ Wrap(o + s + j) = j - c /\ j - c \in Offsets
          /\ j - c < free
      BY <1>8, <2>2
    <3>2. ~(j - c \in free .. free + c - 1) /\ j - c < n - c
      BY <1>1, <1>3, <1>4, <2>2, <3>1 DEF Offsets
    <3>3. w[j - c] = m + c + (j - c)
      BY <1>6, <3>1, <3>2
    <3> QED BY <1>1, <1>4, <3>1, <3>3
  <2> QED BY <1>1, <1>4, <2>1, <2>2
<1>11. /\ w \in [Offsets -> Nat]
       /\ \A i \in 0 .. s - 1 : w[Wrap(o + i)] = b[Wrap(o + i)]
       /\ \A j \in 0 .. n - 1 : w[Wrap(o + s + j)] = m + j
  BY <1>7, <1>9, <1>10
<1>12. n = 0 => w = b
  <2> SUFFICES ASSUME n = 0 PROVE w = b
    OBVIOUS
  <2>1. c = 0
    BY <1>4
  <2>2. ASSUME NEW p \in Offsets
        PROVE  ~(p \in free .. free + c - 1) /\ ~(p < n - c)
    BY <1>3, <2>1 DEF Offsets
  <2>3. w = [p \in Offsets |-> b[p]]
    BY <1>6, <2>2
  <2> QED BY <2>3
<1> QED BY <1>11, <1>12 DEF w, o, s

(* The last facts about Inv that the actions need, without %.              *)
LEMMA InvFacts ==
  ASSUME Inv
  PROVE  /\ consumer.offset \in Offsets
         /\ \A i \in 0 .. Unread - 1 :
              bytes[Wrap(consumer.offset + i)] = consumed + i
         /\ End(producer) = Wrap(consumer.offset + Unread)
<1>1. /\ Unread \in 0 .. Capacity /\ consumer \in Views
      /\ FlushedProducer \in Views
      /\ FlushedProducer.offset = consumer.offset
      /\ FlushedProducer.size = Unread
      /\ End(FlushedProducer) = End(producer)
  BY FlushedViews DEF Inv, TypeOK
<1>2. consumer.offset \in 0 .. Capacity - 1 /\ Capacity \in Nat
  BY <1>1, CapacityAssumption DEF Views, Offsets
<1>3. ASSUME NEW i \in 0 .. Unread - 1
      PROVE  bytes[Wrap(consumer.offset + i)] = consumed + i
  <2>1. consumer.offset + i \in 0 .. 2 * Capacity - 1
    BY <1>1, <1>2
  <2>2. (consumer.offset + i) % Capacity = Wrap(consumer.offset + i)
    BY <2>1, ModIsWrap
  <2> QED BY <2>2 DEF Inv, StreamIntact, ByteAt
<1>4. End(FlushedProducer) = Wrap(consumer.offset + Unread)
  BY <1>1, <1>2, CapacityAssumption DEF End, Wrap
<1> QED BY <1>1, <1>2, <1>3, <1>4 DEF Offsets

-----------------------------------------------------------------------------
(* The conjuncts of Inv that a call of the producer that commits k bytes   *)
(* on a view p re-establishes: p is the producer's view, flushed or not.   *)
LEMMA ProducerSide ==
  ASSUME Inv, NEW k \in 0 .. Capacity - Unread,
         \/ /\ producer' = Extend(FlushedProducer, k)
            /\ control' = FlushAndSend("producer", k)
         \/ /\ k <= AvailableCapacity(producer)
            /\ producer' = Extend(producer, k)
            /\ control' = [control EXCEPT !["consumer"] = @ + k],
         produced' = produced + k,
         UNCHANGED <<consumer, consumed>>
  PROVE  /\ producer' \in Views
         /\ control' \in [Ends -> 0 .. Capacity]
         /\ Unread' = Unread + k
         /\ Unread' \in 0 .. Capacity
         /\ ViewsAgree'
         /\ k = 0 => /\ End(producer') = End(producer)
                     /\ AvailableCapacity(producer') >= AvailableCapacity(producer)
<1>1. /\ Unread \in 0 .. Capacity /\ Capacity \in Nat /\ Capacity > 0
      /\ FlushedProducer \in Views
      /\ FlushedProducer.offset = consumer.offset
      /\ FlushedProducer.size = Unread
      /\ End(FlushedProducer) = End(producer)
      /\ consumer.offset = Wrap(producer.offset + control["producer"])
      /\ consumer.offset \in Offsets
  BY FlushedViews, InvFacts, CapacityAssumption
<1>2. /\ control \in [Ends -> 0 .. Capacity]
      /\ consumer \in Views /\ producer \in Views
      /\ control["producer"] \in 0 .. Capacity
      /\ control["consumer"] \in 0 .. Capacity
      /\ producer.size = consumer.size + control["consumer"] + control["producer"]
      /\ produced = consumed + Unread
      /\ produced \in Nat /\ consumed \in Nat
      /\ (producer.offset + control["producer"]) % Capacity = consumer.offset
      /\ Unread = consumer.size + control["consumer"]
  BY DEF Inv, TypeOK, ViewsAgree, Unread, Ends
<1>3. consumer.size \in 0 .. Capacity /\ producer.size \in 0 .. Capacity
  BY <1>2 DEF Views
<1>4. CASE /\ producer' = Extend(FlushedProducer, k)
           /\ control' = FlushAndSend("producer", k)
  <2>1. k \in 0 .. AvailableCapacity(FlushedProducer)
    BY <1>1 DEF AvailableCapacity
  <2>2. /\ producer' \in Views
        /\ producer'.offset = consumer.offset
        /\ producer'.size = Unread + k
    BY <1>1, <1>4, <2>1, ExtendView
  <2>3. /\ control' = [control EXCEPT !["producer"] = 0, !["consumer"] = @ + k]
    BY <1>4 DEF FlushAndSend, Peer
  <2>4. /\ control'["producer"] = 0
        /\ control'["consumer"] = control["consumer"] + k
        /\ control["consumer"] + k \in 0 .. Capacity
    BY <1>1, <1>2, <1>3, <2>3 DEF Ends
  <2>5. control' \in [Ends -> 0 .. Capacity]
    BY <1>1, <1>2, <2>3, <2>4 DEF Ends
  <2>6. Unread' = Unread + k /\ Unread' \in 0 .. Capacity
    BY <1>1, <1>2, <1>3, <2>4 DEF Unread
  <2>7. (consumer.offset + 0) % Capacity = consumer.offset
    BY <1>1, ModIsWrap DEF Offsets, Wrap
  <2>8. ViewsAgree'
    <3>1. producer'.size = Unread' + control'["producer"]
      BY <1>1, <2>2, <2>4, <2>6
    <3>2. (producer'.offset + control'["producer"]) % Capacity = consumer'.offset
      BY <2>2, <2>4, <2>7
    <3>3. produced' = consumed' + Unread'
      BY <1>1, <1>2, <2>6
    <3> QED BY <3>1, <3>2, <3>3 DEF ViewsAgree
  <2>9. ASSUME k = 0
        PROVE  /\ End(producer') = End(producer)
               /\ AvailableCapacity(producer') >= AvailableCapacity(producer)
    <3>1. producer'.offset = FlushedProducer.offset /\ producer'.size = FlushedProducer.size
      BY <1>1, <2>2, <2>9
    <3>2. End(producer') = End(FlushedProducer)
      BY <3>1 DEF End
    <3>3. AvailableCapacity(producer') >= AvailableCapacity(producer)
      BY <1>1, <1>2, <1>3, <2>2, <2>9 DEF AvailableCapacity
    <3> QED BY <1>1, <3>2, <3>3
  <2> QED BY <2>2, <2>5, <2>6, <2>8, <2>9
<1>5. CASE /\ k <= AvailableCapacity(producer)
           /\ producer' = Extend(producer, k)
           /\ control' = [control EXCEPT !["consumer"] = @ + k]
  <2>1. k \in 0 .. AvailableCapacity(producer)
    BY <1>1, <1>3, <1>5 DEF AvailableCapacity
  <2>2. /\ producer' \in Views
        /\ producer'.offset = producer.offset
        /\ producer'.size = producer.size + k
    BY <1>2, <1>5, <2>1, ExtendView
  <2>4. /\ control'["producer"] = control["producer"]
        /\ control'["consumer"] = control["consumer"] + k
        /\ control["consumer"] + k \in 0 .. Capacity
    BY <1>1, <1>2, <1>3, <1>5 DEF Ends
  <2>5. control' \in [Ends -> 0 .. Capacity]
    BY <1>1, <1>2, <1>5, <2>4 DEF Ends
  <2>6. Unread' = Unread + k /\ Unread' \in 0 .. Capacity
    BY <1>1, <1>2, <1>3, <2>4 DEF Unread
  <2>8. ViewsAgree'
    <3>1. producer'.size = Unread' + control'["producer"]
      BY <1>1, <1>2, <1>3, <2>2, <2>4, <2>6
    <3>2. (producer'.offset + control'["producer"]) % Capacity = consumer'.offset
      BY <1>2, <2>2, <2>4
    <3>3. produced' = consumed' + Unread'
      BY <1>1, <1>2, <2>6
    <3> QED BY <3>1, <3>2, <3>3 DEF ViewsAgree
  <2>9. ASSUME k = 0
        PROVE  /\ End(producer') = End(producer)
               /\ AvailableCapacity(producer') >= AvailableCapacity(producer)
    <3>1. producer'.offset = producer.offset /\ producer'.size = producer.size
      BY <1>3, <2>2, <2>9
    <3> QED BY <1>1, <1>3, <3>1 DEF End, AvailableCapacity
  <2> QED BY <2>2, <2>5, <2>6, <2>8, <2>9
<1> QED BY <1>4, <1>5

(* The same for a call of the consumer that takes k bytes off its view,    *)
(* flushed or not; and the stream seen from the new offset.                *)
LEMMA ConsumerSide ==
  ASSUME Inv, NEW k \in 0 .. Unread,
         \/ /\ consumer' = DiscardAll(FlushedConsumer, k)
            /\ control' = FlushAndSend("consumer", k)
         \/ /\ k <= consumer.size
            /\ consumer' = DiscardAll(consumer, k)
            /\ control' = [control EXCEPT !["producer"] = @ + k],
         consumed' = consumed + k,
         UNCHANGED <<bytes, producer, produced>>
  PROVE  /\ consumer' \in Views
         /\ control' \in [Ends -> 0 .. Capacity]
         /\ Unread' = Unread - k
         /\ ViewsAgree'
         /\ \A i \in 0 .. Unread' - 1 : ByteAt(i)' = consumed' + i
         /\ k = 0 => /\ consumer'.offset = consumer.offset
                     /\ consumer'.size >= consumer.size
<1>1. /\ Unread \in 0 .. Capacity /\ Capacity \in Nat /\ Capacity > 0
      /\ FlushedConsumer \in Views
      /\ FlushedConsumer.offset = consumer.offset
      /\ FlushedConsumer.size = Unread
      /\ consumer.offset = Wrap(producer.offset + control["producer"])
      /\ consumer.offset \in Offsets
      /\ \A i \in 0 .. Unread - 1 :
           bytes[Wrap(consumer.offset + i)] = consumed + i
  BY FlushedViews, InvFacts, CapacityAssumption
<1>2. /\ control \in [Ends -> 0 .. Capacity]
      /\ consumer \in Views /\ producer \in Views
      /\ control["producer"] \in 0 .. Capacity
      /\ control["consumer"] \in 0 .. Capacity
      /\ producer.size = Unread + control["producer"]
      /\ produced = consumed + Unread
      /\ produced \in Nat /\ consumed \in Nat
      /\ Unread = consumer.size + control["consumer"]
  BY DEF Inv, TypeOK, ViewsAgree, Unread, Ends
<1>3. /\ consumer.size \in 0 .. Capacity /\ producer.size \in 0 .. Capacity
      /\ producer.offset \in Offsets
  BY <1>2 DEF Views
<1>4. /\ control["producer"] + k \in 0 .. Capacity
      /\ producer.offset + (control["producer"] + k) \in 0 .. 2 * Capacity - 1
  BY <1>1, <1>2, <1>3 DEF Offsets
<1>5. Wrap(producer.offset + (control["producer"] + k)) = Wrap(consumer.offset + k)
  BY <1>1, <1>2, <1>3, <1>4 DEF Wrap, Offsets
<1>6. (producer.offset + (control["producer"] + k)) % Capacity = Wrap(consumer.offset + k)
  BY <1>4, <1>5, ModIsWrap
<1>7. /\ consumer' \in Views
      /\ consumer'.offset = Wrap(consumer.offset + k)
      /\ control' \in [Ends -> 0 .. Capacity]
      /\ control'["producer"] = control["producer"] + k
      /\ Unread' = Unread - k
      /\ k = 0 => consumer'.size >= consumer.size
  <2>1. CASE /\ consumer' = DiscardAll(FlushedConsumer, k)
             /\ control' = FlushAndSend("consumer", k)
    <3>1. /\ consumer' \in Views
          /\ consumer'.offset = Wrap(consumer.offset + k)
          /\ consumer'.size = Unread - k
      BY <1>1, <2>1, DiscardView
    <3>2. control' = [control EXCEPT !["consumer"] = 0, !["producer"] = @ + k]
      BY <2>1 DEF FlushAndSend, Peer
    <3>3. /\ control'["producer"] = control["producer"] + k
          /\ control'["consumer"] = 0
      BY <1>2, <3>2 DEF Ends
    <3>4. control' \in [Ends -> 0 .. Capacity]
      BY <1>1, <1>2, <1>4, <3>2 DEF Ends
    <3>5. Unread' = Unread - k
      BY <1>1, <3>1, <3>3 DEF Unread
    <3> QED BY <1>1, <1>2, <1>3, <3>1, <3>3, <3>4, <3>5
  <2>2. CASE /\ k <= consumer.size
             /\ consumer' = DiscardAll(consumer, k)
             /\ control' = [control EXCEPT !["producer"] = @ + k]
    <3>0. k \in 0 .. consumer.size
      BY <1>1, <1>3, <2>2
    <3>1. /\ consumer' \in Views
          /\ consumer'.offset = Wrap(consumer.offset + k)
          /\ consumer'.size = consumer.size - k
      BY <1>2, <2>2, <3>0, DiscardView
    <3>3. /\ control'["producer"] = control["producer"] + k
          /\ control'["consumer"] = control["consumer"]
      BY <1>2, <2>2 DEF Ends
    <3>4. control' \in [Ends -> 0 .. Capacity]
      BY <1>1, <1>2, <1>4, <2>2 DEF Ends
    <3>5. Unread' = Unread - k
      BY <1>1, <1>2, <1>3, <3>1, <3>3 DEF Unread
    <3> QED BY <1>1, <1>2, <1>3, <3>1, <3>3, <3>4, <3>5
  <2> QED BY <2>1, <2>2
<1>8. ViewsAgree'
  <2>1. producer'.size = Unread' + control'["producer"]
    BY <1>1, <1>2, <1>3, <1>7
  <2>2. (producer'.offset + control'["producer"]) % Capacity = consumer'.offset
    BY <1>6, <1>7
  <2>3. produced' = consumed' + Unread'
    BY <1>1, <1>2, <1>7
  <2> QED BY <2>1, <2>2, <2>3 DEF ViewsAgree
<1>9. consumer'.offset \in Offsets /\ Unread' \in 0 .. Capacity /\ consumed' \in Nat
  BY <1>1, <1>2, <1>7 DEF Views
<1>10. ASSUME NEW i \in 0 .. Unread' - 1
       PROVE  bytes'[(consumer'.offset + i) % Capacity] = consumed' + i
  <2>1. k + i \in 0 .. Unread - 1
    BY <1>1, <1>7
  <2>2. Wrap(consumer'.offset + i) = Wrap(consumer.offset + (k + i))
    BY <1>1, <1>7, <2>1 DEF Wrap, Offsets
  <2>3. bytes[Wrap(consumer.offset + (k + i))] = consumed + (k + i)
    BY <1>1, <2>1
  <2>4. consumer'.offset + i \in 0 .. 2 * Capacity - 1
    <3>1. consumer'.offset \in 0 .. Capacity - 1
      BY <1>9 DEF Offsets
    <3>2. i \in 0 .. Capacity
      BY <1>1, <1>7, <2>1
    <3> QED BY <1>1, <3>1, <3>2
  <2>5. (consumer'.offset + i) % Capacity = Wrap(consumer'.offset + i)
    BY <2>4, ModIsWrap
  <2> QED BY <1>1, <1>2, <1>7, <2>2, <2>3, <2>5
<1>12. k = 0 => consumer'.offset = consumer.offset
  BY <1>1, <1>7 DEF Wrap, Offsets
<1> QED BY <1>7, <1>8, <1>10, <1>12 DEF ByteAt

-----------------------------------------------------------------------------
(* write.                                                                  *)
LEMMA WriteKeepsInv ==
  ASSUME Inv, NEW n \in Counts, NEW all \in BOOLEAN, WriteData(n, all)
  PROVE  Inv'
<1> DEFINE k == WriteCount(n, all)
<1>1. /\ Unread \in 0 .. Capacity /\ Capacity \in Nat /\ Capacity > 0
      /\ FlushedProducer \in Views
      /\ FlushedProducer.offset = consumer.offset
      /\ FlushedProducer.size = Unread
      /\ consumer.offset \in Offsets
      /\ \A i \in 0 .. Unread - 1 :
           bytes[Wrap(consumer.offset + i)] = consumed + i
  BY FlushedViews, InvFacts, CapacityAssumption
<1>2. TypeOK /\ ViewsAgree /\ StreamIntact
  BY DEF Inv
<1>3. n \in Nat
  BY CapacityAssumption DEF Counts
<1>4. /\ k \in 0 .. Capacity - Unread
      /\ k > 0 => ~(writer.len > 0)
  BY <1>1, <1>3 DEF WriteCount, Least, AvailableCapacity
<1>5. /\ producer' = Extend(FlushedProducer, k)
      /\ bytes' = Written(bytes, FlushedProducer, k, produced)
      /\ control' = FlushAndSend("producer", k)
      /\ collected' = IF k > 0 THEN {Peer("producer")} ELSE {}
      /\ hasNewData' = (hasNewData \/ k > 0)
      /\ produced' = produced + k
      /\ UNCHANGED <<consumer, localClosed, peerClosed, writer, reader, filled,
                     consumed>>
  BY DEF WriteData, CollectIfSent
<1> HIDE DEF k
<1>6. /\ producer' \in Views
      /\ control' \in [Ends -> 0 .. Capacity]
      /\ Unread' = Unread + k
      /\ Unread' \in 0 .. Capacity
      /\ ViewsAgree'
      /\ k = 0 => /\ End(producer') = End(producer)
                  /\ AvailableCapacity(producer') >= AvailableCapacity(producer)
  BY <1>4, <1>5, ProducerSide
<1>7. /\ bytes \in [Offsets -> Nat] /\ produced \in Nat /\ consumed \in Nat
      /\ produced = consumed + Unread
  BY <1>2 DEF TypeOK, ViewsAgree
<1>8. /\ bytes' \in [Offsets -> Nat]
      /\ \A i \in 0 .. Unread - 1 :
           bytes'[Wrap(consumer.offset + i)] = bytes[Wrap(consumer.offset + i)]
      /\ \A j \in 0 .. k - 1 :
           bytes'[Wrap(consumer.offset + Unread + j)] = produced + j
      /\ k = 0 => bytes' = bytes
  <2>1. k \in 0 .. AvailableCapacity(FlushedProducer)
    BY <1>1, <1>4 DEF AvailableCapacity
  <2> DEFINE w == Written(bytes, FlushedProducer, k, produced)
  <2>2. /\ w \in [Offsets -> Nat]
        /\ \A i \in 0 .. FlushedProducer.size - 1 :
             w[Wrap(FlushedProducer.offset + i)]
               = bytes[Wrap(FlushedProducer.offset + i)]
        /\ \A j \in 0 .. k - 1 :
             w[Wrap(FlushedProducer.offset + FlushedProducer.size + j)]
               = produced + j
        /\ k = 0 => w = bytes
    <3>1. FlushedProducer \in Views /\ bytes \in [Offsets -> Nat] /\ produced \in Nat
      BY <1>1, <1>7
    <3> QED BY <2>1, <3>1, WrittenBytes, Zenon
  <2>3. bytes' = w
    BY <1>5
  <2> HIDE DEF w
  <2> QED BY <1>1, <2>2, <2>3
<1>9. TypeOK'
  BY <1>1, <1>2, <1>4, <1>5, <1>6, <1>7, <1>8 DEF TypeOK, Peer, Ends
<1>10. ASSUME NEW i \in 0 .. Unread' - 1
       PROVE  ByteAt(i)' = consumed' + i
  <2>1. consumer.offset + i \in 0 .. 2 * Capacity - 1
    BY <1>1, <1>6 DEF Offsets
  <2>2. (consumer.offset + i) % Capacity = Wrap(consumer.offset + i)
    BY <2>1, ModIsWrap
  <2>3. CASE i < Unread
    BY <1>1, <1>5, <1>6, <1>8, <2>2, <2>3 DEF ByteAt
  <2>4. CASE i >= Unread
    <3>1. i - Unread \in 0 .. k - 1
      BY <1>1, <1>4, <1>6, <2>4
    <3>2. bytes'[Wrap(consumer.offset + Unread + (i - Unread))]
            = produced + (i - Unread)
      BY <1>8, <3>1
    <3>3. consumer.offset + Unread + (i - Unread) = consumer.offset + i
      BY <1>1 DEF Offsets
    <3>4. produced + (i - Unread) = consumed + i
      BY <1>1, <1>7
    <3> QED BY <1>5, <2>2, <3>2, <3>3, <3>4 DEF ByteAt
  <2> QED BY <1>1, <1>6, <2>3, <2>4
<1>11. StreamIntact'
  <2>1. reader'.len > 0 => /\ reader'.start = consumer'.offset
                           /\ reader'.len <= consumer'.size
    BY <1>2, <1>5 DEF StreamIntact
  <2>2. writer'.len > 0 => /\ writer'.start = End(producer')
                           /\ writer'.len <= AvailableCapacity(producer')
                           /\ writer'.start + writer'.len <= Capacity
    <3> SUFFICES ASSUME writer.len > 0
                 PROVE  /\ writer.start = End(producer')
                        /\ writer.len <= AvailableCapacity(producer')
                        /\ writer.start + writer.len <= Capacity
      BY <1>5
    <3>1. k = 0
      BY <1>1, <1>4
    <3>2. /\ AvailableCapacity(producer) \in Int
          /\ AvailableCapacity(producer') \in Int
          /\ writer.len \in Int
      BY <1>1, <1>2, <1>6 DEF AvailableCapacity, TypeOK, Views, Spans
    <3> QED BY <1>2, <1>6, <3>1, <3>2 DEF StreamIntact
  <2>3. filled' => /\ writer'.len > 0
                   /\ \A i \in 0 .. writer'.len - 1 :
                        bytes'[writer'.start + i] = produced' + i
    <3> SUFFICES ASSUME filled
                 PROVE  /\ writer.len > 0
                        /\ \A i \in 0 .. writer.len - 1 :
                             bytes'[writer.start + i] = produced' + i
      BY <1>5
    <3>1. writer.len > 0
      BY <1>2 DEF StreamIntact
    <3>2. k = 0
      BY <1>1, <1>4, <3>1
    <3>3. bytes' = bytes /\ produced' = produced
      BY <1>5, <1>7, <1>8, <3>2
    <3> QED BY <1>2, <3>1, <3>3 DEF StreamIntact
  <2> QED BY <1>10, <2>1, <2>2, <2>3 DEF StreamIntact
<1> QED BY <1>6, <1>9, <1>11 DEF Inv

(* A call of the producer that only flushes, and may open a writer.        *)
LEMMA FlushProducerKeepsInv ==
  ASSUME Inv,
         producer' = FlushedProducer,
         control' = FlushAndSend("producer", 0),
         \/ writer' = writer
         \/ /\ ~(writer.len > 0)
            /\ writer' = AvailableCapacityView(FlushedProducer),
         collected' = {}, hasNewData' = hasNewData,
         UNCHANGED <<bytes, consumer, localClosed, peerClosed, reader, filled,
                     produced, consumed>>
  PROVE  Inv'
<1>1. /\ Unread \in 0 .. Capacity /\ Capacity \in Nat /\ Capacity > 0
      /\ FlushedProducer \in Views
      /\ FlushedProducer.size = Unread
      /\ Extend(FlushedProducer, 0) = FlushedProducer
  BY FlushedViews, ZeroView, CapacityAssumption
<1>2. TypeOK /\ ViewsAgree /\ StreamIntact
  BY DEF Inv
<1>3. produced' = produced + 0 /\ produced \in Nat
  BY <1>2 DEF TypeOK
<1>4. /\ producer' \in Views
      /\ control' \in [Ends -> 0 .. Capacity]
      /\ Unread' = Unread + 0
      /\ ViewsAgree'
      /\ End(producer') = End(producer)
      /\ AvailableCapacity(producer') >= AvailableCapacity(producer)
  BY <1>1, <1>3, ProducerSide
<1>5. /\ AvailableCapacity(producer) \in Int
      /\ AvailableCapacity(producer') \in 0 .. Capacity
      /\ End(producer') \in Offsets
      /\ writer \in Spans
  BY <1>1, <1>2, <1>4, ViewBounds DEF TypeOK
<1>6. writer' \in Spans
  BY <1>1, <1>5 DEF AvailableCapacityView, Least, Spans, Offsets
<1>7. TypeOK'
  BY <1>2, <1>4, <1>6 DEF TypeOK
<1>8. StreamIntact'
  <2>1. \A i \in 0 .. Unread' - 1 : ByteAt(i)' = consumed' + i
    BY <1>1, <1>2, <1>4 DEF StreamIntact, ByteAt
  <2>2. reader'.len > 0 => /\ reader'.start = consumer'.offset
                           /\ reader'.len <= consumer'.size
    BY <1>2 DEF StreamIntact
  <2>3. CASE writer' = writer
    <3>1. writer'.len > 0 => /\ writer'.start = End(producer')
                             /\ writer'.len <= AvailableCapacity(producer')
                             /\ writer'.start + writer'.len <= Capacity
      BY <1>2, <1>4, <1>5, <2>3 DEF StreamIntact, Spans
    <3>2. filled' => /\ writer'.len > 0
                     /\ \A i \in 0 .. writer'.len - 1 :
                          bytes'[writer'.start + i] = produced' + i
      BY <1>2, <2>3 DEF StreamIntact
    <3> QED BY <2>1, <2>2, <3>1, <3>2 DEF StreamIntact
  <2>4. CASE /\ ~(writer.len > 0)
             /\ writer' = AvailableCapacityView(FlushedProducer)
    <3>1. /\ writer'.start = End(producer')
          /\ writer'.len <= AvailableCapacity(producer')
          /\ writer'.start + writer'.len <= Capacity
      BY <1>1, <1>5, <2>4 DEF AvailableCapacityView, Least, Offsets
    <3>2. ~filled'
      BY <1>2, <2>4 DEF StreamIntact
    <3> QED BY <2>1, <2>2, <3>1, <3>2 DEF StreamIntact
  <2> QED BY <2>3, <2>4
<1> QED BY <1>4, <1>7, <1>8 DEF Inv

(* end_write.                                                              *)
LEMMA EndWriteKeepsInv ==
  ASSUME Inv, NEW n \in Counts, EndWrite(n)
  PROVE  Inv'
<1> DEFINE k == IF /\ n % ElementSize = 0 /\ n <= writer.len
                   /\ n <= AvailableCapacity(producer) THEN n ELSE 0
<1>1. /\ Unread \in 0 .. Capacity /\ Capacity \in Nat /\ Capacity > 0
      /\ consumer.offset \in Offsets
      /\ End(producer) = Wrap(consumer.offset + Unread)
      /\ \A i \in 0 .. Unread - 1 :
           bytes[Wrap(consumer.offset + i)] = consumed + i
  BY FlushedViews, InvFacts, CapacityAssumption
<1>2. TypeOK /\ ViewsAgree /\ StreamIntact
  BY DEF Inv
<1>3. /\ writer.len > 0
      /\ k > 0 => filled
      /\ writer' = NoSpan /\ filled' = FALSE
      /\ producer' = Extend(producer, k)
      /\ control' = [control EXCEPT !["consumer"] = @ + k]
      /\ collected' = IF k > 0 THEN {Peer("producer")} ELSE {}
      /\ hasNewData' = (hasNewData \/ k > 0)
      /\ produced' = produced + k
      /\ UNCHANGED <<bytes, consumer, localClosed, peerClosed, reader, consumed>>
  BY DEF EndWrite, CollectIfSent
<1>4. /\ n \in Nat /\ writer.len \in Nat /\ writer.start \in Offsets
      /\ AvailableCapacity(producer) \in 0 .. Capacity
      /\ AvailableCapacity(producer) <= Capacity - Unread
      /\ produced \in Nat /\ consumed \in Nat
      /\ produced = consumed + Unread
  BY <1>1, <1>2, CapacityAssumption
    DEF Counts, TypeOK, Spans, Views, AvailableCapacity, ViewsAgree, Ends
<1>5. /\ k \in 0 .. Capacity - Unread /\ k <= AvailableCapacity(producer)
      /\ k <= writer.len
  BY <1>1, <1>4
<1> HIDE DEF k
<1>6. /\ producer' \in Views
      /\ control' \in [Ends -> 0 .. Capacity]
      /\ Unread' = Unread + k
      /\ Unread' \in 0 .. Capacity
      /\ ViewsAgree'
  BY <1>3, <1>5, ProducerSide
<1>7. NoSpan \in Spans /\ ~(NoSpan.len > 0)
  BY CapacityAssumption DEF NoSpan, Spans, Offsets
<1>8. TypeOK'
  <2>1. collected' \subseteq Ends
    BY <1>3 DEF Peer, Ends
  <2>2. hasNewData' \in BOOLEAN /\ filled' \in BOOLEAN
    BY <1>3
  <2>3. produced' \in Nat
    BY <1>1, <1>3, <1>4, <1>5
  <2> QED BY <1>2, <1>3, <1>6, <1>7, <2>1, <2>2, <2>3 DEF TypeOK
<1>9. ASSUME NEW i \in 0 .. Unread' - 1
      PROVE  ByteAt(i)' = consumed' + i
  <2>1. consumer.offset + i \in 0 .. 2 * Capacity - 1
    BY <1>1, <1>6 DEF Offsets
  <2>2. (consumer.offset + i) % Capacity = Wrap(consumer.offset + i)
    BY <2>1, ModIsWrap
  <2>3. CASE i < Unread
    BY <1>1, <1>3, <1>6, <2>2, <2>3 DEF ByteAt
  <2>4. CASE i >= Unread
    <3>1. i - Unread \in 0 .. k - 1 /\ k > 0
      BY <1>1, <1>5, <1>6, <2>4
    <3>2. /\ writer.start = End(producer)
          /\ writer.start + writer.len <= Capacity
          /\ \A j \in 0 .. writer.len - 1 : bytes[writer.start + j] = produced + j
      BY <1>2, <1>3, <3>1 DEF StreamIntact
    <3>3. i - Unread \in 0 .. writer.len - 1
      BY <1>1, <1>4, <1>5, <3>1
    <3>4. bytes[writer.start + (i - Unread)] = produced + (i - Unread)
      BY <3>2, <3>3
    <3>5. writer.start + (i - Unread) = Wrap(consumer.offset + i)
      BY <1>1, <1>4, <1>6, <3>2, <3>3 DEF Wrap, Offsets
    <3>6. produced + (i - Unread) = consumed + i
      BY <1>1, <1>4
    <3> QED BY <1>3, <2>2, <3>4, <3>5, <3>6 DEF ByteAt
  <2> QED BY <1>1, <1>6, <2>3, <2>4
<1>10. StreamIntact'
  BY <1>2, <1>3, <1>7, <1>9 DEF StreamIntact
<1> QED BY <1>6, <1>8, <1>10 DEF Inv

(* The client fills its span.                                              *)
LEMMA FillKeepsInv ==
  ASSUME Inv, FillSpan
  PROVE  Inv'
<1>1. /\ Unread \in 0 .. Capacity /\ Capacity \in Nat /\ Capacity > 0
      /\ consumer.offset \in Offsets
      /\ End(producer) = Wrap(consumer.offset + Unread)
      /\ \A i \in 0 .. Unread - 1 :
           bytes[Wrap(consumer.offset + i)] = consumed + i
  BY FlushedViews, InvFacts, CapacityAssumption
<1>2. TypeOK /\ ViewsAgree /\ StreamIntact
  BY DEF Inv
<1>3. /\ writer.len > 0
      /\ bytes' = [p \in Offsets |->
                     IF p \in writer.start .. writer.start + writer.len - 1
                     THEN produced + (p - writer.start) ELSE bytes[p]]
      /\ UNCHANGED <<producer, consumer, control, localClosed, peerClosed,
                     writer, reader, hasNewData, produced, consumed>>
      /\ filled' = TRUE /\ collected' = {}
  BY DEF FillSpan
<1>4. /\ writer.len \in Nat /\ writer.start \in Offsets
      /\ writer.start = Wrap(consumer.offset + Unread)
      /\ writer.len <= Capacity - Unread
      /\ writer.start + writer.len <= Capacity
      /\ produced \in Nat /\ consumed \in Nat
      /\ bytes \in [Offsets -> Nat]
  BY <1>1, <1>2, <1>3, CapacityAssumption
    DEF TypeOK, Spans, Views, AvailableCapacity, ViewsAgree, StreamIntact, Ends
<1>5. bytes' \in [Offsets -> Nat]
  BY <1>3, <1>4 DEF Offsets
<1>11. /\ \A i \in 0 .. Unread - 1 :
            ~(Wrap(consumer.offset + i)
                \in writer.start .. writer.start + writer.len - 1)
       /\ \A j \in 0 .. writer.len - 1 : writer.start + j \in Offsets
  <2>1. /\ writer.len \in 0 .. Capacity - Unread
        /\ writer.len \in 0 .. writer.len
        /\ Wrap(consumer.offset + Unread) + writer.len <= Capacity
        /\ ~(writer.len < writer.len)
    BY <1>1, <1>4
  <2>2. /\ \A i \in 0 .. Unread - 1 :
             ~(Wrap(consumer.offset + i)
                 \in Wrap(consumer.offset + Unread)
                     .. Wrap(consumer.offset + Unread) + writer.len - 1)
        /\ \A j \in 0 .. writer.len - 1 :
             /\ Wrap(consumer.offset + Unread + j) \in Offsets
             /\ j < writer.len => Wrap(consumer.offset + Unread + j)
                                    = Wrap(consumer.offset + Unread) + j
    BY <1>1, <2>1, Placement
  <2>3. \A j \in 0 .. writer.len - 1 : j < writer.len
    BY <1>4
  <2> QED BY <1>4, <2>2, <2>3
<1>6. TypeOK'
  BY <1>2, <1>3, <1>5 DEF TypeOK
<1>7. ViewsAgree' /\ Unread' = Unread
  BY <1>2, <1>3 DEF ViewsAgree, Unread
<1>8. ASSUME NEW i \in 0 .. Unread - 1
      PROVE  bytes'[(consumer.offset + i) % Capacity] = consumed + i
  <2>1. consumer.offset + i \in 0 .. 2 * Capacity - 1
    BY <1>1 DEF Offsets
  <2>2. /\ (consumer.offset + i) % Capacity = Wrap(consumer.offset + i)
        /\ Wrap(consumer.offset + i) \in Offsets
    BY <2>1, ModIsWrap
  <2>3. ~(Wrap(consumer.offset + i)
            \in writer.start .. writer.start + writer.len - 1)
    BY <1>11
  <2> QED BY <1>1, <1>3, <2>2, <2>3
<1>9. ASSUME NEW i \in 0 .. writer.len - 1
      PROVE  bytes'[writer.start + i] = produced + i
  <2>1. writer.start + i \in Offsets
    BY <1>11
  <2>2. writer.start \in Int
    BY <1>4, CapacityAssumption DEF Offsets
  <2>3. /\ writer.start + i \in writer.start .. writer.start + writer.len - 1
        /\ (writer.start + i) - writer.start = i
    BY <1>4, <2>2
  <2> QED BY <1>3, <2>1, <2>3
<1>10. StreamIntact'
  BY <1>2, <1>3, <1>7, <1>8, <1>9 DEF StreamIntact, ByteAt
<1> QED BY <1>6, <1>7, <1>10 DEF Inv

(* A call of the consumer that takes k bytes, flushed or not, while no     *)
(* reader stays open unless k is zero, or that opens a reader.             *)
LEMMA TakeKeepsInv ==
  ASSUME Inv, NEW k \in 0 .. Unread,
         \/ /\ consumer' = DiscardAll(FlushedConsumer, k)
            /\ control' = FlushAndSend("consumer", k)
         \/ /\ k <= consumer.size
            /\ consumer' = DiscardAll(consumer, k)
            /\ control' = [control EXCEPT !["producer"] = @ + k],
         \/ reader' = reader /\ (k > 0 => ~(reader.len > 0))
         \/ reader' = NoSpan
         \/ k = 0 /\ consumer' = FlushedConsumer
              /\ reader' = ReadableDataView(FlushedConsumer),
         collected' \subseteq Ends, hasNewData' \in BOOLEAN,
         consumed' = consumed + k,
         UNCHANGED <<bytes, producer, localClosed, peerClosed, writer, filled,
                     produced>>
  PROVE  Inv'
<1>1. /\ consumer' \in Views
      /\ control' \in [Ends -> 0 .. Capacity]
      /\ ViewsAgree'
      /\ \A i \in 0 .. Unread' - 1 : ByteAt(i)' = consumed' + i
      /\ k = 0 => /\ consumer'.offset = consumer.offset
                  /\ consumer'.size >= consumer.size
  BY ConsumerSide
<1>2. TypeOK /\ ViewsAgree /\ StreamIntact
  BY DEF Inv
<1>3. /\ Unread \in 0 .. Capacity /\ Capacity \in Nat /\ Capacity > 0
      /\ FlushedConsumer \in Views
      /\ reader.len \in Int /\ consumer.size \in Int /\ consumer'.size \in Int
      /\ consumed \in Nat
  BY <1>1, <1>2, FlushedViews, CapacityAssumption DEF TypeOK, Spans, Views
<1>4. NoSpan \in Spans /\ ~(NoSpan.len > 0)
  BY CapacityAssumption DEF NoSpan, Spans, Offsets
<1>5. /\ ReadableDataView(FlushedConsumer) \in Spans
      /\ ReadableDataView(FlushedConsumer).start = FlushedConsumer.offset
      /\ ReadableDataView(FlushedConsumer).len <= FlushedConsumer.size
  BY <1>3 DEF ReadableDataView, Spans, Views, Offsets, Least
<1>6. reader' \in Spans
  BY <1>2, <1>4, <1>5 DEF TypeOK
<1>7. consumed' \in Nat
  BY <1>3
<1>8. TypeOK'
  BY <1>1, <1>2, <1>6, <1>7 DEF TypeOK
<1>9. reader'.len > 0 => /\ reader'.start = consumer'.offset
                         /\ reader'.len <= consumer'.size
  <2>1. CASE reader' = reader /\ (k > 0 => ~(reader.len > 0))
    BY <1>1, <1>2, <1>3, <2>1 DEF StreamIntact
  <2>2. CASE reader' = NoSpan
    BY <1>4, <2>2
  <2>3. CASE k = 0 /\ consumer' = FlushedConsumer
               /\ reader' = ReadableDataView(FlushedConsumer)
    BY <1>5, <2>3
  <2> QED BY <2>1, <2>2, <2>3
<1>10. StreamIntact'
  BY <1>1, <1>2, <1>9 DEF StreamIntact
<1> QED BY <1>1, <1>8, <1>10 DEF Inv

(* read.                                                                   *)
LEMMA ReadKeepsInv ==
  ASSUME Inv, NEW n \in Counts, NEW all \in BOOLEAN,
         NEW mode \in {"take", "peek", "query"}, ReadData(n, all, mode)
  PROVE  Inv'
<1> DEFINE k == IF n % ElementSize = 0 THEN ReadCount(n, all, mode) ELSE 0
<1>1. /\ Unread \in 0 .. Capacity /\ FlushedConsumer.size = Unread
      /\ Capacity \in Nat /\ n \in Nat
  BY FlushedViews, CapacityAssumption DEF Counts
<1>2. k \in 0 .. Unread /\ (k > 0 => ~(reader.len > 0))
  BY <1>1 DEF ReadCount, Least
<1>3. /\ consumer' = DiscardAll(FlushedConsumer, k)
      /\ control' = FlushAndSend("consumer", k)
      /\ collected' = IF k > 0 THEN {Peer("consumer")} ELSE {}
      /\ hasNewData' \in BOOLEAN
      /\ consumed' = consumed + k
      /\ UNCHANGED <<bytes, producer, localClosed, peerClosed, writer, reader,
                     filled, produced>>
  BY DEF ReadData, CollectIfSent, Latched
<1> HIDE DEF k
<1>4. collected' \subseteq Ends
  BY <1>3 DEF Peer, Ends
<1> QED BY <1>2, <1>3, <1>4, TakeKeepsInv

(* begin_read.                                                             *)
LEMMA BeginReadKeepsInv ==
  ASSUME Inv, BeginRead
  PROVE  Inv'
<1>1. /\ Unread \in 0 .. Capacity /\ FlushedConsumer \in Views
      /\ DiscardAll(FlushedConsumer, 0) = FlushedConsumer
      /\ Capacity \in Nat /\ consumed \in Nat
  BY FlushedViews, ZeroView, CapacityAssumption DEF Inv, TypeOK
<1>2. /\ consumer' = FlushedConsumer
      /\ control' = FlushAndSend("consumer", 0)
      /\ reader' = reader \/ reader' = ReadableDataView(FlushedConsumer)
      /\ hasNewData' \in BOOLEAN
      /\ collected' = {}
      /\ UNCHANGED <<bytes, producer, localClosed, peerClosed, writer, filled,
                     produced, consumed>>
  BY DEF BeginRead
<1>3. consumed' = consumed + 0 /\ 0 \in 0 .. Unread /\ ~(0 > 0)
  BY <1>1, <1>2
<1>4. consumer' = DiscardAll(FlushedConsumer, 0)
  BY <1>1, <1>2
<1>5. collected' \subseteq Ends
  BY <1>2
<1> QED BY <1>2, <1>3, <1>4, <1>5, TakeKeepsInv

(* end_read.                                                               *)
LEMMA EndReadKeepsInv ==
  ASSUME Inv, NEW n \in Counts, EndRead(n)
  PROVE  Inv'
<1> DEFINE k == IF /\ n % ElementSize = 0 /\ n <= reader.len
                   /\ n <= consumer.size THEN n ELSE 0
<1>1. /\ consumer.size \in Nat /\ control["consumer"] \in Nat
      /\ n \in Nat /\ hasNewData \in BOOLEAN
  BY CapacityAssumption DEF Inv, TypeOK, Views, Counts, Ends
<1>2. k \in 0 .. Unread /\ k <= consumer.size
  BY <1>1 DEF Unread
<1>3. /\ reader' = NoSpan
      /\ consumer' = DiscardAll(consumer, k)
      /\ control' = [control EXCEPT !["producer"] = @ + k]
      /\ collected' = IF k > 0 THEN {Peer("consumer")} ELSE {}
      /\ consumed' = consumed + k
      /\ UNCHANGED <<bytes, producer, localClosed, peerClosed, writer, filled,
                     hasNewData, produced>>
  BY DEF EndRead, CollectIfSent
<1> HIDE DEF k
<1>4. collected' \subseteq Ends /\ hasNewData' \in BOOLEAN
  BY <1>1, <1>3 DEF Peer, Ends
<1> QED BY <1>2, <1>3, <1>4, TakeKeepsInv

(* Every step of the pipe keeps the invariant.                             *)
LEMMA StepKeepsInv ==
  ASSUME Inv, [Next]_vars
  PROVE  Inv'
<1>1. ASSUME NEW n \in Counts, NEW all \in BOOLEAN, WriteData(n, all)
      PROVE  Inv'
  BY <1>1, WriteKeepsInv
<1>2. CASE BeginWrite
  <2>1. /\ producer' = FlushedProducer
        /\ control' = FlushAndSend("producer", 0)
        /\ \/ writer' = writer
           \/ /\ ~(writer.len > 0)
              /\ writer' = AvailableCapacityView(FlushedProducer)
        /\ collected' = {} /\ hasNewData' = hasNewData
        /\ UNCHANGED <<bytes, consumer, localClosed, peerClosed, reader, filled,
                       produced, consumed>>
    BY <1>2 DEF BeginWrite
  <2> QED BY <2>1, FlushProducerKeepsInv
<1>3. CASE FillSpan
  BY <1>3, FillKeepsInv
<1>4. ASSUME NEW n \in Counts, EndWrite(n)
      PROVE  Inv'
  BY <1>4, EndWriteKeepsInv
<1>5. ASSUME NEW n \in Counts, NEW all \in BOOLEAN,
             NEW mode \in {"take", "peek", "query"}, ReadData(n, all, mode)
      PROVE  Inv'
  BY <1>5, ReadKeepsInv
<1>6. CASE BeginRead
  BY <1>6, BeginReadKeepsInv
<1>7. ASSUME NEW n \in Counts, EndRead(n)
      PROVE  Inv'
  BY <1>7, EndReadKeepsInv
<1>8. CASE QuerySignals("producer")
  <2>1. /\ producer' = FlushedProducer
        /\ control' = FlushAndSend("producer", 0)
        /\ writer' = writer
        /\ collected' = {} /\ hasNewData' = hasNewData
        /\ UNCHANGED <<bytes, consumer, localClosed, peerClosed, reader, filled,
                       produced, consumed>>
    BY <1>8 DEF QuerySignals
  <2> QED BY <2>1, FlushProducerKeepsInv
<1>9. CASE QuerySignals("consumer")
  <2>1. /\ consumer' = FlushedConsumer
        /\ control' = FlushAndSend("consumer", 0)
        /\ reader' = reader
        /\ collected' = {} /\ hasNewData' = Latched
        /\ UNCHANGED <<bytes, producer, localClosed, peerClosed, writer, filled,
                       produced, consumed>>
    BY <1>9 DEF QuerySignals
  <2>2. /\ Unread \in 0 .. Capacity /\ FlushedConsumer \in Views
        /\ DiscardAll(FlushedConsumer, 0) = FlushedConsumer
        /\ Capacity \in Nat /\ consumed \in Nat
        /\ hasNewData \in BOOLEAN
    BY FlushedViews, ZeroView, CapacityAssumption DEF Inv, TypeOK
  <2>3. /\ consumed' = consumed + 0 /\ 0 \in 0 .. Unread
        /\ ~(0 > 0)
    BY <2>1, <2>2
  <2>4. collected' \subseteq Ends /\ hasNewData' \in BOOLEAN
    BY <2>1, <2>2 DEF Latched
  <2>5. consumer' = DiscardAll(FlushedConsumer, 0)
    BY <2>1, <2>2
  <2> QED BY <2>1, <2>3, <2>4, <2>5, TakeKeepsInv
<1>10. ASSUME NEW e \in Ends, Close(e)
       PROVE  Inv'
  <2>1. /\ localClosed' = [localClosed EXCEPT ![e] = TRUE]
        /\ peerClosed' = [peerClosed EXCEPT ![Peer(e)] = TRUE]
        /\ hasNewData' \in BOOLEAN
        /\ collected' \subseteq Ends
        /\ UNCHANGED <<bytes, producer, consumer, control, writer, reader,
                       filled, produced, consumed>>
    BY <1>10 DEF Close, Latched, Inv, TypeOK, Peer, Ends
  <2>2. TypeOK'
    BY <2>1 DEF Inv, TypeOK
  <2>3. ViewsAgree' /\ StreamIntact'
    BY <2>1 DEF Inv, ViewsAgree, StreamIntact, Unread, ByteAt
  <2> QED BY <2>2, <2>3 DEF Inv
<1>11. CASE UNCHANGED vars
  BY <1>11 DEF vars, Inv, TypeOK, ViewsAgree, StreamIntact, Unread, ByteAt
<1>12. \A e \in Ends : e = "producer" \/ e = "consumer"
  BY DEF Ends
<1> QED
  BY <1>1, <1>2, <1>3, <1>4, <1>5, <1>6, <1>7, <1>8, <1>9, <1>10, <1>11, <1>12
    DEF Next

(* A new pipe: empty views, nothing unread.                                *)
LEMMA InitInv ==
  ASSUME Init
  PROVE  Inv
<1>1. /\ Capacity \in Nat /\ Capacity > 0 /\ 0 \in 0 .. Capacity
      /\ EmptyView \in Views /\ NoSpan \in Spans /\ 0 \in Offsets
  BY CapacityAssumption DEF EmptyView, Views, NoSpan, Spans, Offsets
<1>2. TypeOK
  BY <1>1 DEF Init, TypeOK
<1>3. Unread = 0 /\ control["producer"] = 0
  BY DEF Init, Unread, EmptyView, Ends
<1>4. 0 % Capacity = 0
  BY <1>1
<1>5. ViewsAgree
  BY <1>3, <1>4 DEF Init, ViewsAgree, EmptyView
<1>6. StreamIntact
  BY <1>3 DEF Init, StreamIntact, NoSpan
<1> QED BY <1>2, <1>5, <1>6 DEF Inv

(* The two views of a data pipe, the counts in flight between them and the *)
(* bytes in the memory always fit together (data_pipe.rs, ring_buffer.rs). *)
THEOREM PipeInvariant == Spec => []Inv
<1>1. Init => Inv
  BY InitInv
<1>2. Inv /\ [Next]_vars => Inv'
  BY StepKeepsInv
<1> QED BY <1>1, <1>2, PTL DEF Spec

(* What one endpoint has done and the other has not yet been told of       *)
(* accounts for every difference between their views; no flush fails.      *)
THEOREM ViewsStayInStep == Spec => []ViewsAgree
<1>1. Inv => ViewsAgree
  BY DEF Inv
<1> QED BY <1>1, PipeInvariant, PTL

(* The consumer gets the bytes of the stream in order, and none of them is *)
(* overwritten before it is taken, by one-phase or two-phase operations.   *)
THEOREM StreamStaysIntact == Spec => []StreamIntact
<1>1. Inv => StreamIntact
  BY DEF Inv
<1> QED BY <1>1, PipeInvariant, PTL

-----------------------------------------------------------------------------
(* The latch, and why it can be trusted: it is set only while bytes beyond *)
(* the span of an open reader are unread, so ending the read cannot take   *)
(* the last byte from under it.                                            *)
NewDataIsUnread == hasNewData => Unread > reader.len

LEMMA LatchStep ==
  ASSUME Inv, Inv', NewDataIsUnread, [Next]_vars
  PROVE  NewDataIsUnread'
<1>1. /\ Unread \in 0 .. Capacity /\ Capacity \in Nat
      /\ reader.len \in Nat /\ consumer.size \in Nat
      /\ control["consumer"] \in Nat /\ control["producer"] \in Nat
      /\ Unread = consumer.size + control["consumer"]
      /\ reader.len <= consumer.size
      /\ produced \in Nat /\ consumed \in Nat
      /\ produced = consumed + Unread
  <2>1. /\ reader.len \in Nat /\ consumer.size \in Nat
        /\ reader.len > 0 => reader.len <= consumer.size
        /\ control["consumer"] \in Nat /\ control["producer"] \in Nat
        /\ produced \in Nat /\ consumed \in Nat
        /\ produced = consumed + Unread
    BY CapacityAssumption
      DEF Inv, TypeOK, StreamIntact, Spans, Views, ViewsAgree, Ends
  <2>2. Unread \in 0 .. Capacity
    BY FlushedViews
  <2> QED BY <2>1, <2>2, CapacityAssumption DEF Unread
<1>2. /\ produced' = consumed' + Unread'
      /\ produced' \in Nat /\ consumed' \in Nat
      /\ Unread' \in Nat
  BY CapacityAssumption DEF Inv, TypeOK, ViewsAgree, Unread, Views, Ends
<1>3. Latched => Unread > reader.len
  BY <1>1 DEF NewDataIsUnread, Latched
<1>4. ASSUME NEW n \in Counts, NEW all \in BOOLEAN, WriteData(n, all)
      PROVE  NewDataIsUnread'
  <2> DEFINE k == WriteCount(n, all)
  <2>1. hasNewData' => hasNewData \/ k > 0
    BY <1>4 DEF WriteData
  <2>4. /\ produced' = produced + k
        /\ reader' = reader /\ consumed' = consumed
    BY <1>4 DEF WriteData
  <2>2. k \in Nat
    <3>1. /\ FlushedProducer.size = Unread /\ n \in Nat
      BY FlushedViews, CapacityAssumption DEF Counts
    <3> QED BY <1>1, <3>1 DEF WriteCount, Least, AvailableCapacity
  <2> HIDE DEF k
  <2>3. Unread' = Unread + k
    BY <1>1, <1>2, <2>2, <2>4 DEF Unread
  <2>5. hasNewData => Unread > reader.len
    BY DEF NewDataIsUnread
  <2>6. /\ Unread > reader.len => Unread + k > reader.len
        /\ k > 0 => Unread + k > reader.len
    <3>1. /\ Unread \in Nat /\ reader.len \in Nat
          /\ reader.len <= Unread
      BY <1>1
    <3> QED BY <2>2, <3>1
  <2> QED BY <2>1, <2>3, <2>4, <2>5, <2>6 DEF NewDataIsUnread
<1>5. ASSUME NEW n \in Counts, EndWrite(n)
      PROVE  NewDataIsUnread'
  <2> DEFINE k == IF /\ n % ElementSize = 0 /\ n <= writer.len
                     /\ n <= AvailableCapacity(producer) THEN n ELSE 0
  <2>1. hasNewData' => hasNewData \/ k > 0
    BY <1>5 DEF EndWrite
  <2>4. /\ produced' = produced + k
        /\ reader' = reader /\ consumed' = consumed
    BY <1>5 DEF EndWrite
  <2>2. k \in Nat
    BY CapacityAssumption DEF Counts
  <2> HIDE DEF k
  <2>3. Unread' = Unread + k
    BY <1>1, <1>2, <2>2, <2>4 DEF Unread
  <2>5. hasNewData => Unread > reader.len
    BY DEF NewDataIsUnread
  <2>6. /\ Unread > reader.len => Unread + k > reader.len
        /\ k > 0 => Unread + k > reader.len
    <3>1. /\ Unread \in Nat /\ reader.len \in Nat
          /\ reader.len <= Unread
      BY <1>1
    <3> QED BY <2>2, <3>1
  <2> QED BY <2>1, <2>3, <2>4, <2>5, <2>6 DEF NewDataIsUnread
<1>6. ASSUME NEW n \in Counts, NEW all \in BOOLEAN,
             NEW mode \in {"take", "peek", "query"}, ReadData(n, all, mode)
      PROVE  NewDataIsUnread'
  <2> DEFINE k == IF n % ElementSize = 0 THEN ReadCount(n, all, mode) ELSE 0
  <2>1. hasNewData' => /\ Latched
                       /\ \/ reader.len > 0
                          \/ mode = "query"
                          \/ n % ElementSize # 0
    BY <1>6 DEF ReadData
  <2>2. hasNewData' => k = 0
    BY <2>1 DEF ReadCount
  <2>3. /\ consumed' = consumed + k
        /\ reader' = reader /\ produced' = produced
    BY <1>6 DEF ReadData
  <2> HIDE DEF k
  <2>4. ASSUME k = 0
        PROVE  Unread' = Unread
    <3>1. consumed' = consumed
      BY <1>1, <2>3, <2>4
    <3> QED BY <1>1, <1>2, <2>3, <3>1 DEF Unread
  <2> QED BY <1>3, <2>1, <2>2, <2>3, <2>4 DEF NewDataIsUnread
<1>7. CASE BeginRead
  <2>1. /\ hasNewData' => Latched /\ reader' = reader
        /\ UNCHANGED <<produced, consumed>>
    BY <1>7 DEF BeginRead
  <2>2. Unread' = Unread
    BY <1>1, <1>2, <2>1 DEF Unread
  <2> QED BY <1>3, <2>1, <2>2 DEF NewDataIsUnread
<1>8. ASSUME NEW n \in Counts, EndRead(n)
      PROVE  NewDataIsUnread'
  <2> DEFINE k == IF /\ n % ElementSize = 0 /\ n <= reader.len
                     /\ n <= consumer.size THEN n ELSE 0
  <2>1. /\ hasNewData' = hasNewData /\ reader' = NoSpan
        /\ consumed' = consumed + k /\ produced' = produced
    BY <1>8 DEF EndRead
  <2>2. k \in Nat /\ k <= reader.len
    BY <1>1, CapacityAssumption DEF Counts
  <2> HIDE DEF k
  <2>3. Unread' = Unread - k
    BY <1>1, <1>2, <2>1, <2>2 DEF Unread
  <2>4. reader'.len = 0
    BY <2>1 DEF NoSpan
  <2> QED BY <1>1, <2>1, <2>2, <2>3, <2>4 DEF NewDataIsUnread
<1>9. CASE \/ BeginWrite \/ FillSpan
           \/ \E e \in Ends : QuerySignals(e) \/ Close(e)
           \/ UNCHANGED vars
  <2>1. hasNewData' => Latched
    BY <1>9 DEF BeginWrite, FillSpan, QuerySignals, Close, vars, Latched
  <2>3. /\ reader' = reader
        /\ produced' = produced /\ consumed' = consumed
    BY <1>9 DEF BeginWrite, FillSpan, QuerySignals, Close, vars
  <2>2. Unread' = Unread
    BY <1>1, <1>2, <2>3 DEF Unread
  <2> QED BY <1>3, <2>1, <2>2, <2>3 DEF NewDataIsUnread
<1> QED BY <1>4, <1>5, <1>6, <1>7, <1>8, <1>9 DEF Next

(* At every moment, whatever has been flushed: READABLE means that a byte  *)
(* is unread, WRITABLE that there is room and a consumer, and              *)
(* NEW_DATA_READABLE is never shown on an empty pipe (signals_of).         *)
THEOREM SignalsAreTruthful == Spec => []SignalsTruthful
<1>1. Init => NewDataIsUnread
  BY DEF Init, NewDataIsUnread
<1>2. Inv /\ Inv' /\ NewDataIsUnread /\ [Next]_vars => NewDataIsUnread'
  BY LatchStep
<1>3. Inv /\ NewDataIsUnread => SignalsTruthful
  <2> SUFFICES ASSUME Inv, NewDataIsUnread
               PROVE  SignalsTruthful
    OBVIOUS
  <2> DEFINE room == AvailableCapacity(producer) > 0 \/ control["producer"] > 0
             newData == hasNewData \/ control["consumer"] > 0
             data == newData \/ consumer.size > 0
  <2>1. /\ consumer.size \in Nat /\ control["consumer"] \in Nat
        /\ control["producer"] \in Nat /\ producer.size \in 0 .. Capacity
        /\ reader.len \in Nat /\ Capacity \in Nat
        /\ producer.size = Unread + control["producer"]
        /\ Unread = consumer.size + control["consumer"]
    BY CapacityAssumption DEF Inv, TypeOK, Views, Spans, ViewsAgree, Unread, Ends
  <2>2. newData => Unread > 0
    BY <2>1 DEF NewDataIsUnread
  <2>3. data <=> Unread > 0
    BY <2>1, <2>2
  <2>4. room <=> Unread < Capacity
    BY <2>1 DEF AvailableCapacity
  <2>5. /\ "READABLE" \in SignalsOf("consumer").satisfied <=> data
        /\ "NEW_DATA_READABLE" \in SignalsOf("consumer").satisfied <=> newData
        /\ "WRITABLE" \in SignalsOf("producer").satisfied
             <=> ~peerClosed["producer"] /\ room
    BY DEF SignalsOf
  <2> HIDE DEF room, newData, data
  <2> QED BY <2>2, <2>3, <2>4, <2>5 DEF SignalsTruthful
<1> QED BY <1>1, <1>2, <1>3, PipeInvariant, PTL DEF Spec

-----------------------------------------------------------------------------
(* A step that goes through no watcher of an endpoint brings no news to    *)
(* it: bytes arrive only at a consumer whose watchers are gone through,    *)
(* room only at such a producer, and closures reach the peer's watchers.   *)
News(e) ==
  \/ peerClosed'[e] # peerClosed[e]
  \/ e = "consumer" /\ produced' > produced
  \/ e = "consumer" /\ Latched' /\ ~Latched
  \/ e = "producer" /\ consumed' > consumed

(* What says that e hears no news, in parts for the provers.               *)
LEMMA NoNews ==
  ASSUME NEW e \in Ends,
         peerClosed'[e] = peerClosed[e],
         e = "consumer" => produced' = produced /\ produced \in Nat,
         e = "consumer" => (Latched' => Latched),
         e = "producer" => consumed' = consumed /\ consumed \in Nat
  PROVE  ~News(e)
<1>1. e = "consumer" => ~(produced' > produced)
  OBVIOUS
<1>2. e = "producer" => ~(consumed' > consumed)
  OBVIOUS
<1> QED BY <1>1, <1>2, Zenon DEF News

LEMMA NoLatch ==
  ASSUME hasNewData' => Latched, control'["consumer"] > 0 => control["consumer"] > 0
  PROVE  Latched' => Latched
BY Zenon DEF Latched

LEMMA NewsIsCollected ==
  ASSUME Inv, [Next]_vars, NEW e \in Ends, News(e)
  PROVE  e \in collected'
<1>0. /\ produced \in Nat /\ consumed \in Nat /\ Capacity \in Nat
      /\ control \in [Ends -> 0 .. Capacity]
      /\ Unread \in 0 .. Capacity /\ FlushedProducer.size = Unread
      /\ FlushedConsumer.size = Unread
  BY FlushedViews, CapacityAssumption DEF Inv, TypeOK
<1>1. ASSUME NEW n \in Counts, NEW all \in BOOLEAN, WriteData(n, all)
      PROVE  e \in collected'
  <2>1. PICK k : k = WriteCount(n, all)
    OBVIOUS
  <2>2. k \in Nat
    BY <1>0, <2>1, CapacityAssumption DEF WriteCount, Least, AvailableCapacity, Counts
  <2>3. /\ produced' = produced + k /\ consumed' = consumed
        /\ control' = FlushAndSend("producer", k)
        /\ collected' = IF k > 0 THEN {"consumer"} ELSE {}
    BY <1>1, <2>1 DEF WriteData, CollectIfSent, Peer
  <2>4. hasNewData' = (hasNewData \/ k > 0) /\ peerClosed' = peerClosed
    BY <1>1, <2>1 DEF WriteData
  <2>5. ASSUME k = 0 PROVE Latched' => Latched
    <3>1. control'["consumer"] = control["consumer"] /\ ~(k > 0)
      BY <2>3, <2>5, <1>0 DEF FlushAndSend, Peer, Ends
    <3> QED BY <2>4, <3>1, Zenon DEF Latched
  <2>6. k = 0 => produced' = produced
    BY <2>2, <2>3, <1>0
  <2>7. k = 0 => FALSE
    BY <2>3, <2>4, <2>5, <2>6, <1>0, NoNews
  <2>8. e = "producer" => FALSE
    BY <2>3, <2>4, <1>0, NoNews
  <2> QED BY <2>2, <2>3, <2>7, <2>8 DEF Ends
<1>2. ASSUME NEW n \in Counts, EndWrite(n)
      PROVE  e \in collected'
  <2>1. PICK k : k = IF /\ n % ElementSize = 0 /\ n <= writer.len
                        /\ n <= AvailableCapacity(producer) THEN n ELSE 0
    OBVIOUS
  <2>2. k \in Nat
    BY <2>1, CapacityAssumption DEF Counts
  <2>3. /\ produced' = produced + k /\ consumed' = consumed
        /\ control' = [control EXCEPT !["consumer"] = @ + k]
        /\ collected' = IF k > 0 THEN {"consumer"} ELSE {}
    BY <1>2, <2>1 DEF EndWrite, CollectIfSent, Peer
  <2>4. hasNewData' = (hasNewData \/ k > 0) /\ peerClosed' = peerClosed
    BY <1>2, <2>1 DEF EndWrite
  <2>5. ASSUME k = 0 PROVE Latched' => Latched
    <3>1. control'["consumer"] = control["consumer"] /\ ~(k > 0)
      BY <2>3, <2>5, <1>0 DEF Ends
    <3> QED BY <2>4, <3>1, Zenon DEF Latched
  <2>6. k = 0 => produced' = produced
    BY <2>2, <2>3, <1>0
  <2>7. k = 0 => FALSE
    BY <2>3, <2>4, <2>5, <2>6, <1>0, NoNews
  <2>8. e = "producer" => FALSE
    BY <2>3, <2>4, <1>0, NoNews
  <2> QED BY <2>2, <2>3, <2>7, <2>8 DEF Ends
<1>3. ASSUME NEW n \in Counts, NEW all \in BOOLEAN,
             NEW mode \in {"take", "peek", "query"}, ReadData(n, all, mode)
      PROVE  e \in collected'
  <2>1. PICK k : k = IF n % ElementSize = 0 THEN ReadCount(n, all, mode) ELSE 0
    OBVIOUS
  <2>2. k \in Nat
    BY <1>0, <2>1, CapacityAssumption DEF ReadCount, Least, Counts
  <2>3. /\ consumed' = consumed + k /\ produced' = produced
        /\ control' = FlushAndSend("consumer", k)
        /\ collected' = IF k > 0 THEN {"producer"} ELSE {}
    BY <1>3, <2>1 DEF ReadData, CollectIfSent, Peer
  <2>4. (hasNewData' => Latched) /\ peerClosed' = peerClosed
    BY <1>3 DEF ReadData
  <2>5. control'["consumer"] > 0 => control["consumer"] > 0
    BY <2>3, <1>0 DEF FlushAndSend, Peer, Ends
  <2>6. k = 0 => consumed' = consumed
    BY <2>2, <2>3, <1>0
  <2>7. e = "consumer" \/ k = 0 => FALSE
    BY <2>3, <2>4, <2>5, <2>6, <1>0, NoNews, NoLatch DEF Ends
  <2> QED BY <2>2, <2>3, <2>7 DEF Ends
<1>4. ASSUME NEW n \in Counts, EndRead(n)
      PROVE  e \in collected'
  <2>1. PICK k : k = IF /\ n % ElementSize = 0 /\ n <= reader.len
                        /\ n <= consumer.size THEN n ELSE 0
    OBVIOUS
  <2>2. k \in Nat
    BY <2>1, CapacityAssumption DEF Counts
  <2>3. /\ consumed' = consumed + k /\ produced' = produced
        /\ control' = [control EXCEPT !["producer"] = @ + k]
        /\ collected' = IF k > 0 THEN {"producer"} ELSE {}
    BY <1>4, <2>1 DEF EndRead, CollectIfSent, Peer
  <2>4. (hasNewData' => Latched) /\ peerClosed' = peerClosed
    BY <1>4 DEF EndRead, Latched
  <2>5. control'["consumer"] > 0 => control["consumer"] > 0
    BY <2>3, <1>0 DEF Ends
  <2>6. k = 0 => consumed' = consumed
    BY <2>2, <2>3, <1>0
  <2>7. e = "consumer" \/ k = 0 => FALSE
    BY <2>3, <2>4, <2>5, <2>6, <1>0, NoNews, NoLatch DEF Ends
  <2> QED BY <2>2, <2>3, <2>7 DEF Ends
<1>5. ASSUME NEW f \in Ends, QuerySignals(f)
      PROVE  e \in collected'
  <2>1. /\ produced' = produced /\ consumed' = consumed
        /\ control' = FlushAndSend(f, 0)
    BY <1>5 DEF QuerySignals
  <2>2. (hasNewData' => Latched) /\ peerClosed' = peerClosed
    BY <1>5 DEF QuerySignals, Latched
  <2>3. control'["consumer"] > 0 => control["consumer"] > 0
    BY <2>1, <1>0 DEF FlushAndSend, Peer, Ends
  <2> QED BY <2>1, <2>2, <2>3, <1>0, NoNews, NoLatch
<1>6. ASSUME NEW f \in Ends, Close(f)
      PROVE  e \in collected'
  <2>1. /\ produced' = produced /\ consumed' = consumed /\ control' = control
        /\ peerClosed' = [peerClosed EXCEPT ![Peer(f)] = TRUE]
        /\ collected' = {Peer(f)}
    BY <1>6 DEF Close
  <2>2. hasNewData' => Latched
    BY <1>6 DEF Close, Latched
  <2>3. e # Peer(f) => peerClosed'[e] = peerClosed[e]
    BY <2>1 DEF Inv, TypeOK
  <2> QED BY <2>1, <2>2, <2>3, <1>0, NoNews, NoLatch
<1>7. CASE BeginWrite
  <2>1. /\ produced' = produced /\ consumed' = consumed
        /\ control' = FlushAndSend("producer", 0)
    BY <1>7 DEF BeginWrite
  <2>2. (hasNewData' => Latched) /\ peerClosed' = peerClosed
    BY <1>7 DEF BeginWrite, Latched
  <2>3. control'["consumer"] > 0 => control["consumer"] > 0
    BY <2>1, <1>0 DEF FlushAndSend, Peer, Ends
  <2> QED BY <2>1, <2>2, <2>3, <1>0, NoNews, NoLatch
<1>8. CASE BeginRead
  <2>1. /\ produced' = produced /\ consumed' = consumed
        /\ control' = FlushAndSend("consumer", 0)
    BY <1>8 DEF BeginRead
  <2>2. (hasNewData' => Latched) /\ peerClosed' = peerClosed
    BY <1>8 DEF BeginRead
  <2>3. control'["consumer"] > 0 => control["consumer"] > 0
    BY <2>1, <1>0 DEF FlushAndSend, Peer, Ends
  <2> QED BY <2>1, <2>2, <2>3, <1>0, NoNews, NoLatch
<1>9. CASE FillSpan \/ UNCHANGED vars
  <2>1. produced' = produced /\ consumed' = consumed /\ control' = control
    BY <1>9 DEF FillSpan, vars
  <2>2. (hasNewData' => Latched) /\ peerClosed' = peerClosed
    BY <1>9 DEF FillSpan, vars, Latched
  <2> QED BY <2>1, <2>2, <1>0, NoNews, NoLatch
<1> QED BY <1>1, <1>2, <1>3, <1>4, <1>5, <1>6, <1>7, <1>8, <1>9 DEF Next

(* A step lowers the number of neither end of the stream.                  *)
LEMMA CountsGrow ==
  ASSUME Inv, [Next]_vars
  PROVE  produced' >= produced /\ consumed' >= consumed
<1>0. /\ produced \in Nat /\ consumed \in Nat /\ Unread \in 0 .. Capacity
      /\ FlushedProducer.size = Unread /\ FlushedConsumer.size = Unread
      /\ Capacity \in Nat /\ \A n \in Counts : n \in Nat
  BY FlushedViews, CapacityAssumption DEF Inv, TypeOK, Counts
<1>1. ASSUME NEW n \in Counts, NEW all \in BOOLEAN, WriteData(n, all)
      PROVE  produced' >= produced /\ consumed' = consumed
  <2>1. WriteCount(n, all) \in Nat
    BY <1>0 DEF WriteCount, Least, AvailableCapacity
  <2>2. produced' = produced + WriteCount(n, all) /\ consumed' = consumed
    BY <1>1 DEF WriteData
  <2> QED BY <2>1, <2>2, <1>0
<1>2. ASSUME NEW n \in Counts, EndWrite(n)
      PROVE  produced' >= produced /\ consumed' = consumed
  <2>1. (produced' = produced + n \/ produced' = produced + 0) /\ consumed' = consumed
    BY <1>2 DEF EndWrite
  <2> QED BY <2>1, <1>0
<1>3. ASSUME NEW n \in Counts, NEW all \in BOOLEAN,
             NEW mode \in {"take", "peek", "query"}, ReadData(n, all, mode)
      PROVE  consumed' >= consumed /\ produced' = produced
  <2>1. ReadCount(n, all, mode) \in Nat
    BY <1>0 DEF ReadCount, Least
  <2>2. /\ \/ consumed' = consumed + ReadCount(n, all, mode)
           \/ consumed' = consumed + 0
        /\ produced' = produced
    BY <1>3 DEF ReadData
  <2> QED BY <2>1, <2>2, <1>0
<1>4. ASSUME NEW n \in Counts, EndRead(n)
      PROVE  consumed' >= consumed /\ produced' = produced
  <2>1. (consumed' = consumed + n \/ consumed' = consumed + 0) /\ produced' = produced
    BY <1>4 DEF EndRead
  <2> QED BY <2>1, <1>0
<1>5. CASE \/ BeginWrite \/ FillSpan \/ BeginRead \/ UNCHANGED vars
           \/ \E e \in Ends : QuerySignals(e) \/ Close(e)
  <2>1. produced' = produced /\ consumed' = consumed
    BY <1>5 DEF BeginWrite, FillSpan, BeginRead, QuerySignals, Close, vars
  <2> QED BY <2>1, <1>0
<1>6. produced >= produced /\ consumed >= consumed
  BY <1>0
<1> QED BY <1>1, <1>2, <1>3, <1>4, <1>5, <1>6 DEF Next

(* What fires at an endpoint that hears no news fired there before.        *)
LEMMA NoNewsNoFire ==
  ASSUME Inv, Inv', SignalsTruthful, SignalsTruthful', [Next]_vars,
         NEW e \in Ends, NEW s, ~News(e), Fires(SignalsOf(e)', s)
  PROVE  Fires(SignalsOf(e), s)
<1>1. /\ produced \in Nat /\ consumed \in Nat
      /\ produced' \in Nat /\ consumed' \in Nat
      /\ produced = consumed + Unread /\ produced' = consumed' + Unread'
  BY DEF Inv, TypeOK, ViewsAgree
<1>0. peerClosed[e] \in BOOLEAN /\ peerClosed'[e] = peerClosed[e]
  BY DEF Inv, TypeOK, News
<1>2. Unread \in 0 .. Capacity /\ Unread' \in Nat /\ Capacity \in Nat
  <2>1. Unread' \in Nat
    BY CapacityAssumption DEF Inv, TypeOK, Unread, Views, Ends
  <2> QED BY <2>1, FlushedViews, CapacityAssumption
<1>3. produced' >= produced /\ consumed' >= consumed
  BY CountsGrow
<1>3a. /\ produced' = produced => Unread' <= Unread
       /\ consumed' = consumed => Unread <= Unread'
  BY <1>1, <1>2, <1>3 DEF Unread
<1>4. CASE peerClosed[e]
  <2>1. SignalsOf(e).satisfiable \subseteq SignalsOf(e).satisfied
    BY <1>4 DEF SignalsOf, Ends
  <2> QED BY <2>1 DEF Fires, IsSatisfied, IsUnsatisfiable
<1>5. CASE ~peerClosed[e]
  <2>1. SignalsOf(e)'.satisfiable = SignalsOf(e).satisfiable
    BY <1>0, <1>5 DEF SignalsOf, Ends
  <2>2. SignalsOf(e)'.satisfied \subseteq SignalsOf(e).satisfied
    <3>1. CASE e = "consumer"
      <4>1. produced' = produced /\ (Latched' => Latched)
        BY <1>1, <1>3, <3>1 DEF News
      <4>2. Unread' > 0 => Unread > 0
        BY <1>2, <1>3a, <4>1 DEF Unread
      <4>3. "READABLE" \in SignalsOf(e)'.satisfied => "READABLE" \in SignalsOf(e).satisfied
        BY <4>2, <3>1 DEF SignalsTruthful
      <4>4. "NEW_DATA_READABLE" \in SignalsOf(e)'.satisfied
              => "NEW_DATA_READABLE" \in SignalsOf(e).satisfied
        BY <4>1, <3>1 DEF SignalsOf, Latched
      <4>5. SignalsOf(e)'.satisfied \subseteq {"READABLE", "NEW_DATA_READABLE"}
        BY <1>0, <1>5, <3>1 DEF SignalsOf
      <4> QED BY <4>3, <4>4, <4>5
    <3>2. CASE e = "producer"
      <4>1. consumed' = consumed
        BY <1>1, <1>3, <3>2 DEF News
      <4>2. Unread' < Capacity => Unread < Capacity
        BY <1>2, <1>3a, <4>1 DEF Unread
      <4>3. "WRITABLE" \in SignalsOf(e)'.satisfied => "WRITABLE" \in SignalsOf(e).satisfied
        BY <4>2, <3>2, <1>5 DEF SignalsTruthful
      <4>4. SignalsOf(e)'.satisfied \subseteq {"WRITABLE"}
        BY <1>0, <1>5, <3>2 DEF SignalsOf
      <4> QED BY <4>3, <4>4
    <3> QED BY <3>1, <3>2 DEF Ends
  <2> QED BY <2>1, <2>2 DEF Fires, IsSatisfied, IsUnsatisfiable
<1> QED BY <1>4, <1>5

(* Watchers hear of every change, for every set of signals: a step that    *)
(* makes a watch fire goes through the watchers of its endpoint (the       *)
(* collect_watchers calls of data_pipe.rs).                                *)
THEOREM ChangesAreHeard == Spec => ChangeIsHeard
<1> DEFINE Heard == \A e \in Ends, s \in SUBSET AllSignals :
                      /\ ~localClosed[e]
                      /\ ~Fires(SignalsOf(e), s)
                      /\ Fires(SignalsOf(e)', s)
                      => e \in collected'
<1>1. Inv /\ Inv' /\ SignalsTruthful /\ SignalsTruthful' /\ [Next]_vars => [Heard]_vars
  <2> SUFFICES ASSUME Inv, Inv', SignalsTruthful, SignalsTruthful', [Next]_vars
               PROVE  Heard
    OBVIOUS
  <2> QED BY NewsIsCollected, NoNewsNoFire
<1> QED BY <1>1, PipeInvariant, SignalsAreTruthful, PTL DEF Spec, ChangeIsHeard
=============================================================================
