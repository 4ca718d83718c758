-------------------------- MODULE RingBufferProofs --------------------------
(***************************************************************************)
(* The safety of the ring of ringbuffer.cpp, for every capacity, transfer  *)
(* length, block length and wrap of size_t.  IInv is an inductive          *)
(* invariant, and it implies NoDataRace, DeliveredIsPrefix and NoShortRead.*)
(* The second part is about what the ring loses, and shows that it is the  *)
(* lossy queue its callers are promised.                                   *)
(***************************************************************************)
EXTENDS RingBuffer, ModArith, SequenceTheorems, FiniteSetTheorems, TLAPS

USE CapacityAssumption, LapsAssumption, WriteLensAssumption, BlockAssumption,
    BoundAssumption

(* size_t counts through the buffer at least twice before it wraps. *)
LEMMA SizeModBounds == SizeMod \in Nat \ {0} /\ 2 * Capacity <= SizeMod
<1> DEFINE extra == Laps - 2
<1>1. extra \in Nat /\ Laps = extra + 2
  BY LapsAssumption
<1>2. Capacity * Laps = Capacity * extra + 2 * Capacity
  <2> HIDE DEF extra
  <2> QED
    BY <1>1
<1>3. Capacity * extra \in Nat
  <2> HIDE DEF extra
  <2> QED
    BY <1>1
<1> QED
  BY <1>2, <1>3 DEF SizeMod

(* The wrapped subtraction head - tail is the distance of the counts, as   *)
(* long as that is at most the capacity.                                   *)
LEMMA DistanceExact ==
  ASSUME NEW a \in Nat, NEW b \in Nat, b <= a, a <= b + Capacity
  PROVE  Distance(a % SizeMod, b % SizeMod) = a - b
<1>1. a < b + SizeMod
  BY SizeModBounds
<1>2. a \in Int /\ b \in Int /\ SizeMod \in Nat \ {0}
  BY SizeModBounds
<1> QED
  BY <1>1, <1>2, ModDistance, Zenon DEF Distance

(* A counter advanced by n wraps to the advanced count. *)
LEMMA AdvanceExact ==
  ASSUME NEW a \in Nat, NEW n \in Nat
  PROVE  Advance(a % SizeMod, n) = (a + n) % SizeMod
<1> DEFINE q == a \div SizeMod
           s == a % SizeMod
<1>1. q \in Int /\ s \in Int /\ a = SizeMod * q + s
  BY SizeModBounds, DivMod
<1> HIDE DEF q, s
<1>2. ((s + n) + SizeMod * q) % SizeMod = (s + n) % SizeMod
  <2>1. s + n \in Int /\ SizeMod \in Nat \ {0}
    BY <1>1, SizeModBounds
  <2> QED
    BY <1>1, <2>1, ModShift, Zenon
<1>3. (s + n) + SizeMod * q = a + n
  BY <1>1, SizeModBounds
<1> QED
  BY <1>2, <1>3 DEF Advance, s

(* What write() and read() compute with a possibly stale counter. *)
LEMMA FreeSpaceExact ==
  ASSUME NEW a \in Nat, NEW t \in Nat, head = a % SizeMod, t <= a,
         a <= t + Capacity
  PROVE  FreeSpace(t) = t + Capacity - a
<1>1. Distance(head, t % SizeMod) = a - t
  BY DistanceExact
<1>2. Capacity - (a - t) \in 0..(SizeMod - 1)
  BY SizeModBounds
<1>3. (Capacity - (a - t)) % SizeMod = Capacity - (a - t)
  BY <1>2, SizeModBounds, ModSmall
<1> QED
  BY <1>1, <1>3 DEF FreeSpace

(* With head_ = h, the consumer computes exactly the h - c bytes unread. *)
LEMMA FilledExact ==
  ASSUME NEW c \in Nat, NEW h \in Nat, tail = c % SizeMod, c <= h,
         h <= c + Capacity
  PROVE  Filled(h) = h - c
BY DistanceExact DEF Filled

(* The two memcpys touch consecutive slots, modulo the capacity. *)
LEMMA SlotExact ==
  ASSUME NEW a \in Nat, NEW len \in 0..Capacity, NEW j \in 0..(len - 1)
  PROVE  SlotOf(a % SizeMod, len, j) = (a + j) % Capacity
<1>1. (a % SizeMod) % Capacity = a % Capacity
  <2>1. a \in Int /\ Capacity \in Nat \ {0} /\ Laps \in Nat \ {0}
    OBVIOUS
  <2> QED
    BY <2>1, ModOfMod, Zenon DEF SizeMod
<1>2. a % Capacity \in 0..(Capacity - 1)
  BY DivMod
<1> DEFINE pos == a % Capacity
<1>3. (a + j) % Capacity = IF pos + j < Capacity THEN pos + j
                                                 ELSE pos + j - Capacity
  <2>1. a \in Int /\ Capacity \in Nat \ {0} /\ j \in 0..Capacity
    OBVIOUS
  <2> QED
    BY <2>1, ModAdvance, Zenon
<1>4. SlotOf(a % SizeMod, len, j)
        = IF j < StdMin(len, Capacity - pos) THEN pos + j
                                             ELSE j - StdMin(len, Capacity - pos)
  BY <1>1 DEF SlotOf
<1> HIDE DEF pos
<1> QED
  BY <1>2, <1>3, <1>4 DEF pos, StdMin

(* Every position of the stream has a slot in the buffer. *)
LEMMA SlotInRange ==
  ASSUME NEW a \in Nat
  PROVE  a % Capacity \in Slots
<1>1. a \in Int /\ Capacity \in Nat \ {0}
  OBVIOUS
<1> QED
  BY <1>1, DivMod, Zenon DEF Slots

(* Bytes less than a capacity apart never share a slot. *)
LEMMA SlotsDiffer ==
  ASSUME NEW a \in Nat, NEW b \in Nat, a < b, b < a + Capacity
  PROVE  a % Capacity # b % Capacity
<1>1. a \in Int /\ b \in Int /\ Capacity \in Nat \ {0} /\ a < b + Capacity /\ a # b
  OBVIOUS
<1> QED
  BY <1>1, ModInjective, Zenon

-----------------------------------------------------------------------------
(* The inequalities of IInv between the counts. *)
LEMMA CountBounds ==
  ASSUME TypeOK, CountersWrap, ProducerHasRoom, ConsumerHasData
  PROVE  /\ Len(accepted) \in Nat /\ consumed \in Nat
         /\ wlen \in 0..Capacity
         /\ Len(accepted) + wlen <= consumed + Capacity
         /\ rlen \in 0..Capacity
         /\ consumed + rlen <= Len(accepted)
<1>1. Len(accepted) \in Nat /\ consumed \in Nat /\ wlen \in Nat /\ rlen \in Nat
  BY DEF TypeOK
<1>2. Len(accepted) + wlen <= consumed + Capacity
  BY DEF ProducerHasRoom
<1>3. consumed + rlen <= Len(accepted) /\ consumed <= Len(accepted)
  BY DEF ConsumerHasData, CountersWrap
<1> QED
  BY <1>1, <1>2, <1>3, CapacityAssumption

(* The constructed ring satisfies the invariant. *)
LEMMA InitIInv == Init => IInv
<1> SUFFICES ASSUME Init PROVE IInv
  OBVIOUS
<1>1. SizeMod \in Nat \ {0} /\ 0 % SizeMod = 0
  <2>1. 0 \in 0..(SizeMod - 1)
    BY SizeModBounds
  <2> QED
    BY <2>1, SizeModBounds, ModSmall
<1>2. TypeOK
  BY <1>1 DEF Init, TypeOK, Slots
<1>3. CountersWrap /\ ProducerHasRoom /\ ConsumerHasData
  BY <1>1 DEF Init, CountersWrap, ProducerHasRoom, ConsumerHasData
<1>4. BytesInPlace /\ DeliveredSoFar
  BY DEF Init, BytesInPlace, DeliveredSoFar
<1> QED
  BY <1>2, <1>3, <1>4 DEF IInv

(* write() up to its memcpys: whatever the load of tail_ returned, the     *)
(* copy it starts fits.                                                    *)
LEMMA BeginWriteStep ==
  ASSUME IInv, NEW len \in WriteLens, BeginWrite(len)
  PROVE  IInv'
<1> USE DEF IInv
<1>1. PICK t \in tailView :
        /\ tailView' = NotBefore(tailView, t)
        /\ overruns' = IF Overrun(len, t) THEN overruns + 1 ELSE overruns
        /\ wlen' = StdMin(len, FreeSpace(t))
        /\ wpc' = IF StdMin(len, FreeSpace(t)) = 0 THEN "idle" ELSE "copy"
  BY DEF BeginWrite
<1>2. /\ t \in Nat /\ t <= consumed /\ Len(accepted) <= t + Capacity
      /\ wlen = 0 /\ len \in Nat /\ Len(accepted) \in Nat /\ t <= Len(accepted)
  BY CountBounds, SMTT(30) DEF TypeOK, ProducerHasRoom, BeginWrite, CountersWrap
<1>3. FreeSpace(t) = t + Capacity - Len(accepted)
  BY <1>2, FreeSpaceExact DEF CountersWrap
<1>4. wlen' \in Nat /\ Len(accepted) + wlen' <= t + Capacity
  BY <1>1, <1>2, <1>3 DEF StdMin
<1>5. TypeOK'
  <2>1. tailView' \in SUBSET Nat
    BY <1>1 DEF TypeOK, NotBefore
  <2>2. overruns' \in Nat /\ wpc' \in {"idle", "copy"}
    BY <1>1 DEF TypeOK
  <2>3. wdone' \in 0..wlen' /\ wbase' \in Nat /\ offered' \in Nat
    BY <1>2, <1>4 DEF TypeOK, BeginWrite
  <2>4. UNCHANGED <<head, tail, buf, consumerLocals, headView, accepted,
                    consumed, delivered, resetAt>>
    BY DEF BeginWrite
  <2> QED
    BY <1>4, <2>1, <2>2, <2>3, <2>4 DEF TypeOK, consumerLocals
<1>6. CountersWrap' /\ DeliveredSoFar'
  BY DEF CountersWrap, DeliveredSoFar, BeginWrite
<1>7. ProducerHasRoom'
  <2>1. accepted' = accepted /\ consumed' = consumed /\ wdone' = 0
    BY DEF BeginWrite
  <2>2. tailView \in SUBSET Nat /\ consumed \in tailView /\ consumed >= t
    BY <1>2 DEF TypeOK, ProducerHasRoom
  <2>3. ASSUME NEW x \in tailView'
        PROVE  x <= consumed /\ Len(accepted) + wlen' <= x + Capacity
    <3>1. x \in tailView /\ x \in Nat /\ x >= t
      BY <1>1, <2>2 DEF NotBefore
    <3> QED
      BY <1>2, <1>4, <3>1 DEF ProducerHasRoom
  <2>4. consumed \in tailView'
    BY <1>1, <2>2 DEF NotBefore
  <2>5. wpc' = "idle" => wlen' = 0
    BY <1>1
  <2> QED
    BY <2>1, <2>3, <2>4, <2>5 DEF ProducerHasRoom
<1>8. ConsumerHasData'
  BY DEF ConsumerHasData, BeginWrite, consumerLocals
<1>9. BytesInPlace'
  BY DEF BytesInPlace, BeginWrite, consumerLocals
<1> QED
  BY <1>5, <1>6, <1>7, <1>8, <1>9

(* One byte of write()'s memcpys lands outside the unread bytes. *)
LEMMA CopyInStep ==
  ASSUME IInv, CopyIn
  PROVE  IInv'
<1> USE DEF IInv
<1> DEFINE a == Len(accepted)
           s == (a + wdone) % Capacity
<1>1. /\ a \in Nat /\ wlen \in 0..Capacity /\ wdone \in 0..(wlen - 1)
      /\ wbase \in Nat /\ consumed \in Nat /\ a + wlen <= consumed + Capacity
      /\ consumed <= a
  BY CountBounds DEF TypeOK, CopyIn, CountersWrap
<1>2. SlotOf(head, wlen, wdone) = s
  BY <1>1, SlotExact DEF CountersWrap
<1>3. buf' = [buf EXCEPT ![s] = wbase + wdone + 1] /\ wdone' = wdone + 1
  BY <1>2 DEF CopyIn
<1>4. s \in Slots
  <2>1. a + wdone \in Nat
    BY <1>1
  <2> QED
    BY <2>1, SlotInRange, Zenon
<1>5. buf \in [Slots -> Nat]
  BY DEF TypeOK
<1>6. TypeOK'
  <2>1. buf' \in [Slots -> Nat] /\ wdone' \in 0..wlen
    <3> HIDE DEF s
    <3> QED
      BY <1>1, <1>3, <1>4, <1>5
  <2>2. UNCHANGED <<head, tail, overruns, wpc, wlen, wbase, consumerLocals,
                    tailView, headView, offered, accepted, consumed, delivered,
                    resetAt>>
    BY DEF CopyIn
  <2> QED
    BY <2>1, <2>2 DEF TypeOK, consumerLocals
<1>7. CountersWrap' /\ DeliveredSoFar'
  BY DEF CountersWrap, DeliveredSoFar, CopyIn
<1>8. ProducerHasRoom'
  BY <1>1 DEF ProducerHasRoom, CopyIn
<1>9. ConsumerHasData'
  BY DEF ConsumerHasData, CopyIn, consumerLocals
<1>10. ASSUME NEW k \in (consumed + 1)..a
       PROVE  buf'[(k - 1) % Capacity] = accepted[k]
  <2>1. k - 1 \in Nat /\ a + wdone \in Nat /\ k - 1 < a + wdone
        /\ a + wdone < (k - 1) + Capacity
    BY <1>1
  <2>2. (k - 1) % Capacity # s
    BY <2>1, SlotsDiffer
  <2>3. buf[(k - 1) % Capacity] = accepted[k]
    BY DEF BytesInPlace
  <2>4. (k - 1) % Capacity \in Slots
    BY <2>1, SlotInRange
  <2> HIDE DEF s
  <2> QED
    BY <1>3, <1>5, <2>2, <2>3, <2>4
<1>11. ASSUME NEW j \in 1..(wdone + 1)
       PROVE  buf'[(a + j - 1) % Capacity] = wbase + j
  <2>1. CASE j = wdone + 1
    <3>1. a + j - 1 = a + wdone
      BY <1>1, <2>1
    <3> HIDE DEF a
    <3> QED
      BY <1>1, <1>3, <1>4, <1>5, <2>1, <3>1
  <2>2. CASE j # wdone + 1
    <3>1. /\ a + j - 1 \in Nat /\ a + wdone \in Nat /\ a + j - 1 < a + wdone
          /\ a + wdone < (a + j - 1) + Capacity /\ j \in 1..wdone
      BY <1>1, <2>2
    <3>2. (a + j - 1) % Capacity # s
      BY <3>1, SlotsDiffer
    <3>3. buf[(a + j - 1) % Capacity] = wbase + j
      BY <3>1 DEF BytesInPlace
    <3>4. (a + j - 1) % Capacity \in Slots
      BY <3>1, SlotInRange
    <3> HIDE DEF s
    <3> QED
      BY <1>3, <1>5, <3>2, <3>3, <3>4
  <2> QED
    BY <2>1, <2>2
<1>12. BytesInPlace'
  <2>1. /\ accepted' = accepted /\ consumed' = consumed /\ wbase' = wbase
        /\ dest' = dest
    BY DEF CopyIn, consumerLocals
  <2> QED
    BY <1>3, <1>10, <1>11, <2>1 DEF BytesInPlace
<1> QED
  BY <1>6, <1>7, <1>8, <1>9, <1>12

(* The release store of head_ hands over bytes that are all in place. *)
LEMMA PublishStep ==
  ASSUME IInv, Publish
  PROVE  IInv'
<1> USE DEF IInv
<1> DEFINE a == Len(accepted)
           new == [j \in 1..wlen |-> wbase + j]
<1>1. /\ a \in Nat /\ wlen \in 0..Capacity /\ wdone = wlen /\ wbase \in Nat
      /\ consumed \in Nat /\ a + wlen <= consumed + Capacity /\ consumed <= a
      /\ accepted \in Seq(Nat)
  BY CountBounds DEF TypeOK, Publish, CountersWrap
<1>2. /\ accepted' = accepted \o new
      /\ headView' = headView \cup {a + wlen} /\ head' = Advance(head, wlen)
      /\ wpc' = "idle" /\ wlen' = 0 /\ wdone' = 0 /\ wbase' = 0
  BY DEF Publish
<1>3. UNCHANGED <<tail, buf, overruns, rpc, rlen, dest, tailView, offered,
                  consumed, delivered, resetAt>>
  BY DEF Publish, consumerLocals
<1>4. new \in Seq(Nat) /\ Len(new) = wlen /\ \A j \in 1..wlen : new[j] = wbase + j
  BY <1>1
<1> HIDE DEF new
<1>5. /\ accepted' \in Seq(Nat) /\ Len(accepted') = a + wlen
      /\ \A k \in 1..a : accepted'[k] = accepted[k]
      /\ \A k \in (a + 1)..(a + wlen) : accepted'[k] = wbase + (k - a)
  <2>1. /\ accepted' \in Seq(Nat) /\ Len(accepted') = a + wlen
        /\ \A k \in 1..(a + wlen) :
             accepted'[k] = IF k <= a THEN accepted[k] ELSE new[k - a]
    BY <1>1, <1>2, <1>4, ConcatProperties, ZenonT(40)
  <2> HIDE DEF a
  <2>2. \A k \in (a + 1)..(a + wlen) : k - a \in 1..wlen /\ ~(k <= a)
    BY <1>1
  <2> QED
    BY <1>1, <1>4, <2>1, <2>2, SMTT(30)
<1> HIDE DEF a
<1>6. head' = (a + wlen) % SizeMod
  <2>1. head = a % SizeMod
    BY DEF CountersWrap, a
  <2> QED
    BY <1>1, <1>2, <2>1, AdvanceExact
<1>7. TypeOK'
  <2>1. head' \in 0..(SizeMod - 1)
    <3>1. a + wlen \in Int /\ SizeMod \in Nat \ {0}
      BY <1>1, SizeModBounds
    <3> QED
      BY <1>6, <3>1, DivMod, Zenon
  <2>2. headView' \in SUBSET Nat
    BY <1>1, <1>2 DEF TypeOK
  <2> QED
    BY <1>2, <1>3, <1>5, <2>1, <2>2 DEF TypeOK
<1>8. CountersWrap'
  BY <1>1, <1>3, <1>5, <1>6 DEF CountersWrap
<1>9. ProducerHasRoom'
  <2>1. \A t \in tailView : t \in Nat /\ t <= consumed /\ a + wlen <= t + Capacity
    BY DEF ProducerHasRoom, TypeOK, a
  <2>2. consumed \in tailView
    BY DEF ProducerHasRoom
  <2>3. \A t \in tailView' :
          t <= consumed' /\ Len(accepted') + wlen' <= t + Capacity
    BY <1>1, <1>2, <1>3, <1>5, <2>1
  <2> QED
    BY <1>2, <1>3, <2>2, <2>3 DEF ProducerHasRoom
<1>10. ConsumerHasData'
  <2>1. /\ a \in headView
        /\ \A h \in headView : /\ h \in Nat /\ h <= a /\ consumed + rlen <= h
                               /\ rpc = "read" => consumed + BlockBytes <= h
        /\ IF rpc = "copy" THEN rlen = BlockBytes ELSE rlen = 0 /\ dest = <<>>
    BY DEF ConsumerHasData, TypeOK, a
  <2>2. rlen \in Nat
    BY DEF TypeOK
  <2>3. \A h \in headView' : /\ h <= a + wlen /\ consumed + rlen <= h
                             /\ rpc = "read" => consumed + BlockBytes <= h
    BY <1>1, <1>2, <2>1, <2>2, BlockAssumption
  <2> QED
    BY <1>2, <1>3, <1>5, <2>1, <2>3 DEF ConsumerHasData
<1>11. BytesInPlace'
  <2>1. ASSUME NEW k \in (consumed + 1)..(a + wlen)
        PROVE  buf[(k - 1) % Capacity] = accepted'[k]
    <3>1. CASE k <= a
      <4>1. k \in (consumed + 1)..a /\ k \in 1..a
        BY <1>1, <3>1
      <4>2. buf[(k - 1) % Capacity] = accepted[k]
        BY <4>1 DEF BytesInPlace, a
      <4> QED
        BY <1>5, <4>1, <4>2
    <3>2. CASE ~(k <= a)
      <4> DEFINE j == k - a
      <4>1. j \in 1..wdone /\ k \in (a + 1)..(a + wlen) /\ a + j - 1 = k - 1
        BY <1>1, <3>2
      <4>2. buf[(a + j - 1) % Capacity] = wbase + j
        <5> HIDE DEF j
        <5> QED
          BY <4>1 DEF BytesInPlace, a
      <4>3. accepted'[k] = wbase + j
        BY <1>5, <4>1
      <4> QED
        BY <4>1, <4>2, <4>3
    <3> QED
      BY <3>1, <3>2
  <2>2. ASSUME NEW j \in 1..Len(dest)
        PROVE  dest[j] = accepted'[consumed + j]
    <3>1. Len(dest) <= rlen /\ Len(dest) \in Nat /\ consumed + rlen <= a
      BY CountBounds DEF TypeOK, a
    <3>2. consumed + j \in 1..a
      BY <1>1, <3>1, CountBounds
    <3>3. dest[j] = accepted[consumed + j]
      BY DEF BytesInPlace
    <3> QED
      BY <1>5, <3>2, <3>3
  <2>3. \A j \in 1..wdone' : FALSE
    BY <1>2
  <2> QED
    BY <1>3, <1>5, <2>1, <2>2, <2>3 DEF BytesInPlace
<1>12. DeliveredSoFar'
  BY <1>1, <1>3, <1>5 DEF DeliveredSoFar
<1> QED
  BY <1>7, <1>8, <1>9, <1>10, <1>11, <1>12

-----------------------------------------------------------------------------
(* available(): a block the load of head_ reports is there to stay. *)
LEMMA PollStep ==
  ASSUME IInv, Poll
  PROVE  IInv'
<1> USE DEF IInv
<1>1. PICK h \in headView :
        /\ headView' = NotBefore(headView, h)
        /\ rpc' = IF Ready(h) THEN "read" ELSE "poll"
  BY DEF Poll
<1>2. UNCHANGED <<head, tail, buf, overruns, wpc, wlen, wdone, wbase, rlen,
                  dest, tailView, offered, accepted, consumed, delivered, resetAt>>
  BY DEF Poll, producerLocals
<1>3. /\ rpc = "poll" /\ rlen = 0 /\ dest = <<>> /\ consumed \in Nat
      /\ Len(accepted) \in headView /\ headView \in SUBSET Nat
      /\ \A x \in headView : x <= Len(accepted) /\ consumed + rlen <= x
  BY DEF ConsumerHasData, Poll, TypeOK
<1>4. Ready(h) => consumed + BlockBytes <= h
  <2>1. h \in Nat /\ consumed <= h /\ h <= consumed + Capacity
        /\ tail = consumed % SizeMod
    BY <1>3, CountBounds DEF CountersWrap
  <2>2. Filled(h) = h - consumed
    BY <1>3, <2>1, FilledExact
  <2> QED
    BY <1>3, <2>1, <2>2, BlockAssumption DEF Ready
<1>5. TypeOK'
  BY <1>1, <1>2, <1>3 DEF TypeOK, NotBefore
<1>6. CountersWrap' /\ ProducerHasRoom' /\ DeliveredSoFar' /\ BytesInPlace'
  BY <1>2 DEF CountersWrap, ProducerHasRoom, DeliveredSoFar, BytesInPlace
<1>7. ConsumerHasData'
  <2>1. \A x \in headView' : x \in headView /\ x >= h
    BY <1>1 DEF NotBefore
  <2>2. Len(accepted) \in headView'
    BY <1>1, <1>3, CountBounds DEF NotBefore
  <2>3. ASSUME NEW x \in headView', rpc' = "read"
        PROVE  consumed + BlockBytes <= x
    <3>1. consumed + BlockBytes <= h
      BY <1>1, <1>4, <2>3
    <3>2. x \in Nat /\ h \in Nat /\ x >= h
      BY <1>3, <2>1
    <3> QED
      BY <1>3, <3>1, <3>2, BlockAssumption
  <2> QED
    BY <1>1, <1>2, <1>3, <2>1, <2>2, <2>3 DEF ConsumerHasData
<1> QED
  BY <1>5, <1>6, <1>7

(* read() up to its memcpys: it finds the whole block available() saw. *)
LEMMA BeginReadStep ==
  ASSUME IInv, BeginRead
  PROVE  IInv'
<1> USE DEF IInv
<1>1. PICK h \in headView :
        /\ headView' = NotBefore(headView, h)
        /\ rlen' = StdMin(BlockBytes, Filled(h))
        /\ rpc' = IF StdMin(BlockBytes, Filled(h)) = 0 THEN "poll" ELSE "copy"
  BY DEF BeginRead
<1>2. UNCHANGED <<head, tail, buf, overruns, wpc, wlen, wdone, wbase, tailView,
                  offered, accepted, consumed, delivered, resetAt>>
      /\ dest' = <<>>
  BY DEF BeginRead, producerLocals
<1>3. /\ rpc = "read" /\ rlen = 0 /\ consumed \in Nat
      /\ Len(accepted) \in headView /\ headView \in SUBSET Nat
      /\ \A x \in headView : x <= Len(accepted) /\ consumed + BlockBytes <= x
  BY DEF ConsumerHasData, BeginRead, TypeOK
<1>4. StdMin(BlockBytes, Filled(h)) = BlockBytes
  <2>1. h \in Nat /\ consumed <= h /\ h <= consumed + Capacity
        /\ tail = consumed % SizeMod
    BY <1>3, CountBounds, BlockAssumption DEF CountersWrap
  <2>2. Filled(h) = h - consumed
    BY <1>3, <2>1, FilledExact
  <2>3. consumed + BlockBytes <= h
    BY <1>3
  <2> QED
    BY <1>3, <2>1, <2>2, <2>3, BlockAssumption DEF StdMin
<1>5. rlen' = BlockBytes /\ rpc' = "copy"
  BY <1>1, <1>4, BlockAssumption
<1>6. \A x \in headView' : x \in headView /\ x >= h
  BY <1>1 DEF NotBefore
<1>7. TypeOK'
  <2>1. headView' \in SUBSET Nat
    BY <1>3, <1>6
  <2>2. dest' \in Seq(Nat) /\ Len(dest') = 0 /\ BlockBytes \in Nat
    BY <1>2
  <2> QED
    BY <1>2, <1>5, <2>1, <2>2 DEF TypeOK
<1>8. CountersWrap' /\ ProducerHasRoom' /\ DeliveredSoFar' /\ BytesInPlace'
  BY <1>2 DEF CountersWrap, ProducerHasRoom, DeliveredSoFar, BytesInPlace
<1>9. ConsumerHasData'
  <2>1. Len(accepted) \in headView'
    BY <1>1, <1>3, CountBounds DEF NotBefore
  <2> QED
    BY <1>2, <1>3, <1>5, <1>6, <2>1 DEF ConsumerHasData
<1> QED
  BY <1>7, <1>8, <1>9

(* One byte of read()'s memcpys is the next byte of the published stream. *)
LEMMA CopyOutStep ==
  ASSUME IInv, CopyOut
  PROVE  IInv'
<1> USE DEF IInv
<1> DEFINE a == Len(accepted)
           n == Len(dest)
<1>1. /\ a \in Nat /\ consumed \in Nat /\ dest \in Seq(Nat) /\ n \in Nat /\ n < rlen
      /\ rlen \in 0..Capacity /\ consumed + rlen <= a /\ accepted \in Seq(Nat)
      /\ rpc = "copy"
  BY CountBounds DEF TypeOK, CopyOut
<1>2. UNCHANGED <<head, tail, buf, overruns, wpc, wlen, wdone, wbase, rpc, rlen,
                  tailView, headView, offered, accepted, consumed, delivered,
                  resetAt>>
  BY DEF CopyOut, producerLocals
<1>3. dest' = Append(dest, accepted[consumed + n + 1])
  <2>1. SlotOf(tail, rlen, n) = (consumed + n) % Capacity
    <3>1. tail = consumed % SizeMod /\ n \in 0..(rlen - 1)
      BY <1>1 DEF CountersWrap
    <3> HIDE DEF n
    <3> QED
      BY <1>1, <3>1, SlotExact
  <2> DEFINE k == consumed + n + 1
  <2>2. k \in (consumed + 1)..a /\ consumed + n = k - 1
    BY <1>1
  <2> HIDE DEF k
  <2>3. buf[(k - 1) % Capacity] = accepted[k]
    BY <2>2 DEF BytesInPlace
  <2> QED
    BY <2>1, <2>2, <2>3 DEF k, CopyOut
<1>4. accepted[consumed + n + 1] \in Nat
  <2>1. consumed + n + 1 \in 1..a
    BY <1>1
  <2> QED
    BY <1>1, <2>1, ElementOfSeq
<1>5. /\ dest' \in Seq(Nat) /\ Len(dest') = n + 1
      /\ \A j \in 1..(n + 1) : dest'[j] = accepted[consumed + j]
  <2>1. \A j \in 1..n : dest[j] = accepted[consumed + j]
    BY DEF BytesInPlace
  <2>2. /\ dest' \in Seq(Nat) /\ Len(dest') = n + 1
        /\ \A j \in 1..n : dest'[j] = dest[j]
        /\ dest'[n + 1] = accepted[consumed + n + 1]
    BY <1>1, <1>3, <1>4
  <2> HIDE DEF n
  <2>3. ASSUME NEW j \in 1..(n + 1)
        PROVE  dest'[j] = accepted[consumed + j]
    <3>1. CASE j = n + 1
      <4>1. consumed + (n + 1) = consumed + n + 1
        BY <1>1
      <4> QED
        BY <2>2, <3>1, <4>1
    <3>2. CASE j # n + 1
      <4>1. j \in 1..n
        BY <1>1, <3>2
      <4> QED
        BY <2>1, <2>2, <4>1
    <3> QED
      BY <3>1, <3>2
  <2> QED
    BY <2>2, <2>3
<1>6. TypeOK'
  BY <1>1, <1>2, <1>5, SMTT(30) DEF TypeOK
<1>7. CountersWrap' /\ ProducerHasRoom' /\ DeliveredSoFar'
  BY <1>2 DEF CountersWrap, ProducerHasRoom, DeliveredSoFar
<1>8. ConsumerHasData'
  BY <1>1, <1>2 DEF ConsumerHasData
<1>9. BytesInPlace'
  BY <1>2, <1>5 DEF BytesInPlace
<1> QED
  BY <1>6, <1>7, <1>8, <1>9

(* The release store of tail_ frees exactly the bytes delivered. *)
LEMMA EndReadStep ==
  ASSUME IInv, EndRead
  PROVE  IInv'
<1> USE DEF IInv
<1> DEFINE a == Len(accepted)
           c == consumed + rlen
<1>1. /\ a \in Nat /\ consumed \in Nat /\ dest \in Seq(Nat) /\ Len(dest) = rlen
      /\ rlen = BlockBytes /\ rlen \in Nat /\ c <= a /\ accepted \in Seq(Nat)
      /\ delivered \in Seq(Nat) /\ Len(delivered) = consumed
      /\ rpc = "copy" /\ wlen \in Nat /\ a + wlen <= consumed + Capacity
  BY CountBounds DEF TypeOK, EndRead, ConsumerHasData, DeliveredSoFar
<1>2. UNCHANGED <<head, buf, overruns, wpc, wlen, wdone, wbase, headView,
                  offered, accepted, resetAt>>
  BY DEF EndRead, producerLocals
<1>3. /\ tail' = Advance(tail, rlen) /\ tailView' = tailView \cup {c}
      /\ consumed' = c /\ delivered' = delivered \o dest
      /\ rpc' = "poll" /\ rlen' = 0 /\ dest' = <<>>
  BY <1>1 DEF EndRead
<1>4. /\ delivered' \in Seq(Nat) /\ Len(delivered') = c
      /\ \A i \in 1..c : delivered'[i] = accepted[i]
  <2>1. /\ delivered' \in Seq(Nat) /\ Len(delivered') = c
        /\ \A i \in 1..c : delivered'[i] =
             IF i <= consumed THEN delivered[i] ELSE dest[i - consumed]
    <3>1. /\ delivered \o dest \in Seq(Nat)
          /\ Len(delivered \o dest) = Len(delivered) + Len(dest)
          /\ \A i \in 1..(Len(delivered) + Len(dest)) :
               (delivered \o dest)[i] = IF i <= Len(delivered)
                 THEN delivered[i] ELSE dest[i - Len(delivered)]
      <4>1. delivered \in Seq(Nat) /\ dest \in Seq(Nat)
        BY <1>1
      <4> QED
        BY <4>1, ConcatProperties
    <3>2. Len(delivered) = consumed /\ Len(dest) = rlen
      BY <1>1
    <3> QED
      BY <1>3, <3>1, <3>2
  <2>2. ASSUME NEW i \in 1..c
        PROVE  delivered'[i] = accepted[i]
    <3>1. CASE i <= consumed
      <4>1. i \in 1..consumed
        BY <1>1, <3>1
      <4> QED
        BY <2>1, <3>1, <4>1 DEF DeliveredSoFar
    <3>2. CASE ~(i <= consumed)
      <4>1. i - consumed \in 1..Len(dest) /\ consumed + (i - consumed) = i
        BY <1>1, <3>2
      <4>2. dest[i - consumed] = accepted[i]
        BY <4>1 DEF BytesInPlace
      <4> QED
        BY <2>1, <3>2, <4>2
    <3> QED
      BY <3>1, <3>2
  <2> QED
    BY <2>1, <2>2
<1>5. tail' = c % SizeMod
  <2>1. tail = consumed % SizeMod
    BY DEF CountersWrap
  <2> QED
    BY <1>1, <1>3, <2>1, AdvanceExact
<1>6. TypeOK'
  <2>1. tail' \in 0..(SizeMod - 1)
    <3>1. c \in Int /\ SizeMod \in Nat \ {0}
      BY <1>1, SizeModBounds
    <3> QED
      BY <1>5, <3>1, DivMod, Zenon
  <2>2. tailView' \in SUBSET Nat /\ c \in Nat
    BY <1>1, <1>3, SMTT(30) DEF TypeOK
  <2>3. dest' \in Seq(Nat) /\ Len(dest') <= rlen' /\ rlen' \in Nat
    BY <1>3
  <2> QED
    BY <1>2, <1>3, <1>4, <2>1, <2>2, <2>3 DEF TypeOK
<1>7. CountersWrap'
  BY <1>1, <1>2, <1>3, <1>5 DEF CountersWrap
<1>8. ProducerHasRoom'
  <2>1. \A t \in tailView : t \in Nat /\ t <= consumed /\ a + wlen <= t + Capacity
    BY DEF ProducerHasRoom, TypeOK
  <2>2. \A t \in tailView' : t <= c /\ a + wlen <= t + Capacity
    BY <1>1, <1>3, <2>1, SMTT(30)
  <2> QED
    BY <1>2, <1>3, <2>2 DEF ProducerHasRoom
<1>9. ConsumerHasData'
  <2>1. a \in headView /\ \A h \in headView : h \in Nat /\ h <= a /\ c <= h
    BY DEF ConsumerHasData, TypeOK
  <2> QED
    BY <1>1, <1>2, <1>3, <2>1 DEF ConsumerHasData
<1>10. BytesInPlace'
  <2>1. \A k \in (c + 1)..a : k \in (consumed + 1)..a
    BY <1>1
  <2>2. Len(dest') = 0
    BY <1>3
  <2> QED
    BY <1>2, <1>3, <2>1, <2>2 DEF BytesInPlace
<1>11. DeliveredSoFar'
  BY <1>2, <1>3, <1>4 DEF DeliveredSoFar
<1> QED
  BY <1>6, <1>7, <1>8, <1>9, <1>10, <1>11

(* reset() between calls gives the invariant anew, with empty counters. *)
LEMMA ResetStep ==
  ASSUME IInv, Reset
  PROVE  IInv'
<1> USE DEF IInv
<1>1. /\ head' = 0 /\ tail' = 0 /\ overruns' = 0
      /\ tailView' = {0} /\ headView' = {0}
      /\ accepted' = <<>> /\ consumed' = 0 /\ delivered' = <<>>
      /\ resetAt' = offered
  BY DEF Reset
<1>2. UNCHANGED <<buf, wpc, wlen, wdone, wbase, rpc, rlen, dest, offered>>
  BY DEF Reset, producerLocals, consumerLocals
<1>3. /\ rpc = "poll" /\ rlen = 0 /\ dest = <<>> /\ wpc = "idle"
      /\ wlen = 0 /\ wdone = 0
  BY DEF Reset, ConsumerHasData, ProducerHasRoom
<1>4. 0 % SizeMod = 0 /\ 0 \in 0..(SizeMod - 1)
  <2>1. 0 \in 0..(SizeMod - 1)
    BY SizeModBounds
  <2> QED
    BY <2>1, SizeModBounds, ModSmall
<1>5. Len(accepted') = 0 /\ Len(dest) = 0 /\ Len(delivered') = 0
  BY <1>1, <1>3
<1>6. TypeOK'
  BY <1>1, <1>2, <1>3, <1>4 DEF TypeOK
<1>7. CountersWrap'
  BY <1>1, <1>4, <1>5 DEF CountersWrap
<1>8. ProducerHasRoom'
  BY <1>1, <1>2, <1>3, <1>5 DEF ProducerHasRoom
<1>9. ConsumerHasData'
  BY <1>1, <1>2, <1>3, <1>5 DEF ConsumerHasData
<1>10. BytesInPlace' /\ DeliveredSoFar'
  BY <1>1, <1>2, <1>3, <1>5 DEF BytesInPlace, DeliveredSoFar
<1> QED
  BY <1>6, <1>7, <1>8, <1>9, <1>10

(* IInv is inductive: every step of the two threads and reset() keep it. *)
LEMMA NextIInv == IInv /\ [Next]_vars => IInv'
<1> SUFFICES ASSUME IInv, [Next]_vars PROVE IInv'
  OBVIOUS
<1>1. CASE \E len \in WriteLens : BeginWrite(len)
  BY <1>1, BeginWriteStep
<1>2. CASE CopyIn
  BY <1>2, CopyInStep
<1>3. CASE Publish
  BY <1>3, PublishStep
<1>4. CASE Poll
  BY <1>4, PollStep
<1>5. CASE BeginRead
  BY <1>5, BeginReadStep
<1>6. CASE CopyOut
  BY <1>6, CopyOutStep
<1>7. CASE EndRead
  BY <1>7, EndReadStep
<1>8. CASE Reset
  BY <1>8, ResetStep
<1>9. CASE UNCHANGED vars
  BY <1>9 DEF IInv, TypeOK, CountersWrap, ProducerHasRoom, ConsumerHasData,
              BytesInPlace, DeliveredSoFar, vars, producerLocals, consumerLocals
<1> QED
  BY <1>1, <1>2, <1>3, <1>4, <1>5, <1>6, <1>7, <1>8, <1>9
  DEF Next, Producer, Consumer

-----------------------------------------------------------------------------
(* Main results. *)

(* The ring of ringbuffer.cpp keeps IInv in every interleaving of write(), *)
(* read(), the polling of available() and reset().                         *)
THEOREM Invariance == Spec => []IInv
<1>1. Init => IInv
  BY InitIInv
<1>2. IInv /\ [Next]_vars => IInv'
  BY NextIInv
<1> QED
  BY <1>1, <1>2, PTL DEF Spec

(* The variables keep their types. *)
THEOREM TypeCorrect == Spec => []TypeOK
<1>1. IInv => TypeOK
  BY DEF IInv
<1> QED
  BY <1>1, Invariance, PTL

(* write() and read() never touch one byte of buf_ at the same time: a     *)
(* slot under both copies would belong to an unread byte and to a byte     *)
(* written less than a capacity later.                                     *)
THEOREM RaceFree == Spec => []NoDataRace
<1>1. IInv => NoDataRace
  <2> SUFFICES ASSUME IInv,
                      NEW i \in 0..(wlen - 1), NEW j \in 0..(rlen - 1),
                      SlotOf(head, wlen, i) = SlotOf(tail, rlen, j)
               PROVE  FALSE
    BY DEF NoDataRace, WriteSlots, ReadSlots
  <2> DEFINE a == Len(accepted)
  <2>1. /\ a \in Nat /\ consumed \in Nat /\ wlen \in 0..Capacity
        /\ rlen \in 0..Capacity /\ a + wlen <= consumed + Capacity
        /\ consumed + rlen <= a
    BY CountBounds DEF IInv
  <2>2. head = a % SizeMod /\ tail = consumed % SizeMod
    BY DEF IInv, CountersWrap
  <2> HIDE DEF a
  <2>3. SlotOf(head, wlen, i) = (a + i) % Capacity
    BY <2>1, <2>2, SlotExact
  <2>4. SlotOf(tail, rlen, j) = (consumed + j) % Capacity
    BY <2>1, <2>2, SlotExact
  <2>5. /\ consumed + j \in Nat /\ a + i \in Nat /\ consumed + j < a + i
        /\ a + i < (consumed + j) + Capacity
    BY <2>1
  <2>6. (consumed + j) % Capacity # (a + i) % Capacity
    BY <2>5, SlotsDiffer
  <2> QED
    BY <2>3, <2>4, <2>6
<1> QED
  BY <1>1, Invariance, PTL

(* The demodulators process the published bytes in order, none torn,       *)
(* repeated, skipped or stale.                                             *)
THEOREM InOrder == Spec => []DeliveredIsPrefix
<1>1. IInv => DeliveredIsPrefix
  BY DEF IInv, DeliveredSoFar, DeliveredIsPrefix, CountersWrap
<1> QED
  BY <1>1, Invariance, PTL

(* The channelizer never gets, and never drops, a partial block. *)
THEOREM FullBlocks == Spec => []NoShortRead
<1>1. IInv => NoShortRead
  <2> SUFFICES ASSUME IInv
               PROVE  /\ rpc = "read" => \A h \in headView : Filled(h) >= BlockBytes
                      /\ rpc = "copy" => rlen = BlockBytes
    BY DEF NoShortRead
  <2>1. ASSUME rpc = "read", NEW h \in headView
        PROVE  Filled(h) >= BlockBytes
    <3>1. /\ h \in Nat /\ consumed \in Nat /\ consumed + BlockBytes <= h
          /\ h <= Len(accepted) /\ tail = consumed % SizeMod
      BY <2>1 DEF IInv, TypeOK, ConsumerHasData, CountersWrap
    <3>2. consumed <= h /\ h <= consumed + Capacity
      BY <3>1, CountBounds, BlockAssumption DEF IInv
    <3>3. Filled(h) = h - consumed
      BY <3>1, <3>2, FilledExact
    <3> QED
      BY <3>1, <3>3, BlockAssumption
  <2>2. rpc = "copy" => rlen = BlockBytes
    BY DEF IInv, ConsumerHasData
  <2> QED
    BY <2>1, <2>2
<1> QED
  BY <1>1, Invariance, PTL

-----------------------------------------------------------------------------
(* What is lost, and the lossy queue. *)

(* The write() in progress keeps a part of one transfer, from its start. *)
WriteInProgress ==
  wpc = "copy" => /\ offered - wbase \in WriteLens
                  /\ wlen \in 1..(offered - wbase)

(* No more was kept since reset() than was offered since. *)
KeptWithinOffered == Len(Kept) <= offered - resetAt

(* Kept is what was published and then the bytes being copied. *)
LEMMA KeptIs ==
  ASSUME IInv
  PROVE  /\ Kept \in Seq(Nat) /\ Len(Kept) = Len(accepted) + wlen
         /\ wlen = 0 => Kept = accepted
<1> DEFINE part == [j \in 1..wlen |-> wbase + j]
<1>1. accepted \in Seq(Nat) /\ wlen \in Nat /\ wbase \in Nat
  BY DEF IInv, TypeOK
<1>2. part \in Seq(Nat) /\ Len(part) = wlen
  BY <1>1
<1>3. wlen = 0 => part = <<>>
  BY <1>1
<1> HIDE DEF part
<1>4. Kept = accepted \o part
  BY DEF Kept, part
<1>5. Kept \in Seq(Nat) /\ Len(Kept) = Len(accepted) + Len(part)
  BY <1>1, <1>2, <1>4, ConcatProperties, Zenon
<1>6. wlen = 0 => Kept = accepted
  BY <1>1, <1>3, <1>4, ConcatEmptySeq
<1> QED
  BY <1>2, <1>5, <1>6

(* A write() that begins extends Kept by the bytes it will copy. *)
LEMMA BeginWriteKeeps ==
  ASSUME IInv, NEW len \in WriteLens, BeginWrite(len)
  PROVE  /\ Kept = accepted /\ wlen = 0
         /\ wlen' \in 0..len
         /\ wpc' = IF wlen' = 0 THEN "idle" ELSE "copy"
         /\ overruns' = IF wlen' < len THEN overruns + 1 ELSE overruns
         /\ offered' = offered + len /\ wbase' = offered
         /\ UNCHANGED <<accepted, consumed, delivered, resetAt>>
         /\ Kept' = Kept \o [j \in 1..wlen' |-> offered + j]
         /\ \E t \in tailView : wlen' = StdMin(len, t + Capacity - Len(accepted))
<1>1. PICK t \in tailView :
        /\ overruns' = IF Overrun(len, t) THEN overruns + 1 ELSE overruns
        /\ wlen' = StdMin(len, FreeSpace(t))
        /\ wpc' = IF StdMin(len, FreeSpace(t)) = 0 THEN "idle" ELSE "copy"
  BY DEF BeginWrite
<1>2. /\ t \in Nat /\ t <= Len(accepted) /\ Len(accepted) <= t + Capacity
      /\ wlen = 0 /\ len \in Nat /\ Len(accepted) \in Nat
  BY CountBounds, SMTT(30) DEF IInv, TypeOK, ProducerHasRoom, BeginWrite, CountersWrap
<1>3. FreeSpace(t) = t + Capacity - Len(accepted)
  BY <1>2, FreeSpaceExact DEF IInv, CountersWrap
<1>4. FreeSpace(t) \in Nat
  BY <1>2, <1>3
<1>5. wlen' \in 0..len /\ (wlen' < len <=> Overrun(len, t))
  BY <1>1, <1>2, <1>4 DEF StdMin, Overrun
<1>6. Kept = accepted
  BY <1>2, KeptIs
<1>7. \E u \in tailView : wlen' = StdMin(len, u + Capacity - Len(accepted))
  BY <1>1, <1>3
<1> QED
  BY <1>1, <1>2, <1>5, <1>6, <1>7 DEF BeginWrite, Kept

(* No other step changes Kept, except reset(), which empties it. *)
LEMMA KeptSteps ==
  ASSUME IInv, [Next]_vars
  PROVE  \/ \E len \in WriteLens : BeginWrite(len)
         \/ UNCHANGED <<Kept, overruns, offered, resetAt>>
         \/ Reset /\ Kept' = <<>>
<1>1. CASE \E len \in WriteLens : BeginWrite(len)
  BY <1>1
<1>2. CASE Publish
  <2>1. /\ accepted' = Kept /\ wlen' = 0
        /\ UNCHANGED <<overruns, offered, resetAt>>
    BY <1>2 DEF Publish, Kept
  <2>2. IInv'
    BY NextIInv
  <2>3. wlen' = 0 => Kept' = accepted'
    <3>1. accepted' \in Seq(Nat)
      BY <2>2 DEF IInv, TypeOK
    <3>2. Kept' = accepted' \o [j \in 1..0 |-> wbase' + j]
      BY <2>1 DEF Kept
    <3>3. [j \in 1..0 |-> wbase' + j] = <<>>
      OBVIOUS
    <3> QED
      BY <3>1, <3>2, <3>3, ConcatEmptySeq
  <2> QED
    BY <2>1, <2>3
<1>3. CASE CopyIn \/ Consumer \/ UNCHANGED vars
  <2>1. UNCHANGED <<accepted, wlen, wbase, overruns, offered, resetAt>>
    BY <1>3 DEF CopyIn, Consumer, Poll, BeginRead, CopyOut, EndRead, vars,
      producerLocals
  <2> QED
    BY <2>1 DEF Kept
<1>4. CASE Reset
  <2>1. wlen = 0 /\ wlen' = wlen /\ accepted' = <<>> /\ wbase' = wbase
    BY <1>4 DEF Reset, producerLocals, IInv, ProducerHasRoom
  <2> QED
    BY <1>4, <2>1 DEF Kept
<1> QED
  BY <1>1, <1>2, <1>3, <1>4 DEF Next, Producer

(* Its bytes, one by one. *)
LEMMA BeginWriteBytes ==
  ASSUME IInv, NEW len \in WriteLens, BeginWrite(len)
  PROVE  /\ Len(Kept') = Len(Kept) + wlen'
         /\ \A i \in 1..Len(Kept) : Kept'[i] = Kept[i]
         /\ \A i \in (Len(Kept) + 1)..(Len(Kept) + wlen') :
              Kept'[i] = offered + (i - Len(Kept))
<1> DEFINE part == [j \in 1..wlen' |-> offered + j]
           n == Len(Kept)
           w == wlen'
<1>1. Kept' = Kept \o part /\ w \in Nat /\ offered \in Nat
  <2>1. Kept' = Kept \o part /\ w \in 0..len
    BY BeginWriteKeeps
  <2>2. offered \in Nat /\ len \in Nat
    BY DEF IInv, TypeOK
  <2> QED
    BY <2>1, <2>2
<1>2. Kept \in Seq(Nat) /\ n \in Nat
  BY KeptIs, LenProperties
<1>3. part \in Seq(Nat) /\ Len(part) = w /\ \A j \in 1..w : part[j] = offered + j
  BY <1>1
<1> HIDE DEF part
<1>4. /\ Len(Kept \o part) = n + w
      /\ \A i \in 1..(n + w) :
           (Kept \o part)[i] = IF i <= n THEN Kept[i] ELSE part[i - n]
  BY <1>2, <1>3, ConcatProperties, ZenonT(40)
<1> HIDE DEF n, w
<1>5. \A i \in (n + 1)..(n + w) : ~(i <= n) /\ i - n \in 1..w
  BY <1>1, <1>2
<1>6. \A i \in 1..n : i \in 1..(n + w)
  BY <1>1, <1>2
<1>7. \A i \in (n + 1)..(n + w) : i \in 1..(n + w)
  BY <1>1, <1>2
<1>8. \A i \in (n + 1)..(n + w) : (Kept \o part)[i] = offered + (i - n)
  BY <1>3, <1>4, <1>5, <1>7
<1>9. \A i \in 1..n : (Kept \o part)[i] = Kept[i]
  BY <1>4, <1>6
<1> QED
  BY <1>1, <1>4, <1>8, <1>9 DEF n, w

-----------------------------------------------------------------------------
(* The transfer in progress, and the amount kept. *)

LEMMA WriteInProgressStep ==
  ASSUME IInv, WriteInProgress, [Next]_vars
  PROVE  WriteInProgress'
<1>1. ASSUME NEW len \in WriteLens, BeginWrite(len)
      PROVE  WriteInProgress'
  <2>1. /\ wlen' \in 0..len /\ offered' = offered + len /\ wbase' = offered
        /\ wpc' = IF wlen' = 0 THEN "idle" ELSE "copy"
    BY <1>1, BeginWriteKeeps
  <2>2. offered' - wbase' = len /\ len \in Nat
    BY <2>1 DEF IInv, TypeOK
  <2> QED
    BY <2>1, <2>2 DEF WriteInProgress
<1>2. CASE Publish \/ Reset
  BY <1>2 DEF WriteInProgress, Publish, Reset, producerLocals
<1>3. CASE CopyIn \/ Consumer \/ UNCHANGED vars
  BY <1>3 DEF WriteInProgress, CopyIn, Consumer, Poll, BeginRead, CopyOut,
    EndRead, vars, producerLocals
<1> QED
  BY <1>1, <1>2, <1>3 DEF Next, Producer

(* A write() adds no more to what is kept than its transfer has bytes. *)
LEMMA KeptWithinOfferedStep ==
  ASSUME IInv, KeptWithinOffered, [Next]_vars
  PROVE  KeptWithinOffered'
<1>1. ASSUME NEW len \in WriteLens, BeginWrite(len)
      PROVE  KeptWithinOffered'
  <2>1. /\ Len(Kept') = Len(Kept) + wlen' /\ wlen' \in 0..len
        /\ offered' = offered + len /\ resetAt' = resetAt
    BY <1>1, BeginWriteKeeps, BeginWriteBytes
  <2>2. Len(Kept) \in Nat /\ offered \in Nat /\ resetAt \in Nat /\ len \in Nat
    BY KeptIs, LenProperties DEF IInv, TypeOK
  <2> QED
    BY <2>1, <2>2 DEF KeptWithinOffered
<1>2. CASE UNCHANGED <<Kept, overruns, offered, resetAt>>
  BY <1>2 DEF KeptWithinOffered
<1>3. CASE Reset /\ Kept' = <<>>
  <2>1. resetAt' = offered /\ offered' = offered /\ offered \in Nat
    BY <1>3 DEF Reset, IInv, TypeOK
  <2>2. 0 <= offered' - resetAt'
    BY <2>1
  <2>3. Len(Kept') = 0
    BY <1>3
  <2> QED
    BY <2>2, <2>3 DEF KeptWithinOffered
<1> QED
  BY <1>1, <1>2, <1>3, KeptSteps

(* Nothing is kept or lost at first. *)
LEMMA KeptInit ==
  ASSUME Init
  PROVE  /\ Kept = <<>> /\ offered = 0 /\ resetAt = 0 /\ overruns = 0
         /\ WriteInProgress /\ KeptWithinOffered
<1>1. Kept = <<>> \o [j \in 1..0 |-> 0 + j] /\ offered = 0 /\ resetAt = 0
  BY DEF Init, Kept
<1>2. Kept = <<>>
  BY <1>1
<1> QED
  BY <1>1, <1>2 DEF Init, WriteInProgress, KeptWithinOffered

-----------------------------------------------------------------------------
(* Losses. *)

(* The first byte that a write() copies follows a gap exactly when bytes   *)
(* were missing at the end before; the others follow each other.           *)
LEMMA JumpsGrow ==
  ASSUME IInv, NEW len \in WriteLens, BeginWrite(len)
  PROVE  /\ Jumps' = IF wlen' > 0 /\ MissingEnd = 1 THEN Jumps \cup {Len(Kept) + 1}
                                                     ELSE Jumps
         /\ wlen' > 0 => MissingEnd' = IF wlen' < len THEN 1 ELSE 0
<1>a. PICK n \in Nat : n = Len(Kept)
  BY KeptIs, LenProperties
<1>b. PICK w \in 0..len : w = wlen'
  BY BeginWriteKeeps
<1>1. /\ n \in Nat /\ w \in 0..len /\ len \in Nat /\ offered \in Nat
      /\ offered' = offered + len /\ resetAt' = resetAt /\ resetAt \in Nat
      /\ Kept \in [1..n -> Nat]
  BY <1>a, BeginWriteKeeps, KeptIs, LenProperties DEF IInv, TypeOK
<1>2. /\ Len(Kept') = n + w
      /\ \A i \in 1..n : Kept'[i] = Kept[i]
      /\ \A i \in (n + 1)..(n + w) : Kept'[i] = offered + (i - n)
  BY <1>a, <1>b, BeginWriteBytes
<1>3. Predecessor(n + 1) = IF n = 0 THEN resetAt ELSE Kept[n]
  BY <1>1 DEF Predecessor
<1>4. MissingEnd = IF Predecessor(n + 1) = offered THEN 0 ELSE 1
  BY <1>a DEF MissingEnd
<1>5. ASSUME NEW i \in 1..n
      PROVE  i \in Jumps' <=> i \in Jumps
  <2>1. i \in 1..(n + w) /\ (i # 1 => i - 1 \in 1..n)
    BY <1>1
  <2>2. Predecessor(i)' = Predecessor(i)
    BY <1>1, <1>2, <2>1 DEF Predecessor
  <2> QED
    BY <1>a, <1>2, <2>1, <2>2 DEF Jumps
<1>6. ASSUME w > 0
      PROVE  n + 1 \in Jumps' <=> MissingEnd = 1
  <2>1. n + 1 \in 1..(n + w) /\ Kept'[n + 1] = offered + 1
    BY <1>1, <1>2, <1>6
  <2>2. Predecessor(n + 1)' = Predecessor(n + 1)
    <3>1. n # 0 => n \in 1..n /\ n + 1 # 1 /\ (n + 1) - 1 = n
      BY <1>1
    <3> QED
      BY <1>1, <1>2, <1>3, <3>1 DEF Predecessor
  <2>3. Predecessor(n + 1) \in Int
    BY <1>1, <1>3
  <2>4. offered + 1 # Predecessor(n + 1) + 1 <=> Predecessor(n + 1) # offered
    BY <1>1, <2>3
  <2>5. n + 1 \in Jumps' <=> Kept'[n + 1] # Predecessor(n + 1)' + 1
    BY <1>2, <2>1 DEF Jumps
  <2> QED
    BY <1>4, <2>1, <2>2, <2>4, <2>5
<1>7. ASSUME NEW i \in (n + 2)..(n + w)
      PROVE  i \notin Jumps'
  <2>1. /\ i # 1 /\ i \in (n + 1)..(n + w) /\ i - 1 \in (n + 1)..(n + w)
    BY <1>1
  <2>2. Predecessor(i)' = Kept'[i - 1]
    BY <2>1 DEF Predecessor
  <2>3. Kept'[i] = offered + (i - n) /\ Kept'[i - 1] = offered + (i - 1 - n)
    BY <1>2, <2>1
  <2>4. Kept'[i] = Kept'[i - 1] + 1
    BY <1>1, <2>3
  <2> QED
    BY <2>2, <2>4 DEF Jumps
<1>8. Jumps' = IF w > 0 /\ MissingEnd = 1 THEN Jumps \cup {n + 1} ELSE Jumps
  <2>1. Jumps' \subseteq 1..(n + w) /\ Jumps \subseteq 1..n
    BY <1>a, <1>2 DEF Jumps
  <2>2. \A i \in 1..(n + w) :
          i \in 1..n \/ (w > 0 /\ i = n + 1) \/ i \in (n + 2)..(n + w)
    BY <1>1
  <2>3. n + 1 \notin 1..n /\ 1..n \subseteq 1..(n + w)
    BY <1>1
  <2>4. w > 0 => n + 1 \in 1..(n + w)
    BY <1>1
  <2>5. CASE w > 0
    <3>1. \A i \in 1..(n + w) :
            i \in Jumps' <=> i \in Jumps \/ (i = n + 1 /\ MissingEnd = 1)
      BY <1>5, <1>6, <1>7, <2>1, <2>2, <2>3, <2>5
    <3> QED
      BY <2>1, <2>3, <2>4, <2>5, <3>1
  <2>6. CASE ~(w > 0)
    <3>1. 1..(n + w) = 1..n
      BY <1>1, <2>6
    <3> QED
      BY <1>5, <2>1, <2>6, <3>1
  <2> QED
    BY <2>5, <2>6
<1>9. w > 0 => MissingEnd' = IF w < len THEN 1 ELSE 0
  <2> SUFFICES ASSUME w > 0 PROVE MissingEnd' = IF w < len THEN 1 ELSE 0
    OBVIOUS
  <2>1. n + w \in (n + 1)..(n + w) /\ n + w + 1 # 1 /\ (n + w + 1) - 1 = n + w
    BY <1>1
  <2>2. Predecessor(n + w + 1)' = offered + w
    <3>1. Kept'[n + w] = offered + (n + w - n)
      BY <1>2, <2>1
    <3>2. Predecessor(n + w + 1)' = Kept'[n + w]
      BY <2>1 DEF Predecessor
    <3> QED
      BY <1>1, <3>1, <3>2
  <2>3. MissingEnd' = IF Predecessor(n + w + 1)' = offered' THEN 0 ELSE 1
    BY <1>2 DEF MissingEnd
  <2> QED
    BY <1>1, <2>2, <2>3
<1> QED
  BY <1>a, <1>b, <1>8, <1>9

(* There are finitely many losses among the kept bytes, so that they can   *)
(* be counted.                                                             *)
LEMMA JumpsFinite ==
  ASSUME IInv
  PROVE  IsFiniteSet(Jumps) /\ Cardinality(Jumps) \in Nat /\ Len(Kept) \in Nat
<1>1. Len(Kept) \in Nat
  BY KeptIs, LenProperties
<1>2. IsFiniteSet(1..Len(Kept))
  BY <1>1, FS_Interval
<1>3. IsFiniteSet(Jumps)
  BY <1>2, FS_Subset DEF Jumps
<1> QED
  BY <1>1, <1>3, FS_CardinalityType

(* Every gap in what is kept comes with an overrun counted by write(). *)
LEMMA LossIsCountedStep ==
  ASSUME IInv, KeptWithinOffered, LossIsCounted, [Next]_vars
  PROVE  LossIsCounted'
<1>1. ASSUME NEW len \in WriteLens, BeginWrite(len)
      PROVE  LossIsCounted'
  <2>1. /\ wlen' \in 0..len /\ len \in Nat \ {0} /\ overruns \in Nat
        /\ overruns' = IF wlen' < len THEN overruns + 1 ELSE overruns
        /\ offered' = offered + len /\ resetAt' = resetAt
    BY <1>1, BeginWriteKeeps DEF IInv, TypeOK
  <2>2. Len(Kept') = Len(Kept) + wlen' /\ Len(Kept) \in Nat
    BY <1>1, BeginWriteBytes, JumpsFinite
  <2>3. MissingEnd \in {0, 1} /\ MissingEnd' \in {0, 1}
    BY DEF MissingEnd
  <2>4. /\ Cardinality(Jumps) \in Nat
        /\ Cardinality(Jumps') \in Nat
        /\ Cardinality(Jumps') <= Cardinality(Jumps)
             + IF wlen' > 0 /\ MissingEnd = 1 THEN 1 ELSE 0
    <3>1. CASE wlen' > 0 /\ MissingEnd = 1
      <4>1. Jumps' = Jumps \cup {Len(Kept) + 1}
        BY <1>1, <3>1, JumpsGrow
      <4>2. IsFiniteSet(Jumps) /\ Cardinality(Jumps) \in Nat
        BY JumpsFinite
      <4>3. \/ Cardinality(Jumps') = Cardinality(Jumps)
            \/ Cardinality(Jumps') = Cardinality(Jumps) + 1
        BY <4>1, <4>2, FS_AddElement, Zenon
      <4> QED
        BY <3>1, <4>2, <4>3
    <3>2. CASE ~(wlen' > 0 /\ MissingEnd = 1)
      <4>1. Jumps' = Jumps
        BY <1>1, <3>2, JumpsGrow
      <4> QED
        BY <3>2, <4>1, JumpsFinite
    <3> QED
      BY <3>1, <3>2
  <2>5. wlen' > 0 => MissingEnd' = IF wlen' < len THEN 1 ELSE 0
    BY <1>1, JumpsGrow
  <2>6. Cardinality(Jumps) + MissingEnd <= overruns
    BY DEF LossIsCounted
  <2>7. Cardinality(Jumps') + MissingEnd' <= overruns'
    BY <2>1, <2>3, <2>4, <2>5, <2>6
  <2>8. overruns' > 0 => Len(Kept') < offered' - resetAt'
    <3>1. offered \in Nat /\ resetAt \in Nat
      BY DEF IInv, TypeOK
    <3>2. Len(Kept) <= offered - resetAt
      BY DEF KeptWithinOffered
    <3>3. overruns > 0 => Len(Kept) < offered - resetAt
      BY DEF LossIsCounted
    <3> QED
      BY <2>1, <2>2, <3>1, <3>2, <3>3
  <2> QED
    BY <2>7, <2>8 DEF LossIsCounted
<1>2. CASE UNCHANGED <<Kept, overruns, offered, resetAt>>
  BY <1>2 DEF LossIsCounted, Jumps, MissingEnd, Predecessor
<1>3. CASE Reset /\ Kept' = <<>>
  <2>1. resetAt' = offered /\ offered' = offered /\ overruns' = 0
    BY <1>3 DEF Reset
  <2>2. Len(Kept') = 0
    BY <1>3
  <2>3. Jumps' = {}
    BY <2>2 DEF Jumps
  <2>4. MissingEnd' = 0
    BY <2>1, <2>2 DEF MissingEnd, Predecessor
  <2>5. Cardinality(Jumps') = 0
    BY <2>3, FS_EmptySet
  <2> QED
    BY <2>1, <2>4, <2>5 DEF LossIsCounted
<1> QED
  BY <1>1, <1>2, <1>3, KeptSteps

-----------------------------------------------------------------------------
(* What is kept, byte by byte. *)

(* Nothing from before reset() is kept. *)
KeptIsFresh ==
  /\ resetAt <= offered
  /\ \A i \in 1..Len(Kept) : Kept[i] > resetAt

(* reset() empties what is kept, and write() adds new bytes only. *)
LEMMA KeptIsFreshStep ==
  ASSUME IInv, KeptIsFresh, [Next]_vars
  PROVE  KeptIsFresh'
<1>1. ASSUME NEW len \in WriteLens, BeginWrite(len)
      PROVE  KeptIsFresh'
  <2>1. PICK n \in Nat : n = Len(Kept)
    BY JumpsFinite
  <2>2. PICK w \in 0..len : w = wlen'
    BY <1>1, BeginWriteKeeps
  <2>3. /\ len \in Nat /\ offered \in Nat /\ resetAt \in Nat
        /\ offered' = offered + len /\ resetAt' = resetAt
    BY <1>1, BeginWriteKeeps DEF IInv, TypeOK
  <2>4. /\ Len(Kept') = n + w
        /\ \A i \in 1..n : Kept'[i] = Kept[i]
        /\ \A i \in (n + 1)..(n + w) : Kept'[i] = offered + (i - n)
    BY <1>1, <2>1, <2>2, BeginWriteBytes
  <2>5. ASSUME NEW i \in 1..(n + w) PROVE Kept'[i] > resetAt
    <3>1. CASE i <= n
      BY <2>1, <2>3, <2>4, <3>1 DEF KeptIsFresh
    <3>2. CASE ~(i <= n)
      <4>1. i \in (n + 1)..(n + w) /\ i - n > 0
        BY <3>2
      <4> QED
        BY <2>3, <2>4, <4>1 DEF KeptIsFresh
    <3> QED
      BY <3>1, <3>2
  <2> QED
    BY <2>3, <2>4, <2>5 DEF KeptIsFresh
<1>2. CASE UNCHANGED <<Kept, overruns, offered, resetAt>>
  BY <1>2 DEF KeptIsFresh
<1>3. CASE Reset /\ Kept' = <<>>
  <2>1. resetAt' = offered /\ offered' = offered /\ offered \in Nat
    BY <1>3 DEF Reset, IInv, TypeOK
  <2> QED
    BY <1>3, <2>1 DEF KeptIsFresh
<1> QED
  BY <1>1, <1>2, <1>3, KeptSteps

(* All counts are of whole pairs, and I bytes are at odd places. *)
CountsArePairs ==
  /\ offered % 2 = 0 /\ resetAt % 2 = 0 /\ Len(Kept) % 2 = 0
  /\ \A t \in tailView : t % 2 = 0
KeptIsPaired ==
  /\ CountsArePairs
  /\ \A i \in 1..Len(Kept) : (Kept[i] - resetAt - i) % 2 = 0

(* A counter that write() may load comes from read() or reset(). *)
LEMMA TailViewSteps ==
  ASSUME IInv, [Next]_vars
  PROVE  tailView' \subseteq tailView \cup {0, consumed + BlockBytes}
<1>1. CASE \E len \in WriteLens : BeginWrite(len)
  BY <1>1 DEF BeginWrite, NotBefore
<1>2. CASE EndRead
  BY <1>2 DEF EndRead, IInv, ConsumerHasData
<1>3. CASE Reset
  BY <1>3 DEF Reset
<1>4. CASE CopyIn \/ Publish \/ Poll \/ BeginRead \/ CopyOut \/ UNCHANGED vars
  BY <1>4 DEF CopyIn, Publish, Poll, BeginRead, CopyOut, vars
<1> QED
  BY <1>1, <1>2, <1>3, <1>4 DEF Next, Producer, Consumer

(* Sums and differences of even numbers are even. *)
LEMMA EvenSums ==
  ASSUME NEW a \in Int, NEW b \in Int, a % 2 = 0, b % 2 = 0
  PROVE  (a + b) % 2 = 0 /\ (a - b) % 2 = 0
OBVIOUS

(* write() and read() move whole pairs, a shortened write() too. *)
LEMMA CountsArePairsStep ==
  ASSUME IInv, CountsArePairs, [Next]_vars
  PROVE  CountsArePairs'
<1>1. tailView' \subseteq tailView \cup {0, consumed + BlockBytes}
  BY TailViewSteps
<1>2. consumed \in tailView /\ tailView \subseteq Nat
  BY DEF IInv, TypeOK, ProducerHasRoom
<1>3. BlockBytes \in Nat /\ BlockBytes % 2 = 0 /\ Capacity % 2 = 0
  BY PairsAssumption DEF PairsAssumption
<1>4. (consumed + BlockBytes) % 2 = 0
  BY <1>2, <1>3, EvenSums DEF CountsArePairs
<1>5. \A t \in tailView' : t % 2 = 0
  BY <1>1, <1>4 DEF CountsArePairs
<1>6. ASSUME NEW len \in WriteLens, BeginWrite(len)
      PROVE  CountsArePairs'
  <2>1. PICK t \in tailView : wlen' = StdMin(len, t + Capacity - Len(accepted))
    BY <1>6, BeginWriteKeeps
  <2>2. PICK n \in Nat : n = Len(Kept)
    BY JumpsFinite
  <2>3. /\ Len(accepted) = n /\ Len(Kept') = n + wlen' /\ wlen' \in Nat
        /\ offered' = offered + len /\ resetAt' = resetAt
    <3>1. Len(accepted) = n
      BY <1>6, <2>2, BeginWriteKeeps
    <3>2. wlen' \in 0..len /\ len \in Nat
      BY <1>6, BeginWriteKeeps
    <3> QED
      BY <1>6, <2>2, <3>1, <3>2, BeginWriteKeeps, BeginWriteBytes
  <2>4. len \in Nat /\ len % 2 = 0 /\ t \in Nat /\ t % 2 = 0
    BY <1>2, PairsAssumption DEF PairsAssumption, CountsArePairs
  <2>5. n % 2 = 0 /\ offered \in Nat /\ offered % 2 = 0 /\ resetAt % 2 = 0
    BY <2>2 DEF CountsArePairs, IInv, TypeOK
  <2>6. (t + Capacity) % 2 = 0
    BY <1>3, <2>4, EvenSums
  <2>7. (t + Capacity - n) % 2 = 0
    <3>1. PICK c \in Int : c = t + Capacity
      BY <2>4
    <3>2. n \in Int /\ n % 2 = 0 /\ c % 2 = 0
      BY <2>5, <2>6, <3>1
    <3>3. (c - n) % 2 = 0
      BY <3>2, EvenSums
    <3>4. t + Capacity - n = c - n
      BY <2>4, <3>1
    <3> QED
      BY <3>3, <3>4
  <2>8. wlen' % 2 = 0
    BY <2>1, <2>3, <2>4, <2>7 DEF StdMin
  <2>9. (n + wlen') % 2 = 0 /\ (offered + len) % 2 = 0
    <3>1. PICK w \in Int : w = wlen'
      BY <2>3
    <3>2. n \in Int /\ n % 2 = 0 /\ w % 2 = 0
      <4>1. n \in Int
        OBVIOUS
      <4> QED
        BY <2>5, <2>8, <3>1, <4>1, Zenon
    <3>3. (n + w) % 2 = 0
      BY <3>2, EvenSums
    <3>4. (offered + len) % 2 = 0
      BY <2>4, <2>5, EvenSums
    <3> QED
      BY <3>1, <3>3, <3>4
  <2> QED
    BY <1>5, <2>3, <2>5, <2>9 DEF CountsArePairs
<1>7. CASE UNCHANGED <<Kept, overruns, offered, resetAt>>
  BY <1>5, <1>7 DEF CountsArePairs
<1>8. CASE Reset /\ Kept' = <<>>
  <2>1. resetAt' = offered /\ offered' = offered /\ Len(Kept') = 0
    BY <1>8 DEF Reset
  <2> QED
    BY <1>5, <2>1 DEF CountsArePairs
<1> QED
  BY <1>6, <1>7, <1>8, KeptSteps

(* Whatever write() drops, the bytes kept stay at places of their own      *)
(* parity.                                                                 *)
LEMMA KeptIsPairedStep ==
  ASSUME IInv, KeptIsPaired, [Next]_vars
  PROVE  KeptIsPaired'
<1>1. CountsArePairs'
  BY CountsArePairsStep DEF KeptIsPaired
<1>2. ASSUME NEW len \in WriteLens, BeginWrite(len)
      PROVE  KeptIsPaired'
  <2>1. PICK n \in Nat : n = Len(Kept)
    BY JumpsFinite
  <2>2. PICK w \in 0..len : w = wlen'
    BY <1>2, BeginWriteKeeps
  <2>3. /\ len \in Nat /\ offered \in Nat /\ resetAt \in Nat
        /\ resetAt' = resetAt
        /\ offered % 2 = 0 /\ resetAt % 2 = 0 /\ n % 2 = 0
    BY <1>2, <2>1, BeginWriteKeeps
      DEF IInv, TypeOK, KeptIsPaired, CountsArePairs
  <2>4. /\ Len(Kept') = n + w
        /\ \A i \in 1..n : Kept'[i] = Kept[i]
        /\ \A i \in (n + 1)..(n + w) : Kept'[i] = offered + (i - n)
    BY <1>2, <2>1, <2>2, BeginWriteBytes
  <2>5. ASSUME NEW i \in 1..(n + w) PROVE (Kept'[i] - resetAt' - i) % 2 = 0
    <3>1. CASE i <= n
      BY <2>1, <2>3, <2>4, <3>1 DEF KeptIsPaired
    <3>2. CASE ~(i <= n)
      <4>1. i \in (n + 1)..(n + w)
        BY <3>2
      <4>2. (offered - n - resetAt) % 2 = 0
        BY <2>3
      <4>3. Kept'[i] - resetAt' - i = offered - n - resetAt
        BY <2>3, <2>4, <4>1
      <4> QED
        BY <4>2, <4>3
    <3> QED
      BY <3>1, <3>2
  <2> QED
    BY <1>1, <2>4, <2>5 DEF KeptIsPaired
<1>3. CASE UNCHANGED <<Kept, overruns, offered, resetAt>>
  BY <1>1, <1>3 DEF KeptIsPaired
<1>4. CASE Reset /\ Kept' = <<>>
  BY <1>1, <1>4 DEF KeptIsPaired
<1> QED
  BY <1>2, <1>3, <1>4, KeptSteps

-----------------------------------------------------------------------------
(* The refinement of the lossy queue. *)

(* write() is never asked for more than the device produces. *)
OfferBounded == offered <= MaxOffered

(* The bound of the run is kept. *)
LEMMA OfferBoundedStep ==
  ASSUME IInv, OfferBounded, [Next]_vars
  PROVE  OfferBounded'
<1>1. CASE \E len \in WriteLens : BeginWrite(len)
  BY <1>1 DEF BeginWrite, OfferBounded
<1>2. CASE UNCHANGED offered
  BY <1>2 DEF OfferBounded
<1>3. Reset => UNCHANGED offered
  BY DEF Reset
<1> QED
  BY <1>1, <1>2, <1>3, KeptSteps

(* The bytes of a part of a sequence. *)
LEMMA PartOf ==
  ASSUME NEW s \in Seq(Nat), NEW c \in 0..Len(s), NEW n \in c..Len(s)
  PROVE  /\ SubSeq(s, c + 1, n) \in Seq(Nat)
         /\ Len(SubSeq(s, c + 1, n)) = n - c
         /\ \A i \in 1..(n - c) : SubSeq(s, c + 1, n)[i] = s[c + i]
<1>1. Len(s) \in Nat /\ c \in Int /\ n \in Int /\ c + 1 \in Int
  BY LenProperties
<1>2. \A i \in (c + 1)..n : s[i] \in Nat
  <2>1. \A i \in (c + 1)..n : i \in 1..Len(s)
    BY <1>1
  <2> QED
    BY <2>1, ElementOfSeq
<1> DEFINE q == SubSeq(s, c + 1, n)
<1>3. /\ q \in Seq(Nat)
      /\ Len(q) = IF c + 1 <= n THEN n - (c + 1) + 1 ELSE 0
      /\ \A i \in 1..(n - (c + 1) + 1) : q[i] = s[c + 1 + i - 1]
  BY <1>1, <1>2, SubSeqProperties
<1> HIDE DEF q
<1>4. n - (c + 1) + 1 = n - c /\ Len(q) = n - c
  BY <1>1, <1>3
<1>5. ASSUME NEW i \in 1..(n - c) PROVE q[i] = s[c + i]
  <2>1. i \in 1..(n - (c + 1) + 1) /\ c + 1 + i - 1 = c + i
    BY <1>1
  <2>2. q[i] = s[c + 1 + i - 1]
    BY <1>3, <2>1, Zenon
  <2> QED
    BY <2>1, <2>2, Zenon
<1> QED
  BY <1>3, <1>4, <1>5 DEF q

(* Bytes published at the end are queued behind the unread ones. *)
LEMMA PartOfConcat ==
  ASSUME NEW s \in Seq(Nat), NEW t \in Seq(Nat), NEW c \in 0..Len(s)
  PROVE  SubSeq(s \o t, c + 1, Len(s) + Len(t)) = SubSeq(s, c + 1, Len(s)) \o t
<1>1. PICK a \in Nat, b \in Nat : a = Len(s) /\ b = Len(t)
  BY LenProperties
<1> DEFINE st == s \o t
           q  == SubSeq(s, c + 1, a)
           p  == SubSeq(st, c + 1, a + b)
<1>2. /\ st \in Seq(Nat) /\ Len(st) = a + b
      /\ \A i \in 1..(a + b) : st[i] = IF i <= a THEN s[i] ELSE t[i - a]
  BY <1>1, ConcatProperties
<1>3. /\ q \in Seq(Nat) /\ Len(q) = a - c
      /\ \A i \in 1..(a - c) : q[i] = s[c + i]
  <2>1. a \in c..a
    BY <1>1
  <2> QED
    BY <1>1, <2>1, PartOf
<1> HIDE DEF st
<1>4. /\ p \in Seq(Nat) /\ Len(p) = a + b - c
      /\ \A i \in 1..(a + b - c) : p[i] = st[c + i]
  <2>1. c \in 0..Len(st) /\ a + b \in c..Len(st)
    BY <1>1, <1>2
  <2> QED
    BY <1>2, <2>1, PartOf, SMTT(30)
<1> HIDE DEF p, q
<1>5. /\ q \o t \in Seq(Nat) /\ Len(q \o t) = (a - c) + b
      /\ \A i \in 1..((a - c) + b) :
           (q \o t)[i] = IF i <= a - c THEN q[i] ELSE t[i - (a - c)]
  <2>1. /\ q \o t \in Seq(Nat) /\ Len(q \o t) = Len(q) + Len(t)
        /\ \A i \in 1..(Len(q) + Len(t)) :
             (q \o t)[i] = IF i <= Len(q) THEN q[i] ELSE t[i - Len(q)]
    BY <1>3, ConcatProperties, ZenonT(40)
  <2> QED
    BY <1>1, <1>3, <2>1, Zenon
<1>6. (a - c) + b = a + b - c
  BY <1>1
<1>7. ASSUME NEW i \in 1..(a + b - c)
      PROVE  p[i] = (q \o t)[i]
  <2>1. c + i \in 1..(a + b) /\ i \in 1..((a - c) + b)
    BY <1>1
  <2>2. p[i] = IF c + i <= a THEN s[c + i] ELSE t[c + i - a]
    <3>1. p[i] = st[c + i]
      BY <1>4
    <3>2. st[c + i] = IF c + i <= a THEN s[c + i] ELSE t[c + i - a]
      BY <1>2, <2>1
    <3> QED
      BY <3>1, <3>2
  <2>3. (q \o t)[i] = IF i <= a - c THEN q[i] ELSE t[i - (a - c)]
    BY <1>5, <2>1, Zenon
  <2>4. /\ c + i <= a <=> i <= a - c
        /\ c + i - a = i - (a - c)
        /\ i <= a - c => i \in 1..(a - c)
    BY <1>1
  <2> QED
    BY <1>3, <2>2, <2>3, <2>4, Zenon
<1>8. p = q \o t
  <2>1. q \o t \in Seq(Nat) /\ Len(p) = Len(q \o t) /\ Len(p) = a + b - c
    BY <1>4, <1>5, <1>6
  <2> QED
    BY <1>4, <1>7, <2>1, SeqEqual
<1> QED
  BY <1>1, <1>8 DEF st, q, p

(* A part of the unread bytes is a part of the published ones. *)
LEMMA PartOfPart ==
  ASSUME NEW s \in Seq(Nat), NEW c \in 0..Len(s),
         NEW d \in 0..(Len(s) - c), NEW n \in d..(Len(s) - c)
  PROVE  SubSeq(SubSeq(s, c + 1, Len(s)), d + 1, n) = SubSeq(s, c + d + 1, c + n)
<1>1. PICK a \in Nat : a = Len(s)
  BY LenProperties
<1> DEFINE q == SubSeq(s, c + 1, a)
           p == SubSeq(q, d + 1, n)
           r == SubSeq(s, c + d + 1, c + n)
<1>2. /\ q \in Seq(Nat) /\ Len(q) = a - c
      /\ \A i \in 1..(a - c) : q[i] = s[c + i]
  <2>1. a \in c..a
    BY <1>1
  <2> QED
    BY <1>1, <2>1, PartOf, ZenonT(40)
<1> HIDE DEF q
<1>3. /\ p \in Seq(Nat) /\ Len(p) = n - d
      /\ \A i \in 1..(n - d) : p[i] = q[d + i]
  <2>1. d \in 0..Len(q) /\ n \in d..Len(q)
    BY <1>1, <1>2
  <2> QED
    BY <1>2, <2>1, PartOf, ZenonT(40)
<1>4. /\ r \in Seq(Nat) /\ Len(r) = (c + n) - (c + d)
      /\ \A i \in 1..((c + n) - (c + d)) : r[i] = s[c + d + i]
  <2>1. c + d \in 0..Len(s) /\ c + n \in (c + d)..Len(s)
    BY <1>1
  <2> QED
    BY <2>1, PartOf
<1> HIDE DEF p, r
<1>5. (c + n) - (c + d) = n - d
  BY <1>1
<1>6. ASSUME NEW i \in 1..(n - d)
      PROVE  p[i] = r[i]
  <2>1. d + i \in 1..(a - c) /\ c + (d + i) = c + d + i
    BY <1>1
  <2>2. p[i] = s[c + (d + i)]
    BY <1>2, <1>3, <2>1, Zenon
  <2> QED
    BY <1>4, <1>5, <2>1, <2>2, Zenon
<1>7. p = r
  BY <1>3, <1>4, <1>5, <1>6, SeqEqual
<1> QED
  BY <1>1, <1>7 DEF p, q, r

(* The unread bytes: how many, and never more than the ring holds. *)
LEMMA QueuedLength ==
  ASSUME IInv
  PROVE  /\ Queued \in Seq(Nat) /\ Len(Queued) = Len(accepted) - consumed
         /\ Len(accepted) \in Nat /\ consumed \in 0..Len(accepted)
         /\ wlen \in Nat /\ Len(Queued) + wlen <= Capacity
<1> DEFINE a == Len(accepted)
<1>1. /\ a \in Nat /\ consumed \in 0..a /\ accepted \in Seq(Nat) /\ wlen \in Nat
      /\ a + wlen <= consumed + Capacity
  BY CountBounds DEF IInv, TypeOK, CountersWrap
<1> HIDE DEF a
<1>2. a \in consumed..a
  BY <1>1
<1>3. Queued \in Seq(Nat) /\ Len(Queued) = a - consumed
  BY <1>1, <1>2, PartOf DEF Queued, a
<1> QED
  BY <1>1, <1>3 DEF a

(* What was delivered is the first part of what was kept. *)
LEMMA DeliveredIsKept ==
  ASSUME IInv, NEW i \in 1..Len(delivered)
  PROVE  i \in 1..Len(Kept) /\ delivered[i] = Kept[i]
<1> DEFINE part == [j \in 1..wlen |-> wbase + j]
<1>1. /\ accepted \in Seq(Nat) /\ wlen \in Nat /\ wbase \in Nat
      /\ i \in 1..Len(accepted) /\ delivered[i] = accepted[i]
  <2>1. accepted \in Seq(Nat) /\ wlen \in Nat /\ wbase \in Nat
    BY DEF IInv, TypeOK
  <2>2. consumed \in Nat /\ consumed <= Len(accepted) /\ Len(accepted) \in Nat
    BY <2>1, LenProperties DEF IInv, TypeOK, CountersWrap
  <2>3. /\ Len(delivered) = consumed
        /\ \A j \in 1..consumed : delivered[j] = accepted[j]
    BY DEF IInv, DeliveredSoFar
  <2> HIDE DEF part
  <2> QED
    BY <2>1, <2>2, <2>3
<1>2. part \in Seq(Nat) /\ Len(part) = wlen
  BY <1>1
<1> HIDE DEF part
<1>3. i \in 1..(Len(accepted) + Len(part)) /\ i <= Len(accepted)
  BY <1>1, <1>2
<1>4. (accepted \o part)[i] = accepted[i]
  BY <1>1, <1>2, <1>3, ConcatProperties
<1>5. Len(Kept) = Len(accepted) + wlen
  BY KeptIs
<1> QED
  BY <1>1, <1>2, <1>3, <1>4, <1>5 DEF Kept, part

(* The constructed ring is an empty queue. *)
LEMMA FifoInit ==
  ASSUME Init
  PROVE  Fifo!Init
<1>1. Queued = <<>>
  BY SubSeqEmpty DEF Init, Queued
<1> QED
  BY <1>1 DEF Init, Fifo!Init, Truncated

(* A write() that returns at once takes effect, another one waits. *)
LEMMA BeginWriteMaps ==
  ASSUME IInv, NEW len \in WriteLens, BeginWrite(len)
  PROVE  Fifo!Write(len) \/ UNCHANGED Fifo!fifoVars
<1>1. /\ wpc = "idle" /\ len \in Nat \ {0} /\ overruns \in Nat /\ offered \in Nat
      /\ offered + len <= MaxOffered
  BY DEF BeginWrite, IInv, TypeOK
<1>2. PICK w \in 0..len : w = wlen'
  BY BeginWriteKeeps
<1>3. /\ wpc' = IF w = 0 THEN "idle" ELSE "copy"
      /\ overruns' = IF w < len THEN overruns + 1 ELSE overruns
      /\ offered' = offered + len /\ wbase' = offered
      /\ UNCHANGED <<accepted, consumed, delivered>>
  BY <1>2, BeginWriteKeeps
<1>4. UNCHANGED Queued
  BY <1>3 DEF Queued
<1>5. Queued \in Seq(Nat) /\ Len(Queued) \in Nat /\ Len(Queued) <= Capacity
  BY QueuedLength
<1>6. CASE w = 0
  <2>1. Queued' = Queued \o [j \in 1..0 |-> offered + j]
    <3>1. [j \in 1..0 |-> offered + j] = <<>>
      OBVIOUS
    <3> QED
      BY <1>4, <1>5, <3>1, ConcatEmptySeq
  <2>2. 0 \in 0..len /\ Len(Queued) + 0 <= Capacity /\ 0 < len
    BY <1>1, <1>5
  <2>3. wpc = "idle" /\ wpc' = "idle" /\ overruns' = overruns + 1
    BY <1>1, <1>3, <1>6
  <2> QED
    BY <1>1, <1>3, <2>1, <2>2, <2>3 DEF Fifo!Write, Truncated
<1>7. CASE w # 0
  <2>1. Truncated' <=> w < len
    <3>1. offered + w # offered + len <=> w < len
      BY <1>1
    <3> QED
      BY <1>2, <1>3, <1>7, <3>1 DEF Truncated
  <2>2. (IF Truncated' THEN overruns' - 1 ELSE overruns') = overruns
    BY <1>1, <1>3, <2>1
  <2> QED
    BY <1>1, <1>3, <1>4, <1>7, <2>2 DEF Fifo!fifoVars, Truncated
<1> QED
  BY <1>6, <1>7

(* The store of head_ is the write. *)
LEMMA PublishMaps ==
  ASSUME IInv, WriteInProgress, OfferBounded, Publish
  PROVE  \E len \in WriteLens : Fifo!Write(len)
<1> DEFINE part == [j \in 1..wlen |-> wbase + j]
<1>1. PICK len \in WriteLens : len = offered - wbase
  BY DEF Publish, WriteInProgress
<1>2. /\ wpc = "copy" /\ wpc' = "idle" /\ accepted' = accepted \o part
      /\ UNCHANGED <<consumed, overruns, offered, delivered>>
  BY DEF Publish
<1>3. /\ len \in Nat /\ wlen \in 1..len /\ wbase \in Nat /\ offered \in Nat
      /\ overruns \in Nat /\ accepted \in Seq(Nat) /\ offered = wbase + len
  BY <1>1, <1>2 DEF IInv, TypeOK, WriteInProgress
<1>4. part \in Seq(Nat) /\ Len(part) = wlen
  BY <1>3
<1>5. Queued' = Queued \o part
  <2> HIDE DEF part
  <2>1. consumed \in 0..Len(accepted)
    BY QueuedLength
  <2>2. Len(accepted') = Len(accepted) + Len(part)
    BY <1>2, <1>3, <1>4, ConcatProperties
  <2>3. SubSeq(accepted \o part, consumed + 1, Len(accepted) + Len(part))
          = SubSeq(accepted, consumed + 1, Len(accepted)) \o part
    BY <1>3, <1>4, <2>1, PartOfConcat
  <2> QED
    BY <1>2, <2>2, <2>3 DEF Queued
<1>6. Len(Queued) + wlen <= Capacity
  BY QueuedLength
<1>7. Truncated <=> wlen < len
  <2>1. wbase + wlen # offered <=> wlen < len
    BY <1>3
  <2> QED
    BY <1>2, <2>1 DEF Truncated
<1>8. ~Truncated'
  BY <1>2 DEF Truncated
<1>9. overruns' = IF wlen < len THEN (IF Truncated THEN overruns - 1 ELSE overruns) + 1
                  ELSE IF Truncated THEN overruns - 1 ELSE overruns
  BY <1>2, <1>3, <1>7
<1>10. wlen \in 0..len /\ wbase + len <= MaxOffered
  BY <1>3 DEF OfferBounded
<1>11. Fifo!Write(len)
  BY <1>2, <1>3, <1>5, <1>6, <1>8, <1>9, <1>10 DEF Fifo!Write
<1> QED
  BY <1>11

(* The store of tail_ is the read. *)
LEMMA EndReadMaps ==
  ASSUME IInv, EndRead
  PROVE  Fifo!Read
<1>1. /\ rlen = BlockBytes /\ Len(dest) = BlockBytes
      /\ dest \in Seq(Nat) /\ accepted \in Seq(Nat) /\ BlockBytes \in Nat
      /\ \A j \in 1..BlockBytes : dest[j] = accepted[consumed + j]
  BY DEF EndRead, IInv, TypeOK, ConsumerHasData, BytesInPlace
<1>2. PICK n \in Nat : n = Len(accepted)
  BY QueuedLength
<1>3. /\ consumed \in 0..n /\ consumed + BlockBytes <= n
      /\ Len(Queued) = n - consumed
  BY <1>1, <1>2, CountBounds, QueuedLength DEF IInv
<1>4. /\ UNCHANGED <<accepted, offered, overruns, wpc, wbase, wlen>>
      /\ consumed' = consumed + BlockBytes /\ delivered' = delivered \o dest
  BY <1>1 DEF EndRead, producerLocals
<1>5. dest = SubSeq(accepted, consumed + 1, consumed + BlockBytes)
  <2>1. consumed + BlockBytes \in consumed..n
    BY <1>1, <1>3
  <2> DEFINE p == SubSeq(accepted, consumed + 1, consumed + BlockBytes)
  <2>2. /\ p \in Seq(Nat) /\ Len(p) = (consumed + BlockBytes) - consumed
        /\ \A i \in 1..((consumed + BlockBytes) - consumed) :
             p[i] = accepted[consumed + i]
    BY <1>1, <1>2, <1>3, <2>1, PartOf
  <2>3. (consumed + BlockBytes) - consumed = BlockBytes
    BY <1>1, <1>3
  <2> HIDE DEF p
  <2>4. dest = p
    <3>1. Len(dest) = Len(p) /\ \A i \in 1..Len(dest) : dest[i] = p[i]
      BY <1>1, <2>2, <2>3, Zenon
    <3> QED
      BY <1>1, <2>2, <3>1, SeqEqual
  <2> QED
    BY <2>4 DEF p
<1>6. SubSeq(Queued, 1, BlockBytes) = dest
  <2>1. 0 \in 0..(n - consumed) /\ BlockBytes \in 0..(n - consumed)
    BY <1>1, <1>3
  <2>2. SubSeq(Queued, 0 + 1, BlockBytes)
          = SubSeq(accepted, consumed + 0 + 1, consumed + BlockBytes)
    BY <1>1, <1>2, <1>3, <2>1, PartOfPart DEF Queued
  <2>3. 0 + 1 = 1 /\ consumed + 0 + 1 = consumed + 1
    BY <1>3
  <2> QED
    BY <1>5, <2>2, <2>3
<1>7. Queued' = SubSeq(Queued, BlockBytes + 1, Len(Queued))
  <2>1. BlockBytes \in 0..(n - consumed) /\ n - consumed \in BlockBytes..(n - consumed)
    BY <1>1, <1>3
  <2>2. SubSeq(Queued, BlockBytes + 1, n - consumed)
          = SubSeq(accepted, consumed + BlockBytes + 1, consumed + (n - consumed))
    BY <1>1, <1>2, <1>3, <2>1, PartOfPart DEF Queued
  <2>3. consumed + (n - consumed) = n
    BY <1>3
  <2>4. Queued' = SubSeq(accepted, consumed + BlockBytes + 1, n)
    BY <1>2, <1>4 DEF Queued
  <2> QED
    BY <1>3, <2>2, <2>3, <2>4
<1>8. Len(Queued) >= BlockBytes
  BY <1>1, <1>3
<1>9. UNCHANGED Truncated
  BY <1>4 DEF Truncated
<1> QED
  BY <1>4, <1>6, <1>7, <1>8, <1>9 DEF Fifo!Read

(* reset() empties the queue. *)
LEMMA ResetMaps ==
  ASSUME Reset
  PROVE  Fifo!Flush
<1>1. /\ wpc = "idle" /\ wpc' = "idle" /\ overruns' = 0 /\ offered' = offered
      /\ accepted' = <<>> /\ consumed' = 0 /\ delivered' = <<>>
  BY DEF Reset, producerLocals
<1>2. Queued' = <<>>
  BY <1>1, SubSeqEmpty DEF Queued
<1> QED
  BY <1>1, <1>2 DEF Fifo!Flush, Truncated

(* Every step of the ring is a step of the queue or none. *)
LEMMA FifoStep ==
  ASSUME IInv, WriteInProgress, OfferBounded, [Next]_vars
  PROVE  [Fifo!Next]_(Fifo!fifoVars)
<1>1. ASSUME NEW len \in WriteLens, BeginWrite(len)
      PROVE  [Fifo!Next]_(Fifo!fifoVars)
  BY <1>1, BeginWriteMaps DEF Fifo!Next
<1>2. CASE Publish
  BY <1>2, PublishMaps DEF Fifo!Next
<1>3. CASE EndRead
  BY <1>3, EndReadMaps DEF Fifo!Next
<1>4. CASE Reset
  BY <1>4, ResetMaps DEF Fifo!Next
<1>5. CASE CopyIn \/ Poll \/ BeginRead \/ CopyOut \/ UNCHANGED vars
  <2>1. UNCHANGED <<accepted, consumed, delivered, offered, overruns, wpc, wlen,
                    wbase>>
    BY <1>5 DEF CopyIn, Poll, BeginRead, CopyOut, vars, producerLocals
  <2>2. UNCHANGED Queued /\ UNCHANGED Truncated
    BY <2>1 DEF Queued, Truncated
  <2> QED
    BY <2>1, <2>2 DEF Fifo!fifoVars
<1> QED
  BY <1>1, <1>2, <1>3, <1>4, <1>5 DEF Next, Producer, Consumer

-----------------------------------------------------------------------------
(* Main results. *)

(* overrun_count() accounts for every gap in the stream, and stays zero    *)
(* exactly while there is none.                                            *)
THEOREM LossAccounted == Spec => []LossIsCounted
<1>1. Init => KeptWithinOffered /\ LossIsCounted
  <2> SUFFICES ASSUME Init PROVE KeptWithinOffered /\ LossIsCounted
    OBVIOUS
  <2>1. /\ Kept = <<>> /\ offered = 0 /\ resetAt = 0 /\ overruns = 0
        /\ KeptWithinOffered
    BY KeptInit
  <2>2. Jumps = {} /\ MissingEnd = 0
    BY <2>1 DEF Jumps, MissingEnd, Predecessor
  <2>3. Cardinality(Jumps) = 0
    BY <2>2, FS_EmptySet
  <2> QED
    BY <2>1, <2>2, <2>3 DEF LossIsCounted
<1>2. /\ KeptWithinOffered /\ LossIsCounted /\ IInv /\ [Next]_vars
      => KeptWithinOffered' /\ LossIsCounted'
  BY KeptWithinOfferedStep, LossIsCountedStep
<1> QED
  BY <1>1, <1>2, Invariance, PTL DEF Spec

(* reset() flushes: no byte captured before it is processed after it. *)
THEOREM Flushed == Spec => []FlushedByReset
<1>1. Init => KeptIsFresh
  BY KeptInit DEF KeptIsFresh
<1>2. KeptIsFresh /\ IInv /\ [Next]_vars => KeptIsFresh'
  BY KeptIsFreshStep
<1>3. IInv /\ KeptIsFresh => FlushedByReset
  <2> SUFFICES ASSUME IInv, KeptIsFresh, NEW i \in 1..Len(delivered)
               PROVE  delivered[i] > resetAt
    BY DEF FlushedByReset
  <2>1. i \in 1..Len(Kept) /\ delivered[i] = Kept[i]
    BY DeliveredIsKept
  <2> QED
    BY <2>1 DEF KeptIsFresh
<1> QED
  BY <1>1, <1>2, <1>3, Invariance, PTL DEF Spec

(* The I bytes stay I bytes: whatever is dropped, it is pairs. *)
THEOREM Paired == Spec => []IQAligned
<1>1. Init => KeptIsPaired
  <2> SUFFICES ASSUME Init PROVE KeptIsPaired
    OBVIOUS
  <2>1. Kept = <<>> /\ offered = 0 /\ resetAt = 0 /\ tailView = {0}
    BY KeptInit DEF Init
  <2> QED
    BY <2>1 DEF KeptIsPaired, CountsArePairs
<1>2. KeptIsPaired /\ IInv /\ [Next]_vars => KeptIsPaired'
  BY KeptIsPairedStep
<1>3. IInv /\ KeptIsPaired => IQAligned
  <2> SUFFICES ASSUME IInv, KeptIsPaired, NEW i \in 1..Len(delivered)
               PROVE  (delivered[i] - resetAt - i) % 2 = 0
    BY DEF IQAligned
  <2>1. i \in 1..Len(Kept) /\ delivered[i] = Kept[i]
    BY DeliveredIsKept
  <2> QED
    BY <2>1 DEF KeptIsPaired
<1> QED
  BY <1>1, <1>2, <1>3, Invariance, PTL DEF Spec

(* The two threads and the lock-free ring between them implement the       *)
(* bounded queue that drops the end of a transfer it has no room for.      *)
THEOREM Refinement == Spec => ImplementsFifo
<1>1. Init => Fifo!Init /\ WriteInProgress /\ OfferBounded
  BY FifoInit, KeptInit DEF OfferBounded
<1>2. WriteInProgress /\ OfferBounded /\ IInv /\ [Next]_vars
      => WriteInProgress' /\ OfferBounded' /\ [Fifo!Next]_(Fifo!fifoVars)
  BY WriteInProgressStep, OfferBoundedStep, FifoStep
<1>3. Spec => Fifo!Spec
  BY <1>1, <1>2, Invariance, PTL DEF Spec, Fifo!Spec
<1> QED
  BY <1>3 DEF ImplementsFifo
=============================================================================
