----------------------------- MODULE RingBuffer -----------------------------
(***************************************************************************)
(* The lock-free single-producer single-consumer ring of ringbuffer.h/.cpp *)
(* with the two threads that use it: the librtlsdr callback thread, which  *)
(* calls write() once per USB transfer (Capture::on_samples), and the      *)
(* channelizer thread of main.cpp, which polls available() and read()s one *)
(* block at a time.                                                        *)
(*                                                                         *)
(* head and tail are the atomics head_ and tail_: free-running size_t      *)
(* counters that wrap at SizeMod and are masked into a slot only when buf  *)
(* is touched.  Each call is cut where the other thread can interleave:    *)
(* the acquire load, every byte of the two memcpys, and the release store. *)
(* An acquire load need not return the latest value: it may return any     *)
(* value stored since the one this thread saw last.  tailView and headView *)
(* hold those candidate values, as unwrapped counts.                       *)
(*                                                                         *)
(* A byte is its number in the device's output (1, 2, ...), 0 being the    *)
(* zeroes of make_unique; odd numbers are I bytes, even numbers Q bytes.   *)
(***************************************************************************)
EXTENDS Integers, Sequences, FiniteSets

CONSTANTS
  Capacity,     \* capacity_, the bytes of buf_
  Laps,         \* times size_t counts through the buffer before it wraps
  WriteLens,    \* the transfer lengths librtlsdr passes to write()
  BlockBytes,   \* the length the channelizer reads
  MaxOffered    \* bound: the bytes the device produces in all

ASSUME CapacityAssumption == Capacity \in Nat \ {0}
ASSUME LapsAssumption == Laps \in Nat \ {0, 1}
ASSUME WriteLensAssumption == WriteLens \subseteq Nat \ {0}
ASSUME BlockAssumption == BlockBytes \in 1..Capacity
ASSUME BoundAssumption == MaxOffered \in Nat
(* The ring has 4 MB, a block is 2048 pairs, and librtlsdr delivers pairs. *)
ASSUME PairsAssumption ==
  /\ Capacity % 2 = 0 /\ BlockBytes % 2 = 0
  /\ \A len \in WriteLens : len % 2 = 0

VARIABLES
  head, tail, buf, overruns,      \* the members of RingBuffer
  wpc, wlen, wdone, wbase,        \* the locals of write()
  rpc, rlen, dest,                \* the locals of the channelizer and read()
  tailView, headView,             \* values an acquire load may still return
  offered, accepted, consumed,    \* history: bytes produced, published, read
  delivered, resetAt              \* history: blocks processed, last reset()

producerLocals == <<wpc, wlen, wdone, wbase>>
consumerLocals == <<rpc, rlen, dest>>
vars == <<head, tail, buf, overruns, producerLocals, consumerLocals,
          tailView, headView, offered, accepted, consumed, delivered, resetAt>>

-----------------------------------------------------------------------------
SizeMod == Capacity * Laps
Slots == 0..(Capacity - 1)

StdMin(a, b) == IF a < b THEN a ELSE b

(* size_t subtraction of two counters. *)
Distance(later, earlier) == (later - earlier) % SizeMod

(* A counter after n more bytes: size_t wraps. *)
AdvanceNoWrap(c, n) == c + n                           \* mutant: never wraps
Advance(c, n) == (c + n) % SizeMod

(* The bytes write() may store when its load of tail_ returned t. *)
FreeSpaceKeepOne(t)  ==                  \* mutant: always one slot left empty
  (Capacity - 1 - Distance(head, t % SizeMod)) % SizeMod
FreeSpaceOneTooMany(t) ==                \* mutant: off by one
  (Capacity + 1 - Distance(head, t % SizeMod)) % SizeMod
FreeSpace(t) == (Capacity - Distance(head, t % SizeMod)) % SizeMod

(* write() drops bytes of a transfer of len. *)
OverrunWhenFull(len, t) == FreeSpace(t) = 0      \* mutant: partial loss ignored
OverrunWhenTight(len, t) == len >= FreeSpace(t)  \* mutant: off by one
Overrun(len, t) == len > FreeSpace(t)

(* The bytes read() and available() find when their load of head_ returned h. *)
Filled(h) == Distance(h % SizeMod, tail)

(* The channelizer's condition to go on to read(). *)
ReadyWhenAny(h)  == Filled(h) > 0                \* mutant: any data will do
ReadyWhenMore(h) == Filled(h) > BlockBytes       \* mutant: off by one
Ready(h) == Filled(h) >= BlockBytes

(* The slot of byte j (from 0) of a transfer of len bytes that starts at   *)
(* counter index: the first chunk runs to the end of buf_ at most, the     *)
(* second starts at slot 0.                                                *)
SlotOfMisplaced(index, len, j) ==    \* mutant: second chunk not at the start
  LET pos   == index % Capacity
      first == StdMin(len, Capacity - pos)
  IN  IF j < first THEN pos + j ELSE j
SlotOf(index, len, j) ==
  LET pos   == index % Capacity
      first == StdMin(len, Capacity - pos)
  IN  IF j < first THEN pos + j ELSE j - first

(* The values a later load may return once it has returned v. *)
NotBefore(view, v) == {x \in view : x >= v}

-----------------------------------------------------------------------------
Init ==
  /\ head = 0 /\ tail = 0
  /\ buf = [s \in Slots |-> 0]
  /\ overruns = 0
  /\ wpc = "idle" /\ wlen = 0 /\ wdone = 0 /\ wbase = 0
  /\ rpc = "poll" /\ rlen = 0 /\ dest = <<>>
  /\ tailView = {0} /\ headView = {0}
  /\ offered = 0 /\ accepted = <<>> /\ consumed = 0 /\ delivered = <<>>
  /\ resetAt = 0

(* write(), up to the first memcpy: load tail_, drop what does not fit and *)
(* count the overrun, return at once when nothing fits.                    *)
BeginWrite(len) ==
  /\ wpc = "idle"
  /\ offered + len <= MaxOffered
  /\ \E t \in tailView :
       LET fits == StdMin(len, FreeSpace(t))
       IN  /\ tailView' = NotBefore(tailView, t)
           /\ overruns' = IF Overrun(len, t) THEN overruns + 1 ELSE overruns
           /\ wlen' = fits
           /\ wpc' = IF fits = 0 THEN "idle" ELSE "copy"
  /\ wdone' = 0
  /\ wbase' = offered
  /\ offered' = offered + len
  /\ UNCHANGED <<head, tail, buf, consumerLocals, headView, accepted, consumed,
                 delivered, resetAt>>

(* One byte of write()'s memcpys. *)
CopyIn ==
  /\ wpc = "copy"
  /\ wdone < wlen
  /\ buf' = [buf EXCEPT ![SlotOf(head, wlen, wdone)] = wbase + wdone + 1]
  /\ wdone' = wdone + 1
  /\ UNCHANGED <<head, tail, overruns, wpc, wlen, wbase, consumerLocals,
                 tailView, headView, offered, accepted, consumed, delivered,
                 resetAt>>

(* write()'s release store of head_, and its return. *)
Publish ==
  /\ wpc = "copy"
  /\ wdone = wlen
  /\ head' = Advance(head, wlen)
  /\ headView' = headView \cup {Len(accepted) + wlen}
  /\ accepted' = accepted \o [j \in 1..wlen |-> wbase + j]
  /\ wpc' = "idle" /\ wlen' = 0 /\ wdone' = 0 /\ wbase' = 0
  /\ UNCHANGED <<tail, buf, overruns, consumerLocals, tailView, offered,
                 consumed, delivered, resetAt>>

(* The channelizer's wait loop: available(), then sleep or go on to read(). *)
Poll ==
  /\ rpc = "poll"
  /\ \E h \in headView :
       /\ headView' = NotBefore(headView, h)
       /\ rpc' = IF Ready(h) THEN "read" ELSE "poll"
  /\ UNCHANGED <<head, tail, buf, overruns, producerLocals, rlen, dest,
                 tailView, offered, accepted, consumed, delivered, resetAt>>

(* read(), up to the first memcpy: load head_ anew, shorten the request to *)
(* what is there, return at once when that is nothing.                     *)
BeginRead ==
  /\ rpc = "read"
  /\ \E h \in headView :
       LET there == StdMin(BlockBytes, Filled(h))
       IN  /\ headView' = NotBefore(headView, h)
           /\ rlen' = there
           /\ rpc' = IF there = 0 THEN "poll" ELSE "copy"
  /\ dest' = <<>>
  /\ UNCHANGED <<head, tail, buf, overruns, producerLocals, tailView, offered,
                 accepted, consumed, delivered, resetAt>>

(* One byte of read()'s memcpys. *)
CopyOut ==
  /\ rpc = "copy"
  /\ Len(dest) < rlen
  /\ dest' = Append(dest, buf[SlotOf(tail, rlen, Len(dest))])
  /\ UNCHANGED <<head, tail, buf, overruns, producerLocals, rpc, rlen,
                 tailView, headView, offered, accepted, consumed, delivered,
                 resetAt>>

(* read()'s release store of tail_ and its return: a full block goes to    *)
(* the demodulators, a short one is thrown away by the channelizer.        *)
EndRead ==
  /\ rpc = "copy"
  /\ Len(dest) = rlen
  /\ tail' = Advance(tail, rlen)
  /\ tailView' = tailView \cup {consumed + rlen}
  /\ consumed' = consumed + rlen
  /\ delivered' = IF rlen < BlockBytes THEN delivered ELSE delivered \o dest
  /\ rpc' = "poll" /\ rlen' = 0 /\ dest' = <<>>
  /\ UNCHANGED <<head, buf, overruns, producerLocals, headView, offered,
                 accepted, resetAt>>

(* reset(), legal only while both threads are paused: the counters and the *)
(* overrun count restart, the bytes of buf_ stay where they are.           *)
ResetKeepsHead ==                          \* mutant: head_ is not stored
  /\ wpc = "idle" /\ rpc = "poll"
  /\ tail' = 0 /\ overruns' = 0 /\ tailView' = {0}
  /\ accepted' = <<>> /\ consumed' = 0 /\ delivered' = <<>>
  /\ resetAt' = offered
  /\ UNCHANGED <<head, headView, buf, producerLocals, consumerLocals, offered>>
Reset ==
  /\ wpc = "idle" /\ rpc = "poll"
  /\ head' = 0 /\ tail' = 0 /\ overruns' = 0
  /\ tailView' = {0} /\ headView' = {0}
  /\ accepted' = <<>> /\ consumed' = 0 /\ delivered' = <<>>
  /\ resetAt' = offered
  /\ UNCHANGED <<buf, producerLocals, consumerLocals, offered>>

Producer == (\E len \in WriteLens : BeginWrite(len)) \/ CopyIn \/ Publish
Consumer == Poll \/ BeginRead \/ CopyOut \/ EndRead

Next == Producer \/ Consumer \/ Reset

Spec == Init /\ [][Next]_vars

(* The threads keep being scheduled, and a store becomes visible to the    *)
(* other thread in the end.                                                *)
FreshPoll == Poll /\ headView' = {Len(accepted)}
FairSpec ==
  /\ Spec
  /\ WF_vars(CopyIn \/ Publish)
  /\ WF_vars(FreshPoll)
  /\ WF_vars(BeginRead \/ CopyOut \/ EndRead)

-----------------------------------------------------------------------------
(* Types of all variables. *)
TypeOK ==
  /\ head \in 0..(SizeMod - 1) /\ tail \in 0..(SizeMod - 1)
  /\ buf \in [Slots -> Nat]
  /\ overruns \in Nat
  /\ wpc \in {"idle", "copy"}
  /\ wlen \in Nat /\ wdone \in 0..wlen /\ wbase \in Nat
  /\ rpc \in {"poll", "read", "copy"}
  /\ rlen \in Nat /\ dest \in Seq(Nat) /\ Len(dest) <= rlen
  /\ tailView \in SUBSET Nat /\ headView \in SUBSET Nat
  /\ offered \in Nat /\ accepted \in Seq(Nat) /\ consumed \in Nat
  /\ delivered \in Seq(Nat) /\ resetAt \in Nat

(* The slots the two memcpys in progress touch. *)
WriteSlots == {SlotOf(head, wlen, j) : j \in 0..(wlen - 1)}
ReadSlots  == {SlotOf(tail, rlen, j) : j \in 0..(rlen - 1)}

(* No data race on buf_: while write() and read() both copy, no byte of    *)
(* the buffer belongs to both copies, whatever stale counters they loaded. *)
NoDataRace ==
  wpc = "copy" /\ rpc = "copy" => WriteSlots \cap ReadSlots = {}

(* What the demodulators get is, byte for byte and in order, a prefix of   *)
(* what the callback published: no byte is torn, repeated, skipped or      *)
(* taken from an earlier lap of the buffer.                                *)
DeliveredIsPrefix ==
  /\ Len(delivered) <= Len(accepted)
  /\ \A i \in 1..Len(delivered) : delivered[i] = accepted[i]

(* The branch "got < BLOCK_BYTES" of channelizer_thread, which would throw *)
(* a partial block away, never runs: once available() has reported a block *)
(* the read() that follows gets all of it.                                 *)
NoShortRead ==
  /\ rpc = "read" => \A h \in headView : Filled(h) >= BlockBytes
  /\ rpc = "copy" => rlen = BlockBytes

(* Everything kept so far, the copy in progress included, and the number   *)
(* of places where it skips bytes of the device.                           *)
Kept == accepted \o [j \in 1..wlen |-> wbase + j]
Predecessor(i) == IF i = 1 THEN resetAt ELSE Kept[i - 1]
Jumps == {i \in 1..Len(Kept) : Kept[i] # Predecessor(i) + 1}
MissingEnd == IF Predecessor(Len(Kept) + 1) = offered THEN 0 ELSE 1

(* overrun_count() accounts for every loss: each place where the stream    *)
(* skips bytes has an overrun of its own, and the count stays zero while   *)
(* nothing is lost and only then.                                          *)
LossIsCounted ==
  /\ Cardinality(Jumps) + MissingEnd <= overruns
  /\ overruns > 0 => Len(Kept) < offered - resetAt

(* The demodulators read I bytes as I and Q bytes as Q for ever: dropping  *)
(* the end of a transfer never shifts the pairing by one byte.             *)
IQAligned ==
  \A i \in 1..Len(delivered) : (delivered[i] - resetAt - i) % 2 = 0

(* reset() flushes all data: nothing captured before it is delivered after *)
(* it, although the bytes themselves are still in buf_.                    *)
FlushedByReset ==
  \A i \in 1..Len(delivered) : delivered[i] > resetAt

(* Every full block published is processed in the end (or flushed: only    *)
(* reset() makes accepted shorter).                                        *)
BlocksAreDelivered ==
  \A n \in {k \in 1..MaxOffered : k % BlockBytes = 0} :
    Len(accepted) >= n ~> (Len(delivered) >= n \/ Len(accepted) < n)

(* The ring implements the bounded lossy queue: a write takes effect when  *)
(* it publishes head_ (or returns 0), a read when it stores tail_.         *)
Queued == SubSeq(accepted, consumed + 1, Len(accepted))
Truncated == wpc = "copy" /\ wbase + wlen # offered
Fifo == INSTANCE LossyFifo WITH
          queue    <- Queued,
          offered  <- IF wpc = "copy" THEN wbase ELSE offered,
          overruns <- IF Truncated THEN overruns - 1 ELSE overruns
ImplementsFifo == Fifo!Spec

-----------------------------------------------------------------------------
(* The inductive invariant behind NoDataRace, DeliveredIsPrefix and        *)
(* NoShortRead, in the unwrapped counts Len(accepted) and consumed.        *)
(*                                                                         *)
(* The atomics are those counts, wrapped. *)
CountersWrap ==
  /\ head = Len(accepted) % SizeMod
  /\ tail = consumed % SizeMod
  /\ consumed <= Len(accepted)

(* Whatever the producer may still load from tail_, its copy fits between  *)
(* the unread bytes.                                                       *)
ProducerHasRoom ==
  /\ consumed \in tailView
  /\ \A t \in tailView : t <= consumed /\ Len(accepted) + wlen <= t + Capacity
  /\ wpc = "idle" => wlen = 0 /\ wdone = 0

(* Whatever the consumer may still load from head_, what it is about to    *)
(* read has been published.                                                *)
ConsumerHasData ==
  /\ Len(accepted) \in headView
  /\ \A h \in headView : /\ h <= Len(accepted)
                         /\ consumed + rlen <= h
                         /\ rpc = "read" => consumed + BlockBytes <= h
  /\ IF rpc = "copy" THEN rlen = BlockBytes ELSE rlen = 0 /\ dest = <<>>

(* The unread bytes are in their slots, and so are the ones the copy in    *)
(* progress has written behind them and read from the front.               *)
BytesInPlace ==
  /\ \A k \in (consumed + 1)..Len(accepted) :
       buf[(k - 1) % Capacity] = accepted[k]
  /\ \A j \in 1..wdone :
       buf[(Len(accepted) + j - 1) % Capacity] = wbase + j
  /\ \A j \in 1..Len(dest) : dest[j] = accepted[consumed + j]

DeliveredSoFar ==
  /\ Len(delivered) = consumed
  /\ \A i \in 1..consumed : delivered[i] = accepted[i]

IInv ==
  /\ TypeOK
  /\ CountersWrap
  /\ ProducerHasRoom
  /\ ConsumerHasData
  /\ BytesInPlace
  /\ DeliveredSoFar
=============================================================================
