----------------------------- MODULE LossyFifo -----------------------------
(***************************************************************************)
(* What the ring of ringbuffer.h promises its two callers, without heads,  *)
(* tails, masks or memcpys: a bounded queue.  A write keeps a prefix of    *)
(* what it is given, and a write that keeps less than all of it is counted *)
(* (overrun_count); a read takes one whole block from the front.           *)
(***************************************************************************)
EXTENDS Integers, Sequences

CONSTANTS Capacity, WriteLens, BlockBytes, MaxOffered

VARIABLES
  queue,       \* the bytes written and not yet read, oldest first
  offered,     \* the bytes given to write() so far; byte n is the number n
  overruns,    \* the writes that kept less than they were given
  delivered    \* the bytes read so far, in order

fifoVars == <<queue, offered, overruns, delivered>>

Init == queue = <<>> /\ offered = 0 /\ overruns = 0 /\ delivered = <<>>

Write(len) ==
  /\ offered + len <= MaxOffered
  /\ \E kept \in 0..len :
       /\ Len(queue) + kept <= Capacity
       /\ queue' = queue \o [j \in 1..kept |-> offered + j]
       /\ overruns' = IF kept < len THEN overruns + 1 ELSE overruns
  /\ offered' = offered + len
  /\ UNCHANGED delivered

Read ==
  /\ Len(queue) >= BlockBytes
  /\ delivered' = delivered \o SubSeq(queue, 1, BlockBytes)
  /\ queue' = SubSeq(queue, BlockBytes + 1, Len(queue))
  /\ UNCHANGED <<offered, overruns>>

Flush ==
  /\ queue' = <<>> /\ delivered' = <<>> /\ overruns' = 0
  /\ UNCHANGED offered

Next == (\E len \in WriteLens : Write(len)) \/ Read \/ Flush

Spec == Init /\ [][Next]_fifoVars
=============================================================================
