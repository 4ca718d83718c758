------------------------------- MODULE Framer -------------------------------
(***************************************************************************)
(* What burst_sync.h promises of BurstSync, without shift register,        *)
(* circular history or collection index: the dibit stream is searched for  *)
(* sync words, and every burst is a slice of the stream around one.        *)
(*                                                                         *)
(*    [first half][sync][second half][guard]                               *)
(***************************************************************************)
EXTENDS Integers, Sequences, FiniteSets

CONSTANTS
  Half,        \* dibits of each payload half (49)
  SyncLen,     \* dibits of the sync word (24)
  Guard,       \* dibits of the guard after the second half (10)
  MaxErrors,   \* kMaxErrors, the bit errors a sync match forgives (4)
  SyncWords,   \* the sync patterns in the order match_sync tries them,
               \* each a [type, word] with word a sequence of dibits
  Dibits,      \* the dibits the air may carry
  MaxDibits    \* bound: the length of the stream

VARIABLES
  air,         \* the dibits received so far
  pending,     \* where the sync word of the burst in progress ended, or 0
  bursts       \* the bursts completed so far

frameVars == <<air, pending, bursts>>

(* Dibits before the first are the zeroes the buffers start with. *)
At(stream, i) == IF i \in 1..Len(stream) THEN stream[i] ELSE 0
Slice(stream, first, n) == [k \in 1..n |-> At(stream, first + k - 1)]

(* Differing bits of two words of dibits. *)
Bit(d, b) == IF b = 0 THEN d % 2 ELSE d \div 2
Hamming(u, v) ==
  Cardinality({x \in (1..SyncLen) \X {0, 1} : Bit(u[x[1]], x[2]) # Bit(v[x[1]], x[2])})

Matches(w) == {k \in 1..Len(SyncWords) : Hamming(w, SyncWords[k].word) <= MaxErrors}
TypeOf(w) ==
  IF Matches(w) = {} THEN "UNKNOWN"
  ELSE SyncWords[CHOOSE k \in Matches(w) : \A j \in Matches(w) : k <= j].type

(* The n-th burst, around a sync word that ends at dibit m. *)
BurstAt(stream, m, n) ==
  [type      |-> TypeOf(Slice(stream, m - SyncLen + 1, SyncLen)),
   timeslot  |-> IF n % 2 = 1 THEN 1 ELSE 2,
   sync_bits |-> Slice(stream, m - SyncLen + 1, SyncLen),
   dibits    |-> Slice(stream, m - SyncLen - Half + 1, Half)
                   \o Slice(stream, m + 1, Half)]

Init == air = <<>> /\ pending = 0 /\ bursts = <<>>

Receive(d) ==
  /\ Len(air) < MaxDibits
  /\ air' = Append(air, d)
  /\ LET now == Len(air) + 1
         w   == Slice(air', now - SyncLen + 1, SyncLen)
     IN  CASE pending = 0 ->
                /\ pending' = IF TypeOf(w) = "UNKNOWN" THEN 0 ELSE now
                /\ UNCHANGED bursts
           [] pending # 0 /\ now < pending + Half + Guard ->
                UNCHANGED <<pending, bursts>>
           [] OTHER ->
                /\ pending' = 0
                /\ bursts' = Append(bursts,
                                    BurstAt(air', pending, Len(bursts) + 1))

Next == \E d \in Dibits : Receive(d)
Spec == Init /\ [][Next]_frameVars
=============================================================================
