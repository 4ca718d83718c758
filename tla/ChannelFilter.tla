--------------------------- MODULE ChannelFilter ---------------------------
(***************************************************************************)
(* ChannelFilter of channel_filter.h/.cpp: the loop body of process(),     *)
(* with the state that outlives a call.  A value is what it is made of: a  *)
(* mixed sample is the pair of its number in the stream of the channel and *)
(* the turns of the oscillator it was multiplied with, a filtered sample   *)
(* the delay line at that moment.  The taps are constants that only weigh  *)
(* the entries of the delay line.                                          *)
(***************************************************************************)
EXTENDS Integers, Sequences

CONSTANTS
  num_taps, decimation,   \* of ChannelFilter::Config
  NormEvery               \* pairs between two renormalisations (1024)

ASSUME FilterConstants ==
  /\ num_taps \in Nat /\ num_taps % 2 = 1     \* else the constructor throws
  /\ decimation \in Nat \ {0} /\ NormEvery \in Nat \ {0}

VARIABLES
  osc,                    \* the angle of osc_, in steps of osc_step_
  osc_norm_counter, delay, decim_count,
  iq_buf,                 \* the argument out, DemodChain's iq_buf_
  pairs                   \* history: pairs taken, all calls together

filterVars == <<osc, osc_norm_counter, delay, decim_count, iq_buf, pairs>>

Silence == <<0, 0>>       \* what delay_ is filled with at first

FilterInit ==
  /\ osc = 0 /\ osc_norm_counter = 0 /\ decim_count = 0
  /\ delay = [j \in 1..num_taps |-> Silence]
  /\ iq_buf = <<>> /\ pairs = 0

(* One I/Q pair: mix, turn the oscillator, shift it in, and compute every  *)
(* decimation-th output.                                                   *)
DueLate(count) == count + 1 > decimation            \* mutant: off by one
Due(count) == count + 1 >= decimation

FilterPair ==
  /\ pairs' = pairs + 1
  /\ osc' = osc + 1
  /\ osc_norm_counter' = (osc_norm_counter + 1) % NormEvery
  /\ delay' = <<<<pairs', osc>>>> \o SubSeq(delay, 1, num_taps - 1)
  /\ IF Due(decim_count)
       THEN decim_count' = 0 /\ iq_buf' = Append(iq_buf, delay')
       ELSE decim_count' = decim_count + 1 /\ UNCHANGED iq_buf

-----------------------------------------------------------------------------
(* The n-th filtered sample of a channel whose pairs come in one piece.    *)
Window(n) ==
  [j \in 1..num_taps |->
     LET k == decimation * n - j + 1 IN IF k > 0 THEN <<k, k - 1>> ELSE Silence]

FilterTypeOK ==
  /\ osc \in Nat /\ pairs \in Nat
  /\ osc_norm_counter \in 0..(NormEvery - 1)
  /\ decim_count \in 0..(decimation - 1)
  /\ delay \in [1..num_taps -> Nat \X Nat]
  /\ iq_buf \in Seq([1..num_taps -> Nat \X Nat])
=============================================================================
