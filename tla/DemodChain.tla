----------------------------- MODULE DemodChain -----------------------------
(***************************************************************************)
(* DemodChain::process of demod_chain.cpp for one channel, from blocks of  *)
(* I/Q pairs to dibits: ChannelFilter over the whole block, FmDiscriminator*)
(* over what it gave, then TimingRecovery, whose callback is the slicer.   *)
(* Framing goes on from the dibits.                                        *)
(***************************************************************************)
EXTENDS ChannelFilter, TimingRecovery, FskSlicer

CONSTANTS
  BlockSizes,     \* num_pairs of a call
  MidFactors,     \* mid-samples, as multiples of the amplitude
  MaxPairs        \* bound: pairs of the stream

ASSUME ChainConstants ==
  /\ BlockSizes \subseteq Nat \ {0} /\ MidFactors \subseteq Int /\ MaxPairs \in Nat

VARIABLES
  stage,          \* where process() is
  left,           \* pairs of the block the filter has still to take
  disc_buf,       \* DemodChain's disc_buf_, the samples not yet timed
  prev            \* FmDiscriminator's prev_

chainVars == <<filterVars, timingVars, slicerVars, stage, left, disc_buf, prev>>

(* A discriminated sample is the two filtered ones it compares; prev_      *)
(* starts as a constant, for which the silent delay line stands.           *)
ChainInit ==
  /\ FilterInit /\ TimingInit /\ SlicerInit
  /\ stage = "idle" /\ left = 0 /\ disc_buf = <<>> /\ prev = Window(0)

-----------------------------------------------------------------------------
(* process() is called; both buffers are cleared. *)
CallFresh(n) ==             \* mutant: every block is decimated from its start
  /\ stage = "idle" /\ pairs + n <= MaxPairs
  /\ stage' = "filter" /\ left' = n
  /\ iq_buf' = <<>> /\ disc_buf' = <<>> /\ decim_count' = 0
  /\ UNCHANGED <<osc, osc_norm_counter, delay, pairs, timingVars, slicerVars, prev>>
Call(n) ==
  /\ stage = "idle" /\ pairs + n <= MaxPairs
  /\ stage' = "filter" /\ left' = n
  /\ iq_buf' = <<>> /\ disc_buf' = <<>>
  /\ UNCHANGED <<osc, osc_norm_counter, delay, decim_count, pairs, timingVars,
                 slicerVars, prev>>

Filter ==
  /\ stage = "filter" /\ left > 0
  /\ FilterPair
  /\ left' = left - 1
  /\ UNCHANGED <<timingVars, slicerVars, stage, disc_buf, prev>>

(* A block too short for an output sample ends here. *)
NothingFiltered ==
  /\ stage = "filter" /\ left = 0 /\ iq_buf = <<>>
  /\ stage' = "idle"
  /\ UNCHANGED <<filterVars, timingVars, slicerVars, left, disc_buf, prev>>

(* FmDiscriminator::process: each sample against the one before, the first *)
(* against the last of an earlier block.                                   *)
Discriminate ==
  /\ stage = "filter" /\ left = 0 /\ iq_buf # <<>>
  /\ disc_buf' = disc_buf \o
       [i \in 1..Len(iq_buf) |-> <<IF i = 1 THEN prev ELSE iq_buf[i - 1], iq_buf[i]>>]
  /\ prev' = iq_buf[Len(iq_buf)]
  /\ stage' = "timing"
  /\ UNCHANGED <<filterVars, timingVars, slicerVars, left>>

(* The number of a discriminated sample, from its newest pair. *)
NumberOf(z) == z[2][1][1] \div decimation

(* TimingRecovery::process: one sample, and the symbol it may bring.       *)
Time ==
  /\ stage = "timing" /\ disc_buf # <<>>
  /\ LET x == NumberOf(Head(disc_buf))
     IN  \/ NoStrobe(x) /\ UNCHANGED slicerVars
         \/ \E d \in 0..3, k \in MidFactors :
              /\ Strobe(x, LevelOf(d, amplitude), k * amplitude)
              /\ decide(LevelOf(d, amplitude))
  /\ disc_buf' = Tail(disc_buf)
  /\ UNCHANGED <<filterVars, stage, left, prev>>

Return ==
  /\ stage = "timing" /\ disc_buf = <<>>
  /\ stage' = "idle"
  /\ UNCHANGED <<filterVars, timingVars, slicerVars, left, disc_buf, prev>>

(* Between two blocks the strength of the signal may change. *)
NewTransmission ==
  /\ stage = "idle"
  /\ \E a \in Amplitudes : Fade(a)
  /\ UNCHANGED <<filterVars, timingVars, stage, left, disc_buf, prev>>

ChainNext ==
  \/ \E n \in BlockSizes : Call(n)
  \/ Filter \/ NothingFiltered \/ Discriminate \/ Time \/ Return
  \/ NewTransmission
ChainSpec == ChainInit /\ [][ChainNext]_chainVars

-----------------------------------------------------------------------------
ChainTypeOK ==
  /\ FilterTypeOK /\ TimingTypeOK /\ SlicerTypeOK
  /\ stage \in {"idle", "filter", "timing"} /\ left \in Nat

(* The borders of blocks leave no trace, although neither the decimation   *)
(* nor the symbol period divides a block: the samples that wait for the    *)
(* timing loop are the next of an uninterrupted stream, filtered from      *)
(* neighbouring pairs, mixed with an oscillator that never jumps and       *)
(* compared with the sample before.                                        *)
StreamIsSeamless ==
  /\ \A i \in 1..Len(iq_buf) :
       iq_buf[i] = Window(pairs \div decimation - Len(iq_buf) + i)
  /\ \A i \in 1..Len(disc_buf) :
       disc_buf[i] = <<Window(pushed + i - 1), Window(pushed + i)>>

(* No block loses or repeats a symbol: after each, all samples it brought  *)
(* are timed, and there are as many symbols as periods within the clamp    *)
(* fit into the stream.                                                    *)
NoSymbolLost ==
  stage = "idle" =>
    /\ pushed = pairs \div decimation
    /\ symbol_count * omega_min <= U * pushed - mu
    /\ U * pushed - mu <= symbol_count * omega_max
    /\ mu < omega
=============================================================================
