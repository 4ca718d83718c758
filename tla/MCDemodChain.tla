---------------------------- MODULE MCDemodChain ----------------------------
(***************************************************************************)
(* A channel's demodulator for TLC: the symbol periods, clamp and history  *)
(* of timing_recovery.h exactly, in 48ths of a sample; two pairs a sample  *)
(* and three taps, and blocks of one pair (which yield nothing or one      *)
(* sample) and five.  Gains are large, so that four symbols reach both    *)
(* ends of the clamp.                                                      *)
(***************************************************************************)
EXTENDS DemodChain

Mids == {-1, 3}
=============================================================================
