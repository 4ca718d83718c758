---------------------------- MODULE MCRingBuffer ----------------------------
(***************************************************************************)
(* A small ring for TLC: the counters wrap after two laps, the producer    *)
(* offers more bytes than the ring holds, and a transfer may be as large   *)
(* as the whole ring.                                                      *)
(***************************************************************************)
EXTENDS RingBuffer
=============================================================================
