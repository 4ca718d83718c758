----------------------------- MODULE MCFraming -----------------------------
(***************************************************************************)
(* A channel for TLC, scaled down so far that several bursts fit: every    *)
(* stream of two dibit values, one sync word of voice and one of data, of  *)
(* three dibits, without bit errors.  The history buffer has no spare      *)
(* entry, so that its index wraps at every place.                          *)
(***************************************************************************)
EXTENDS Framing

TinyWords == << [type |-> "MS_VOICE", word |-> <<1, 1, 3>>],
                [type |-> "MS_DATA",  word |-> <<3, 3, 1>>] >>
=============================================================================
