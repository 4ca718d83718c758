------------------------------- MODULE Layer2 -------------------------------
(***************************************************************************)
(* The Layer 2 callback of main.cpp (make_layer2_cb): a burst is decoded   *)
(* by BPTC19696, parsed by LcParser and reported as at most one event.     *)
(*                                                                         *)
(* Around it, one burst of the air: a transmitter sends a voice link       *)
(* control message [flco, src, dst] or a position report [pkt, lat, lon]   *)
(* under one of the four sync words, the channel flips bits, and the       *)
(* callback is called.                                                     *)
(***************************************************************************)
EXTENDS BPTC19696, LcParser

CONSTANTS
  Transmissions,   \* what may be sent: [kind, body, sync, timeslot, noise],
                   \* noise being the bit errors it suffers at most
  FlipAt           \* matrix positions where the channel flips bits

VARIABLES
  sent,        \* the transmission
  errors,      \* where the channel flipped bits of it, in the matrix
  report       \* what the callback emitted

l2Vars == <<sent, errors, report>>

Voice == {"BS_VOICE", "MS_VOICE"}
Data  == {"BS_DATA", "MS_DATA"}

(* report before the callback, and after a callback that emitted nothing. *)
NotYet  == [type |-> "pending"]
Nothing == [type |-> "none"]

(* What a radio can put into the fields of a message. *)
Unsigned24 == 0..(2^24 - 1)
Signed24   == -(2^23)..(2^23 - 1)
VoiceLc  == [flco : 0..63, src : Unsigned24, dst : Unsigned24]
Position == [pkt : 0..255, lat : Signed24, lon : Signed24]
Transmission(kind, body) ==
  [kind : {kind}, body : body, sync : Voice \cup Data, timeslot : {1, 2}, noise : Nat]

ASSUME Layer2Constants ==
  /\ FlipAt \subseteq 0..195
  /\ \A x \in Transmissions :
        x \in Transmission("voice_lc", VoiceLc) \/ x \in Transmission("position", Position)

-----------------------------------------------------------------------------
(* make_layer2_cb() *)
layer2(burst) ==
  LET msg == decode(burst.dibits)
      lc  == parse_voice_lc(msg.bits)
      gps == parse_gps(msg.bits)
  IN  CASE msg.ok /\ burst.type \in Voice /\ lc.valid ->
             [type |-> "voice", slot |-> burst.timeslot,
              src |-> lc.src_id, dst |-> lc.dst_id, group |-> lc.group]
        [] msg.ok /\ burst.type \in Data /\ gps.valid ->
             [type |-> "gps", slot |-> burst.timeslot,
              src |-> 0, lat |-> gps.lat, lon |-> gps.lon]
        [] OTHER -> Nothing

-----------------------------------------------------------------------------
(* The transmitter, from the layouts in lc_parser.h:14-21 and 32-36.       *)

(* The positions of the ones of a number written from offset in n bits;    *)
(* negative numbers in two's complement.                                   *)
Put(val, offset, n) ==
  {i \in offset..(offset + n - 1) : (val \div 2^(offset + n - 1 - i)) % 2 = 1}

Bits(x) ==
  IF x.kind = "voice_lc"
  THEN Put(x.body.flco, 2, 6) \cup Put(x.body.dst, 24, 24) \cup Put(x.body.src, 48, 24)
  ELSE Put(x.body.pkt, 0, 8) \cup Put(x.body.lat, 8, 24) \cup Put(x.body.lon, 32, 24)

L2Init == sent \in Transmissions /\ errors = {} /\ report = NotYet

(* The channel flips a bit ... *)
Flip ==
  /\ report = NotYet /\ Cardinality(errors) < sent.noise
  /\ \E k \in FlipAt \ errors : errors' = errors \cup {k}
  /\ UNCHANGED <<sent, report>>

(* ... and the receiver has the whole burst. *)
Received == ToDibits(Interleave(SymDiff(EncodeMatrix(Bits(sent)), errors)))

Receive ==
  /\ report = NotYet
  /\ report' = layer2([type |-> sent.sync, timeslot |-> sent.timeslot,
                       dibits |-> Received])
  /\ UNCHANGED <<sent, errors>>

L2Next == Flip \/ Receive
L2Spec == L2Init /\ [][L2Next]_l2Vars

-----------------------------------------------------------------------------
(* What a burst of voice with link control, or of data with a position     *)
(* report, must be reported as, in terms of what was sent: calls of groups *)
(* and individuals with their IDs, and positions on the globe, but for     *)
(* 0N 0E and for the one step south or west of the globe that 24 bits can  *)
(* still express.                                                          *)
Expected ==
  LET x == sent.body
      onGlobe == (-8388608) \notin {x.lat, x.lon}
  IN  IF sent.kind = "voice_lc"
      THEN IF x.flco \in {0, 3} /\ {x.src, x.dst} # {0}
           THEN [type |-> "voice", slot |-> sent.timeslot,
                 src |-> x.src, dst |-> x.dst, group |-> x.flco = 0]
           ELSE Nothing
      ELSE IF x.pkt \in {0, 32} /\ onGlobe /\ {x.lat, x.lon} # {0}
           THEN [type |-> "gps", slot |-> sent.timeslot,
                 src |-> 0, lat |-> x.lat, lon |-> x.lon]
           ELSE Nothing

Fits == IF sent.kind = "voice_lc" THEN sent.sync \in Voice ELSE sent.sync \in Data

(* With up to two bit errors in the burst, wherever they are, the event is *)
(* the one the sender meant, in the sender's timeslot, and messages that   *)
(* are no events are passed over.                                          *)
ReportsWhatWasSent ==
  report # NotYet /\ Fits /\ Cardinality(errors) <= 2 => report = Expected

(* bptc19696.h:48-52 and more: any two bit errors, wherever they are, are  *)
(* corrected in all 96 bits, although two in one row make the first pass   *)
(* flip a third and two in one column make the column pass flip a third.   *)
CorrectsErrors ==
  report = NotYet /\ Cardinality(errors) <= 2 =>
    decode(Received) = [ok |-> TRUE, bits |-> Bits(sent)]

(* BUILD_MANUAL(1).md:42, "GPS coordinates (when a MOTOTRBO position       *)
(* report is present)".                                                    *)
GpsOnlyFromPositions ==
  report.type = "gps" /\ errors = {} => sent.kind = "position"
=============================================================================
