------------------------------ MODULE LcParser ------------------------------
(***************************************************************************)
(* LcParser of lc_parser.h/.cpp: the fields of a decoded 96-bit message,   *)
(* the set of the positions of its ones.  Coordinates stay in the raw      *)
(* units of the air, 90 degrees of latitude or 180 of longitude in         *)
(* 0x7FFFFF steps.                                                         *)
(***************************************************************************)
EXTENDS Integers

(* The eight bits from offset on as a number, high bit first. *)
extract_u8(bits, offset) ==
  LET bit(i) == IF offset + i \in bits THEN 1 ELSE 0
  IN  128 * bit(0) + 64 * bit(1) + 32 * bit(2) + 16 * bit(3)
        + 8 * bit(4) + 4 * bit(5) + 2 * bit(6) + bit(7)

extract_u24(bits, offset) ==
  65536 * extract_u8(bits, offset) + 256 * extract_u8(bits, offset + 8)
    + extract_u8(bits, offset + 16)

sign_extend_late(val, nbits) ==      \* mutant: the wrong sign bit
  IF val >= 2^nbits THEN val - 2^(nbits + 1) ELSE val
sign_extend(val, nbits) == IF val >= 2^(nbits - 1) THEN val - 2^nbits ELSE val

parse_voice_lc(bits) ==
  LET flco == extract_u8(bits, 0) % 64      \* the six bits from 2 on
      dst  == extract_u24(bits, 24)
      src  == extract_u24(bits, 48)
  IN  [valid |-> flco \in {0, 3} /\ ~(src = 0 /\ dst = 0),
       group |-> flco = 0, src_id |-> src, dst_id |-> dst]

(* The farthest north (and east) a 24-bit coordinate goes, 90 (180)        *)
(* degrees; the farthest south and west is one step beyond -90 (-180).     *)
kPole == 2^23 - 1

parse_gps(bits) ==
  LET byte(i) == extract_u8(bits, 8 * i)
      slat == sign_extend(byte(1) * 2^16 + byte(2) * 2^8 + byte(3), 24)
      slon == sign_extend(byte(4) * 2^16 + byte(5) * 2^8 + byte(6), 24)
  IN  [valid |-> /\ byte(0) \in {0, 32}
                 /\ slat \in (-kPole)..kPole /\ slon \in (-kPole)..kPole
                 /\ ~(slat = 0 /\ slon = 0),
       lat |-> slat, lon |-> slon]
=============================================================================
