------------------------------ MODULE MCLayer2 ------------------------------
(***************************************************************************)
(* Layer 2 for TLC: IDs and coordinates at the ends of their ranges,       *)
(* without noise; one message with up to two bit errors, anywhere.         *)
(***************************************************************************)
EXTENDS Layer2

Ids == {0, 1, 9001, 16777215}
Coordinates == {-8388608, -8388607, -1, 0, 8388607}

VoiceLcs == [flco : {0, 3, 4}, src : Ids, dst : Ids]
Positions == [pkt : {0, 32, 16}, lat : Coordinates, lon : Coordinates]

Clear ==
  [kind : {"voice_lc"}, body : VoiceLcs, sync : Voice \cup Data,
   timeslot : {1, 2}, noise : {0}]
  \cup [kind : {"position"}, body : Positions, sync : Voice \cup Data,
         timeslot : {1, 2}, noise : {0}]

Noisy == {[kind |-> "position", body |-> [pkt |-> 32, lat |-> 4881614, lon |-> -227982],
           sync |-> "MS_DATA", timeslot |-> 2, noise |-> 2]}

AllTransmissions == Clear \cup Noisy
Everywhere == 0..195
=============================================================================
