--------------------------- MODULE MCSlotManager ---------------------------
(***************************************************************************)
(* The two timeslots for TLC, with every sequence of burst types.          *)
(***************************************************************************)
EXTENDS SlotManager
=============================================================================
