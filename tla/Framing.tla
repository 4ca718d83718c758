------------------------------- MODULE Framing -------------------------------
(***************************************************************************)
(* One channel from its dibits to its slot events: BurstSync, whose        *)
(* callback is SlotManager::on_burst (demod_chain.cpp:19-21), both run     *)
(* inside push_dibit().                                                    *)
(***************************************************************************)
EXTENDS BurstSync

VARIABLES slots, event, heard, missed

Slot == INSTANCE SlotManager WITH MaxSlotBursts <- MaxDibits, MaxMissed <- 0

slotVars == <<slots, event, heard, missed>>
frameVars == <<syncVars, slotVars>>

FrameInit == SyncInit /\ Slot!SlotInit

(* push_dibit() without a callback. *)
NoCallback(d) ==
  /\ HuntMiss(d) \/ HuntMatch(d) \/ Collect(d)
  /\ UNCHANGED slotVars

(* push_dibit() with one: the burst goes to its timeslot. *)
Callback(d) ==
  /\ Complete(d)
  /\ Slot!on_burst(current'.timeslot, current'.type)

FrameNext == \E d \in Dibits : NoCallback(d) \/ Callback(d)
FrameSpec == FrameInit /\ [][FrameNext]_frameVars

-----------------------------------------------------------------------------
(* Every sync match becomes one burst, every burst is booked on exactly    *)
(* one timeslot, and the timeslots alternate, the first burst on TS1 ("odd *)
(* bursts -> TS1, even bursts -> TS2", burst_sync.h:41), whatever bursts   *)
(* were missed in between.                                                 *)
BurstsAreBookedOnce ==
  /\ sync_matches = burst_count + (IF state = "COLLECTING" THEN 1 ELSE 0)
  /\ slots[1].count = (burst_count + 1) \div 2
  /\ slots[2].count = burst_count \div 2
  /\ \A ts \in {1, 2} :
       heard[ts] = [n \in 1..slots[ts].count |-> emitted[2 * n - 2 + ts].type]

(* Burst n as it was on the air: the type of the sync word received for it.*)
OnAir(n) == Abstract!TypeOf(WordAt(matchedAt[n]))

(* What the status line shows of a timeslot follows from what was on the   *)
(* air: the timeslot is in a voice call exactly when the last sync word    *)
(* booked on it, as received, was one of voice.                            *)
SlotStateTellsTheAir ==
  \A ts \in {1, 2} :
    slots[ts].state = "VOICE" <=>
      LET n == 2 * slots[ts].count - 2 + ts     \* the last burst booked on ts
      IN  n > 0 /\ slots[ts].count > 0 /\ OnAir(n) \in Slot!Voice

(* What Layer 2 was last told follows from the air, too: the event is of   *)
(* the last complete burst, with the state its timeslot is in because of   *)
(* it: voice if it is of voice, and otherwise no call, but the end of one  *)
(* if the burst before it on the timeslot was of voice.                    *)
EventTellsTheAir ==
  LET n == burst_count
      ended == n > 2 /\ OnAir(n - 2) \in Slot!Voice
  IN  n > 0 =>
        event = [timeslot    |-> IF n % 2 = 0 THEN 2 ELSE 1,
                 type        |-> OnAir(n),
                 state       |-> IF OnAir(n) \in Slot!Voice THEN "VOICE"
                                 ELSE IF ended THEN "IDLE" ELSE "DATA",
                 burst_count |-> (n + 1) \div 2]
=============================================================================
