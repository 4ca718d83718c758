---------------------------- MODULE SlotManager ----------------------------
(***************************************************************************)
(* SlotManager of slot_manager.h/.cpp: the state machine of each of the    *)
(* two timeslots of a channel, stepped once per burst.                     *)
(*                                                                         *)
(* missed[ts] counts the bursts in a row that should have come on a        *)
(* timeslot and did not; on_burst() does not know of them, slot_manager.h's *)
(* state diagram does.                                                     *)
(***************************************************************************)
EXTENDS Integers, Sequences

CONSTANTS
  MaxSlotBursts,    \* bound: bursts per timeslot
  MaxMissed         \* bound: missed bursts in a row

ASSUME SlotConstants == MaxSlotBursts \in Nat /\ MaxMissed \in Nat

VARIABLES
  slots,       \* slots_, indexed by timeslot
  event,       \* the SlotEvent given to the Layer 2 callback last
  heard,       \* history: the types of the bursts of each timeslot
  missed       \* history: bursts missed in a row, per timeslot

slotVars == <<slots, event, heard, missed>>

Timeslots == {1, 2}
Voice == {"BS_VOICE", "MS_VOICE"}
Data  == {"BS_DATA", "MS_DATA"}

SlotInit ==
  /\ slots = [ts \in Timeslots |-> [state |-> "IDLE", count |-> 0, miss_count |-> 0]]
  /\ event = [timeslot |-> 0, type |-> "UNKNOWN", state |-> "IDLE", burst_count |-> 0]
  /\ heard = [ts \in Timeslots |-> <<>>]
  /\ missed = [ts \in Timeslots |-> 0]

-----------------------------------------------------------------------------
(* The transition taken for a burst of a type. *)
NextStateSticky(state, type) ==      \* mutant: data does not end a voice call
  IF type \in Voice THEN "VOICE"
  ELSE IF type \in Data /\ state = "IDLE" THEN "DATA"
  ELSE state
NextState(state, type) ==
  CASE type \in Voice                     -> "VOICE"
    [] type \in Data /\ state = "VOICE"   -> "IDLE"
    [] type \in Data /\ state # "VOICE"   -> "DATA"
    [] OTHER                              -> state

advance_state_down(ctx, type) ==     \* mutant: misses are counted down
  [ctx EXCEPT !.miss_count = @ - 1, !.state = NextState(ctx.state, type)]
advance_state(ctx, type) ==
  [ctx EXCEPT !.miss_count = 0, !.state = NextState(ctx.state, type)]

(* The timeslot a burst is booked on: 2 is the second, all else the first. *)
SlotOfFirst(timeslot) == 1           \* mutant: everything is booked on TS1
SlotOf(timeslot) == IF timeslot = 2 THEN 2 ELSE 1

on_burst_early(timeslot, type) ==    \* mutant: the event before the transition
  LET ts    == SlotOf(timeslot)
      after == advance_state([slots[ts] EXCEPT !.count = @ + 1], type)
  IN  /\ slots' = [slots EXCEPT ![ts] = after]
      /\ event' = [timeslot |-> timeslot, type |-> type, state |-> slots[ts].state,
                   burst_count |-> after.count]
      /\ heard' = [heard EXCEPT ![timeslot] = Append(@, type)]
      /\ missed' = [missed EXCEPT ![timeslot] = 0]
on_burst(timeslot, type) ==
  LET ts    == SlotOf(timeslot)
      after == advance_state([slots[ts] EXCEPT !.count = @ + 1], type)
  IN  /\ slots' = [slots EXCEPT ![ts] = after]
      /\ event' = [timeslot |-> timeslot, type |-> type, state |-> after.state,
                   burst_count |-> after.count]
      /\ heard' = [heard EXCEPT ![timeslot] = Append(@, type)]
      /\ missed' = [missed EXCEPT ![timeslot] = 0]

(* A burst arrives on a timeslot ... *)
Burst(timeslot, type) ==
  /\ Len(heard[timeslot]) < MaxSlotBursts
  /\ on_burst(timeslot, type)

(* ... or its time passes without one: SlotManager is not told. *)
BurstMissed(timeslot) ==
  /\ missed[timeslot] < MaxMissed
  /\ missed' = [missed EXCEPT ![timeslot] = @ + 1]
  /\ UNCHANGED <<slots, event, heard>>

SlotNext ==
  \E timeslot \in Timeslots :
    \/ \E type \in Voice \cup Data : Burst(timeslot, type)
    \/ BurstMissed(timeslot)

SlotSpec == SlotInit /\ [][SlotNext]_slotVars

-----------------------------------------------------------------------------
SlotTypeOK ==
  /\ slots \in [Timeslots -> [state : {"IDLE", "VOICE", "DATA"}, count : Nat,
                              miss_count : Nat]]
  /\ event.state \in {"IDLE", "VOICE", "DATA"} /\ event.burst_count \in Nat
  /\ heard \in [Timeslots -> Seq(Voice \cup Data)]
  /\ missed \in [Timeslots -> Nat]

(* How many bursts ago a timeslot last heard voice: 0 is the last burst,   *)
(* and the number of bursts if it never has.                               *)
SinceVoice(ts) ==
  LET h == heard[ts]
      n == Len(h)
  IN  CHOOSE k \in 0..n :
        /\ k < n => h[n - k] \in Voice
        /\ \A j \in 0..(k - 1) : h[n - j] \notin Voice

(* What slot_state() shows, in terms of everything heard on the timeslot:  *)
(* a voice call as long as voice was heard last, silence before the first  *)
(* burst and after the single data burst that ends a call, data after any  *)
(* other data burst; in particular for ever after a second terminator.     *)
StateFromHistory ==
  \A ts \in Timeslots :
    LET n == Len(heard[ts])
        k == SinceVoice(ts)
    IN  slots[ts].state = IF n = 0 THEN "IDLE"
                          ELSE IF k = 0 THEN "VOICE"
                          ELSE IF k = 1 /\ k < n THEN "IDLE"
                          ELSE "DATA"

(* slot_manager.h:22, "Any --(timeout: 4+ missed)--> IDLE". *)
SilenceEndsTheCall ==
  \A ts \in Timeslots : missed[ts] >= 4 => slots[ts].state = "IDLE"
=============================================================================
