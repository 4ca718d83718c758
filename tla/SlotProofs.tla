----------------------------- MODULE SlotProofs -----------------------------
(***************************************************************************)
(* slot_state() of slot_manager.cpp as a function of everything heard on a *)
(* timeslot, for any number of bursts of any types.                        *)
(***************************************************************************)
EXTENDS SlotManager, SequenceTheorems, TLAPS

(* k bursts ago is the last time a history h of n bursts has voice. *)
Since(h, n, k) ==
  /\ k \in 0..n
  /\ k < n => h[n - k] \in Voice
  /\ \A j \in 0..(k - 1) : h[n - j] \notin Voice

(* The state after n bursts, the last voice among them k bursts ago (k =   *)
(* n: none).                                                               *)
StateAfter(n, k) ==
  IF n = 0 THEN "IDLE"
  ELSE IF k = 0 THEN "VOICE"
  ELSE IF k = 1 /\ k < n THEN "IDLE"
  ELSE "DATA"

(* StateFromHistory without CHOOSE. *)
StateSince ==
  \A ts \in Timeslots :
    \E k \in 0..Len(heard[ts]) :
      /\ Since(heard[ts], Len(heard[ts]), k)
      /\ slots[ts].state = StateAfter(Len(heard[ts]), k)

SlotIInv == SlotTypeOK /\ StateSince

(* There is only one such k. *)
LEMMA SinceUnique ==
  ASSUME NEW h, NEW n \in Nat, NEW k \in Nat, NEW m \in Nat,
         Since(h, n, k), Since(h, n, m)
  PROVE  k = m
<1>1. ASSUME NEW a \in Nat, NEW b \in Nat, Since(h, n, a), Since(h, n, b), a < b
      PROVE  FALSE
  <2>1. a < n /\ a \in 0..(b - 1)
    BY <1>1 DEF Since
  <2> QED
    BY <1>1, <2>1 DEF Since
<1> QED
  BY <1>1

(* SinceVoice of the model is that k. *)
LEMMA SinceChosen ==
  ASSUME NEW ts \in Timeslots, SlotTypeOK,
         NEW k \in 0..Len(heard[ts]), Since(heard[ts], Len(heard[ts]), k)
  PROVE  SinceVoice(ts) = k
<1> DEFINE h == heard[ts]
           n == Len(h)
           P(i) == /\ i < n => h[n - i] \in Voice
                   /\ \A j \in 0..(i - 1) : h[n - j] \notin Voice
<1>1. n \in Nat
  BY DEF SlotTypeOK
<1>2. SinceVoice(ts) = CHOOSE i \in 0..n : P(i)
  BY DEF SinceVoice
<1>3. k \in 0..n /\ P(k)
  BY DEF Since
<1>4. SinceVoice(ts) \in 0..n /\ P(SinceVoice(ts))
  <2> HIDE DEF P, n
  <2> QED
    BY <1>2, <1>3
<1>5. Since(h, n, SinceVoice(ts))
  BY <1>4 DEF Since
<1>6. k \in Nat /\ SinceVoice(ts) \in Nat
  BY <1>1, <1>3, <1>4
<1> QED
  BY <1>1, <1>5, <1>6, SinceUnique

(* One more burst. *)
LEMMA SinceAppend ==
  ASSUME NEW h \in Seq(Voice \cup Data), NEW type \in Voice \cup Data,
         NEW k \in 0..Len(h), Since(h, Len(h), k)
  PROVE  LET j == IF type \in Voice THEN 0 ELSE k + 1
         IN  /\ j \in 0..Len(Append(h, type))
             /\ Since(Append(h, type), Len(Append(h, type)), j)
<1> DEFINE g == Append(h, type)
<1>1. PICK n \in Nat : n = Len(h)
  OBVIOUS
<1>2. /\ Len(g) = n + 1 /\ g[n + 1] = type /\ \A i \in 1..n : g[i] = h[i]
  BY <1>1, AppendProperties
<1> HIDE DEF g
<1>3. CASE type \in Voice
  <2>1. 0 \in 0..(n + 1) /\ (n + 1) - 0 = n + 1
    OBVIOUS
  <2>2. Since(g, n + 1, 0)
    BY <1>2, <1>3, <2>1 DEF Since
  <2> QED
    BY <1>2, <1>3, <2>1, <2>2 DEF g
<1>4. CASE type \notin Voice
  <2>1. k + 1 \in 0..(n + 1) /\ k \in 0..n
    BY <1>1
  <2>2. k + 1 < n + 1 => g[n + 1 - (k + 1)] \in Voice
    <3> SUFFICES ASSUME k + 1 < n + 1 PROVE g[n + 1 - (k + 1)] \in Voice
      OBVIOUS
    <3>1. n + 1 - (k + 1) = n - k /\ n - k \in 1..n /\ k < n
      BY <2>1
    <3>2. h[n - k] \in Voice
      BY <1>1, <3>1 DEF Since
    <3> QED
      BY <1>2, <3>1, <3>2
  <2>3. ASSUME NEW j \in 0..k
        PROVE  g[n + 1 - j] \notin Voice
    <3>1. CASE j = 0
      <4>1. n + 1 - j = n + 1
        BY <3>1
      <4> QED
        BY <1>2, <1>4, <4>1
    <3>2. CASE j # 0
      <4>1. n + 1 - j = n - (j - 1) /\ n - (j - 1) \in 1..n /\ j - 1 \in 0..(k - 1)
        BY <2>1, <3>2
      <4>2. h[n - (j - 1)] \notin Voice
        BY <1>1, <4>1 DEF Since
      <4> QED
        BY <1>2, <4>1, <4>2
    <3> QED
      BY <3>1, <3>2
  <2>4. (k + 1) - 1 = k
    BY <2>1
  <2>5. Since(g, n + 1, k + 1)
    BY <2>1, <2>2, <2>3, <2>4 DEF Since
  <2> QED
    BY <1>2, <1>4, <2>1, <2>5 DEF g
<1> QED
  BY <1>3, <1>4

(* on_burst() takes the state of a history to the state of the history     *)
(* with the new burst.                                                     *)
LEMMA StateAppend ==
  ASSUME NEW n \in Nat, NEW k \in 0..n, NEW type \in Voice \cup Data
  PROVE  NextState(StateAfter(n, k), type)
           = StateAfter(n + 1, IF type \in Voice THEN 0 ELSE k + 1)
<1>1. type \in Voice <=> type \notin Data
  BY DEF Voice, Data
<1>2. n + 1 # 0
  OBVIOUS
<1>3. CASE type \in Voice
  <2>1. NextState(StateAfter(n, k), type) = "VOICE"
    BY <1>1, <1>3 DEF NextState
  <2>2. StateAfter(n + 1, 0) = "VOICE"
    BY <1>2 DEF StateAfter
  <2> QED
    BY <1>3, <2>1, <2>2
<1>4. CASE type \in Data
  <2>1. NextState(StateAfter(n, k), type)
          = IF StateAfter(n, k) = "VOICE" THEN "IDLE" ELSE "DATA"
    BY <1>1, <1>4 DEF NextState
  <2>2. StateAfter(n, k) = "VOICE" <=> n # 0 /\ k = 0
    BY DEF StateAfter
  <2>3. StateAfter(n + 1, k + 1) = IF k + 1 = 1 /\ k + 1 < n + 1 THEN "IDLE" ELSE "DATA"
    <3>1. k + 1 # 0
      OBVIOUS
    <3> QED
      BY <1>2, <3>1 DEF StateAfter
  <2>4. k + 1 = 1 /\ k + 1 < n + 1 <=> n # 0 /\ k = 0
    OBVIOUS
  <2> QED
    BY <1>1, <1>4, <2>1, <2>2, <2>3, <2>4
<1> QED
  BY <1>1, <1>3, <1>4

(* Both timeslots are IDLE at first and have heard nothing. *)
LEMMA SlotInitIInv ==
  ASSUME SlotInit
  PROVE  SlotIInv
<1>1. SlotTypeOK
  BY DEF SlotInit, SlotTypeOK
<1>2. StateSince
  <2> SUFFICES ASSUME NEW ts \in Timeslots
               PROVE  \E k \in 0..Len(heard[ts]) :
                        /\ Since(heard[ts], Len(heard[ts]), k)
                        /\ slots[ts].state = StateAfter(Len(heard[ts]), k)
    BY DEF StateSince
  <2>1. Len(heard[ts]) = 0 /\ slots[ts].state = "IDLE"
    BY DEF SlotInit
  <2>2. Since(heard[ts], 0, 0) /\ 0 \in 0..0 /\ StateAfter(0, 0) = "IDLE"
    BY DEF Since, StateAfter
  <2> QED
    BY <2>1, <2>2
<1> QED
  BY <1>1, <1>2 DEF SlotIInv

(* on_burst(), for a timeslot that BurstSync gives. *)
LEMMA OnBurstStep ==
  ASSUME SlotIInv, NEW timeslot \in Timeslots, NEW type \in Voice \cup Data,
         on_burst(timeslot, type)
  PROVE  SlotIInv'
<1>1. SlotOf(timeslot) = timeslot
  BY DEF SlotOf, Timeslots
<1> DEFINE old   == slots[timeslot]
           state == NextState(old.state, type)
           more  == [old EXCEPT !.count = @ + 1]
           after == [more EXCEPT !.miss_count = 0, !.state = state]
<1>2. /\ old \in [state : {"IDLE", "VOICE", "DATA"}, count : Nat, miss_count : Nat]
      /\ slots \in [Timeslots -> [state : {"IDLE", "VOICE", "DATA"}, count : Nat,
                                  miss_count : Nat]]
      /\ heard \in [Timeslots -> Seq(Voice \cup Data)]
      /\ missed \in [Timeslots -> Nat]
  BY DEF SlotIInv, SlotTypeOK
<1>3. state \in {"IDLE", "VOICE", "DATA"}
  BY <1>2 DEF NextState, Voice, Data
<1>4. /\ slots' = [slots EXCEPT ![timeslot] = after]
      /\ event'.state = after.state /\ event'.burst_count = after.count
      /\ heard' = [heard EXCEPT ![timeslot] = Append(@, type)]
      /\ missed' = [missed EXCEPT ![timeslot] = 0]
  BY <1>1, <1>2 DEF on_burst, advance_state
<1>5. /\ after \in [state : {"IDLE", "VOICE", "DATA"}, count : Nat, miss_count : Nat]
      /\ after.state = state
  <2> HIDE DEF old, state
  <2>1. more \in [state : {"IDLE", "VOICE", "DATA"}, count : Nat, miss_count : Nat]
    <3>1. old \in [state : {"IDLE", "VOICE", "DATA"}, count : Nat, miss_count : Nat]
      BY <1>2
    <3> QED
      BY <3>1
  <2> HIDE DEF more
  <2> QED
    BY <1>3, <2>1
<1> HIDE DEF after, state
<1>6. SlotTypeOK'
  <2>1. Append(heard[timeslot], type) \in Seq(Voice \cup Data)
    BY <1>2, AppendProperties
  <2>2. after.state \in {"IDLE", "VOICE", "DATA"} /\ after.count \in Nat
    BY <1>5
  <2> QED
    BY <1>2, <1>4, <1>5, <2>1, <2>2 DEF SlotTypeOK
<1>7. StateSince'
  <2> SUFFICES ASSUME NEW ts \in Timeslots
               PROVE  \E k \in 0..Len(heard'[ts]) :
                        /\ Since(heard'[ts], Len(heard'[ts]), k)
                        /\ slots'[ts].state = StateAfter(Len(heard'[ts]), k)
    BY DEF StateSince
  <2>1. PICK k \in 0..Len(heard[ts]) :
          /\ Since(heard[ts], Len(heard[ts]), k)
          /\ slots[ts].state = StateAfter(Len(heard[ts]), k)
    BY DEF SlotIInv, StateSince
  <2>2. CASE ts # timeslot
    <3>1. heard'[ts] = heard[ts] /\ slots'[ts] = slots[ts]
      BY <1>2, <1>4, <2>2
    <3> QED
      BY <2>1, <3>1
  <2>3. CASE ts = timeslot
    <3>1. heard'[ts] = Append(heard[ts], type) /\ slots'[ts].state = state
      BY <1>2, <1>4, <1>5, <2>3
    <3>2. PICK n \in Nat : n = Len(heard[ts])
      BY <1>2
    <3>3. heard[ts] \in Seq(Voice \cup Data) /\ Len(heard'[ts]) = n + 1
      BY <1>2, <3>1, <3>2, AppendProperties
    <3> DEFINE j == IF type \in Voice THEN 0 ELSE k + 1
    <3>4. /\ j \in 0..Len(heard'[ts])
          /\ Since(heard'[ts], Len(heard'[ts]), j)
      BY <2>1, <3>1, <3>3, SinceAppend
    <3>5. state = StateAfter(n + 1, j)
      BY <2>1, <2>3, <3>2, StateAppend DEF state
    <3> QED
      BY <3>1, <3>3, <3>4, <3>5
  <2> QED
    BY <2>2, <2>3
<1> QED
  BY <1>6, <1>7 DEF SlotIInv

(* Every burst, and every burst missed, keeps the invariant. *)
LEMMA SlotNextIInv == SlotIInv /\ [SlotNext]_slotVars => SlotIInv'
<1> SUFFICES ASSUME SlotIInv, [SlotNext]_slotVars PROVE SlotIInv'
  OBVIOUS
<1>1. ASSUME NEW timeslot \in Timeslots, NEW type \in Voice \cup Data,
             Burst(timeslot, type)
      PROVE  SlotIInv'
  BY <1>1, OnBurstStep DEF Burst
<1>2. ASSUME NEW timeslot \in Timeslots, BurstMissed(timeslot)
      PROVE  SlotIInv'
  BY <1>2 DEF BurstMissed, SlotIInv, SlotTypeOK, StateSince
<1>3. CASE UNCHANGED slotVars
  BY <1>3 DEF slotVars, SlotIInv, SlotTypeOK, StateSince
<1> QED
  BY <1>1, <1>2, <1>3 DEF SlotNext

-----------------------------------------------------------------------------
(* Main results. *)

(* The invariant: each state belongs to the time since the last voice.     *)
THEOREM SlotInvariance == SlotSpec => []SlotIInv
<1>1. SlotInit => SlotIInv
  BY SlotInitIInv
<1> QED
  BY <1>1, SlotNextIInv, PTL DEF SlotSpec

(* The variables keep their types. *)
THEOREM SlotTypeCorrect == SlotSpec => []SlotTypeOK
<1>1. SlotIInv => SlotTypeOK
  BY DEF SlotIInv
<1> QED
  BY <1>1, SlotInvariance, PTL

(* slot_state() is determined by what was heard: a call while voice was    *)
(* heard last, silence at first and after the one data burst that ends a   *)
(* call, data after any other.                                             *)
THEOREM StateIsHistory == SlotSpec => []StateFromHistory
<1>1. SlotIInv => StateFromHistory
  <2> SUFFICES ASSUME SlotIInv, NEW ts \in Timeslots
               PROVE  slots[ts].state = StateAfter(Len(heard[ts]), SinceVoice(ts))
    BY DEF StateFromHistory, StateAfter
  <2>1. PICK k \in 0..Len(heard[ts]) :
          /\ Since(heard[ts], Len(heard[ts]), k)
          /\ slots[ts].state = StateAfter(Len(heard[ts]), k)
    BY DEF SlotIInv, StateSince
  <2>2. SinceVoice(ts) = k
    BY <2>1, SinceChosen DEF SlotIInv
  <2> QED
    BY <2>1, <2>2
<1> QED
  BY <1>1, SlotInvariance, PTL
=============================================================================
