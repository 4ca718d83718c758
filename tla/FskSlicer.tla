----------------------------- MODULE FskSlicer -----------------------------
(***************************************************************************)
(* FskSlicer of fsk_slicer.h/.cpp.  Levels are integers.  The moving       *)
(* average rounds down; all that matters here is that it moves towards the *)
(* symbol and not past it.                                                 *)
(***************************************************************************)
EXTENDS Integers

CONSTANTS
  init_outer,     \* of FskSlicer::Config; outer_thresh is its 0.6
  EmaInverse,     \* 1 / ema_alpha (100)
  Amplitudes      \* levels of the inner symbols a transmission may have

ASSUME SlicerConstants ==
  /\ init_outer \in Nat \ {0} /\ EmaInverse \in Nat \ {0}
  /\ Amplitudes \subseteq Nat \ {0}

VARIABLES
  pos_peak, neg_peak,    \* the members
  dibit,                 \* the last one given to the callback
  amplitude              \* of the transmission now received

slicerVars == <<pos_peak, neg_peak, dibit, amplitude>>

SlicerInit ==
  /\ pos_peak = init_outer /\ neg_peak = -init_outer
  /\ dibit = 0 /\ amplitude \in Amplitudes

(* A transmission of another strength. *)
Fade(a) ==
  /\ amplitude' = a
  /\ UNCHANGED <<pos_peak, neg_peak, dibit>>

-----------------------------------------------------------------------------
Ema(peak, v) == peak + (v - peak) \div EmaInverse

(* |v| > 0.6 * peak, on either side. *)
OuterAny(v, peak) == v > 0                \* mutant: the factor 0.6 is lost
Outer(v, peak) == 5 * v > 3 * peak

Decision(v, pos, neg) ==
  IF 2 * v >= pos THEN 1 ELSE IF v >= 0 THEN 0 ELSE IF 2 * v >= neg THEN 2 ELSE 3

decide(v) ==
  /\ pos_peak' = IF Outer(v, pos_peak) THEN Ema(pos_peak, v) ELSE pos_peak
  /\ neg_peak' = IF ~Outer(v, pos_peak) /\ Outer(-v, -neg_peak)
                   THEN Ema(neg_peak, v) ELSE neg_peak
  /\ dibit' = Decision(v, pos_peak', neg_peak')
  /\ UNCHANGED amplitude

-----------------------------------------------------------------------------
SlicerTypeOK ==
  /\ pos_peak \in Int /\ neg_peak \in Int /\ dibit \in 0..3
  /\ amplitude \in Amplitudes

(* The symbol values of a transmission, for dibits 01, 00, 10 and 11.      *)
LevelOf(d, a) == CASE d = 1 -> 3 * a [] d = 0 -> a [] d = 2 -> -a [] d = 3 -> -3 * a

(* The outer thresholds, half the peaks, lie between the levels.           *)
Locked ==
  /\ 2 * LevelOf(0, amplitude) < pos_peak /\ pos_peak <= 2 * LevelOf(1, amplitude)
  /\ 2 * LevelOf(3, amplitude) < neg_peak /\ neg_peak <= 2 * LevelOf(2, amplitude)

(* Adapting never spoils a good decision: while a transmission lasts whose *)
(* levels the thresholds separate, they go on separating them, whatever is *)
(* sent, and every dibit that comes out is the one sent.                   *)
OnceLockedAlwaysRight ==
  [][amplitude' = amplitude /\ Locked =>
       /\ Locked'
       /\ \A d \in 0..3 : decide(LevelOf(d, amplitude)) => dibit' = d]_slicerVars
=============================================================================
