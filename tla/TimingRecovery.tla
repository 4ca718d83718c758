--------------------------- MODULE TimingRecovery ---------------------------
(***************************************************************************)
(* TimingRecovery of timing_recovery.h/.cpp: what process() does with one  *)
(* sample.  Times are integers, U to a sample, so that the model says      *)
(* exactly which instant each float stands for; rounding is left out.  A   *)
(* sample is its number in the stream of the discriminator, 1 being the    *)
(* first, and 0 what the history starts with.                              *)
(***************************************************************************)
EXTENDS Integers

CONSTANTS
  U,                                   \* units of time per sample
  nominal_sps, omega_min, omega_max,   \* of TimingRecovery::Config, in units
  K1, K2,                              \* gains
  kHistLen                             \* length of the history (8)

ASSUME TimingConstants ==
  /\ U \in Nat \ {0} /\ kHistLen \in Nat
  /\ {nominal_sps, omega_min, omega_max} \subseteq Nat
  /\ U <= omega_min /\ omega_min <= nominal_sps /\ nominal_sps <= omega_max
  /\ K1 \in Int /\ K2 \in Int
  /\ omega_max <= 2 * U * (kHistLen - 2)   \* "enough", timing_recovery.h:85

VARIABLES
  mu, omega, v_p, prev_sym, hist, hist_idx, symbol_count,   \* the members
  pushed,      \* history: samples taken
  symbol       \* history: the last symbol

timingVars == <<mu, omega, v_p, prev_sym, hist, hist_idx, symbol_count, pushed,
                symbol>>

(* Instants are counted in half units, since a mid-sample may lie on one. *)
TimingInit ==
  /\ mu = 0 /\ omega = nominal_sps /\ v_p = 0 /\ prev_sym = 0
  /\ hist = [i \in 0..(kHistLen - 1) |-> 0] /\ hist_idx = 0
  /\ symbol_count = 0 /\ pushed = 0
  /\ symbol = [at |-> 0, before |-> 0, period |-> 0,
               curr |-> [x0 |-> 0, x1 |-> -1, f |-> 0],
               mid  |-> [x0 |-> 0, x1 |-> -1, f |-> 0]]

-----------------------------------------------------------------------------
(* interpolate(frac): the two samples it reads, and how far from the newer *)
(* to the older the result lies.  h and i are hist_ and hist_idx_, and     *)
(* frac is in half units.                                                  *)
interpolate_at_idx(h, i, frac) ==       \* mutant: hist_idx_ taken as the newest
  LET idx(offset) == h[(i - offset + 2 * kHistLen) % kHistLen]
      n0 == frac \div (2 * U)
  IN  [x0 |-> idx(n0), x1 |-> idx(n0 + 1), f |-> frac % (2 * U)]
interpolate(h, i, frac) ==
  LET idx(offset) == h[(i - 1 - offset + 2 * kHistLen) % kHistLen]
      n0 == frac \div (2 * U)
  IN  [x0 |-> idx(n0), x1 |-> idx(n0 + 1), f |-> frac % (2 * U)]

clamp_above_only(x) == IF x > omega_max THEN omega_max ELSE x  \* mutant
clamp(x) ==
  IF x < omega_min THEN omega_min ELSE IF x > omega_max THEN omega_max ELSE x

Push(x) ==
  /\ hist' = [hist EXCEPT ![hist_idx] = x]
  /\ hist_idx' = (hist_idx + 1) % kHistLen
  /\ pushed' = pushed + 1

(* A sample between two symbols. *)
NoStrobe(x) ==
  /\ mu + U < omega
  /\ Push(x)
  /\ mu' = mu + U
  /\ UNCHANGED <<omega, v_p, prev_sym, symbol_count, symbol>>

(* A symbol falls between this sample and the one before.  The values that *)
(* the interpolations yield are inputs.                                    *)
StrobeForgetful(x, curr_sym, mid_samp) ==   \* mutant: the phase restarts at 0
  /\ mu + U >= omega
  /\ Push(x)
  /\ mu' = 0
  /\ LET e == mid_samp * (curr_sym - prev_sym)
     IN  v_p' = v_p + K2 * e /\ omega' = clamp(omega + K1 * e + v_p')
  /\ prev_sym' = curr_sym /\ symbol_count' = symbol_count + 1
  /\ symbol' = [at |-> 2 * (U * pushed' - mu'), before |-> symbol.at,
                period |-> omega,
                curr |-> interpolate(hist', hist_idx', 2 * mu'),
                mid  |-> interpolate(hist', hist_idx', 2 * mu' + omega)]
Strobe(x, curr_sym, mid_samp) ==
  /\ mu + U >= omega
  /\ Push(x)
  /\ mu' = mu + U - omega
  /\ LET e == mid_samp * (curr_sym - prev_sym)
     IN  v_p' = v_p + K2 * e /\ omega' = clamp(omega + K1 * e + v_p')
  /\ prev_sym' = curr_sym /\ symbol_count' = symbol_count + 1
  /\ symbol' = [at |-> 2 * (U * pushed' - mu'), before |-> symbol.at,
                period |-> omega,
                curr |-> interpolate(hist', hist_idx', 2 * mu'),
                mid  |-> interpolate(hist', hist_idx', 2 * mu' + omega)]

-----------------------------------------------------------------------------
Reading == [x0 : Nat, x1 : Int, f : 0..(2 * U - 1)]

TimingTypeOK ==
  /\ mu \in 0..omega_max /\ omega \in omega_min..omega_max
  /\ v_p \in Int /\ prev_sym \in Int
  /\ hist \in [0..(kHistLen - 1) -> Nat] /\ hist_idx \in 0..(kHistLen - 1)
  /\ symbol_count \in Nat /\ pushed \in Nat
  /\ symbol \in [at : Int, before : Int, period : Nat, curr : Reading, mid : Reading]

(* The instant a reading interpolates: f/2U of a sample before sample x0.  *)
InstantOf(r) == 2 * U * r.x0 - r.f

(* The eight entries of history are always enough, and its index is right  *)
(* whichever way it wrapped: a symbol and its mid-sample are interpolated  *)
(* between neighbours of the stream, at the instants they stand for.       *)
SymbolsReadTheStream ==
  /\ symbol.curr.x1 = symbol.curr.x0 - 1 /\ InstantOf(symbol.curr) = symbol.at
  /\ symbol.mid.x1 = symbol.mid.x0 - 1
  /\ InstantOf(symbol.mid) = symbol.at - symbol.period

(* x(k), x(k-T/2) and x(k-T) of timing_recovery.h:22: symbols follow each  *)
(* other by exactly the period in force, however the loop has moved it in  *)
(* between, and the mid-sample lies half way between the two symbols.      *)
SymbolsKeepTime ==
  /\ symbol.at - symbol.before = 2 * symbol.period
  /\ symbol_count > 0 => 2 * InstantOf(symbol.mid) = symbol.at + symbol.before
=============================================================================
