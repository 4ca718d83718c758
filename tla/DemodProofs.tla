----------------------------- MODULE DemodProofs -----------------------------
(***************************************************************************)
(* The demodulator chain of demod_chain.cpp for every filter length,       *)
(* decimation, symbol period, clamp, gain, history length, block size and  *)
(* signal strength: the slicer keeps its lock, the borders of blocks leave *)
(* no trace, and symbols are read at the instants they stand for.          *)
(***************************************************************************)
EXTENDS DemodChain, ModArith, SequenceTheorems, TLAPS

-----------------------------------------------------------------------------
(* The slicer. *)

(* Division that rounds down moves a number towards zero, never past it.   *)
LEMMA FloorBounds ==
  ASSUME NEW n \in Nat \ {0}, NEW x \in Int
  PROVE  /\ x \div n \in Int
         /\ x >= 0 => 0 <= x \div n /\ x \div n <= x
         /\ x <= 0 => x <= x \div n /\ x \div n <= 0
<1> DEFINE q == x \div n
           r == x % n
<1>1. q \in Int /\ r \in 0..(n - 1) /\ x = n * q + r
  BY DivMod
<1> HIDE DEF q, r
<1>2. CASE q = 0
  BY <1>1, <1>2 DEF q
<1>3. CASE q >= 1
  <2>1. PICK m \in Nat : q = m + 1
    BY <1>1, <1>3
  <2>2. n * q = n * m + n /\ n * m \in Nat /\ n * m >= m
    BY <2>1, SMT
  <2> QED
    BY <1>1, <2>1, <2>2 DEF q
<1>4. CASE q <= -1
  <2>1. PICK m \in Nat : q = -m - 1
    <3>1. -q - 1 \in Nat /\ q = -(-q - 1) - 1
      BY <1>1, <1>4
    <3> QED
      BY <3>1
  <2>2. n * q = -(n * m) - n /\ n * m \in Nat /\ n * m >= m
    BY <2>1, SMT
  <2> QED
    BY <1>1, <2>1, <2>2 DEF q
<1> QED
  BY <1>1, <1>2, <1>3, <1>4

(* The moving average stays between the old peak and the symbol. *)
LEMMA EmaBetween ==
  ASSUME NEW p \in Int, NEW v \in Int
  PROVE  /\ Ema(p, v) \in Int
         /\ v >= p => p <= Ema(p, v) /\ Ema(p, v) <= v
         /\ v <= p => v <= Ema(p, v) /\ Ema(p, v) <= p
<1>1. PICK x \in Int : x = v - p
  OBVIOUS
<1>2. PICK s : s = x \div EmaInverse
  OBVIOUS
<1>3. /\ s \in Int
      /\ x >= 0 => 0 <= s /\ s <= x
      /\ x <= 0 => x <= s /\ s <= 0
  BY <1>1, <1>2, FloorBounds, SlicerConstants DEF SlicerConstants
<1>4. Ema(p, v) = p + s
  BY <1>1, <1>2 DEF Ema
<1> QED
  BY <1>1, <1>3, <1>4

(* decide() keeps the peaks and the dibit in their types. *)
LEMMA DecideType ==
  ASSUME SlicerTypeOK, NEW v \in Int, decide(v)
  PROVE  SlicerTypeOK'
<1>1. Ema(pos_peak, v) \in Int /\ Ema(neg_peak, v) \in Int
  BY EmaBetween DEF SlicerTypeOK
<1>2. pos_peak' \in Int /\ neg_peak' \in Int
  BY <1>1 DEF decide, SlicerTypeOK
<1>3. dibit' \in 0..3
  BY DEF decide, Decision
<1> QED
  BY <1>2, <1>3 DEF decide, SlicerTypeOK

(* A symbol of the transmission the slicer is locked to is decided right,  *)
(* and leaves the slicer locked.                                           *)
LEMMA DecideRight ==
  ASSUME SlicerTypeOK, Locked, NEW d \in 0..3, decide(LevelOf(d, amplitude))
  PROVE  Locked' /\ dibit' = d
<1>1. PICK a \in Nat \ {0} : a = amplitude
  BY SlicerConstants DEF SlicerConstants, SlicerTypeOK
<1>2. PICK p \in Int, m \in Int : p = pos_peak /\ m = neg_peak
  BY DEF SlicerTypeOK
<1>3. 2 * a < p /\ p <= 6 * a /\ -6 * a < m /\ m <= -2 * a
  BY <1>1, <1>2 DEF Locked, LevelOf
<1>4. amplitude' = a
  BY <1>1 DEF decide
<1> DEFINE good == /\ 2 * a < pos_peak' /\ pos_peak' <= 6 * a
                   /\ -6 * a < neg_peak' /\ neg_peak' <= -2 * a
<1>5. good => Locked'
  BY <1>4 DEF Locked, LevelOf
<1>6. CASE d = 1
  <2>1. LevelOf(d, amplitude) = 3 * a
    BY <1>1, <1>6 DEF LevelOf
  <2>2. PICK e \in Int : e = Ema(p, 3 * a)
    BY EmaBetween
  <2>3. 2 * a < e /\ e <= 6 * a
    <3>1. PICK v \in Int : v = 3 * a
      OBVIOUS
    <3>2. v >= p => p <= e /\ e <= v
      BY <2>2, <3>1, EmaBetween
    <3>3. v <= p => v <= e /\ e <= p
      BY <2>2, <3>1, EmaBetween
    <3> QED
      BY <1>3, <3>1, <3>2, <3>3
  <2>4. /\ pos_peak' = IF 15 * a > 3 * p THEN e ELSE p
        /\ neg_peak' = m
        /\ dibit' = Decision(3 * a, pos_peak', neg_peak')
    <3>1. Outer(3 * a, p) <=> 15 * a > 3 * p
      BY DEF Outer
    <3>2. ~Outer(-(3 * a), -m)
      BY <1>3 DEF Outer
    <3> QED
      BY <1>2, <2>1, <2>2, <3>1, <3>2 DEF decide
  <2>5. good
    BY <1>3, <2>3, <2>4
  <2>6. dibit' = 1
    BY <2>4, <2>5 DEF Decision
  <2> QED
    BY <1>5, <1>6, <2>5, <2>6
<1>7. CASE d = 0 \/ d = 2
  <2>1. PICK v \in Int : v = LevelOf(d, amplitude) /\ v = IF d = 0 THEN a ELSE -a
    BY <1>1, <1>7 DEF LevelOf
  <2>2. ~Outer(v, p) /\ ~Outer(-v, -m)
    BY <1>3, <2>1 DEF Outer
  <2>3. pos_peak' = p /\ neg_peak' = m /\ dibit' = Decision(v, p, m)
    BY <1>2, <2>1, <2>2 DEF decide
  <2>4. dibit' = d
    BY <1>3, <1>7, <2>1, <2>3 DEF Decision
  <2> QED
    BY <1>3, <1>5, <2>3, <2>4
<1>8. CASE d = 3
  <2>1. LevelOf(d, amplitude) = -3 * a
    BY <1>1, <1>8 DEF LevelOf
  <2>2. PICK e \in Int : e = Ema(m, -3 * a)
    BY EmaBetween
  <2>3. -6 * a < e /\ e <= -2 * a
    <3>1. PICK v \in Int : v = -3 * a
      OBVIOUS
    <3>2. v >= m => m <= e /\ e <= v
      BY <2>2, <3>1, EmaBetween
    <3>3. v <= m => v <= e /\ e <= m
      BY <2>2, <3>1, EmaBetween
    <3> QED
      BY <1>3, <3>1, <3>2, <3>3
  <2>4. /\ pos_peak' = p
        /\ neg_peak' = e \/ neg_peak' = m
        /\ dibit' = Decision(-3 * a, pos_peak', neg_peak')
    <3>1. ~Outer(-3 * a, p)
      BY <1>3 DEF Outer
    <3> QED
      BY <1>2, <2>1, <2>2, <3>1 DEF decide
  <2>5. good
    BY <1>3, <2>3, <2>4
  <2>6. dibit' = 3
    BY <2>4, <2>5 DEF Decision
  <2> QED
    BY <1>5, <1>8, <2>5, <2>6
<1> QED
  BY <1>6, <1>7, <1>8

(* Only a symbol or another transmission reaches the slicer. *)
LEMMA SlicerSteps ==
  ASSUME [ChainNext]_chainVars
  PROVE  \/ UNCHANGED slicerVars
         \/ \E d \in 0..3 : decide(LevelOf(d, amplitude))
         \/ \E a \in Amplitudes : Fade(a)
  BY DEF ChainNext, chainVars, Call, Filter, NothingFiltered, Discriminate, Time,
    Return, NewTransmission

(* Every step of the chain does. *)
LEMMA SlicerTypeStep ==
  ASSUME SlicerTypeOK, [ChainNext]_chainVars
  PROVE  SlicerTypeOK'
<1>1. CASE UNCHANGED slicerVars
  BY <1>1 DEF slicerVars, SlicerTypeOK
<1>2. ASSUME NEW d \in 0..3, decide(LevelOf(d, amplitude))
      PROVE  SlicerTypeOK'
  <2>1. LevelOf(d, amplitude) \in Int
    BY SlicerConstants DEF SlicerConstants, LevelOf, SlicerTypeOK
  <2> QED
    BY <1>2, <2>1, DecideType
<1>3. ASSUME NEW a \in Amplitudes, Fade(a)
      PROVE  SlicerTypeOK'
  BY <1>3 DEF Fade, SlicerTypeOK
<1> QED
  BY <1>1, <1>2, <1>3, SlicerSteps

(* A slicer just constructed has peaks in their types. *)
LEMMA SlicerTypeInit ==
  ASSUME SlicerInit
  PROVE  SlicerTypeOK
BY SlicerConstants DEF SlicerConstants, SlicerInit, SlicerTypeOK

(* Adapting the peaks never costs a lock: whatever is sent, at whatever    *)
(* strength, and however slowly the average moves.                         *)
THEOREM LockHolds == ChainSpec => OnceLockedAlwaysRight
<1> DEFINE Right ==
      amplitude' = amplitude /\ Locked =>
        /\ Locked'
        /\ \A d \in 0..3 : decide(LevelOf(d, amplitude)) => dibit' = d
<1>1. SlicerTypeOK /\ [ChainNext]_chainVars => [Right]_slicerVars
  <2> SUFFICES ASSUME SlicerTypeOK, [ChainNext]_chainVars,
                      ~UNCHANGED slicerVars, amplitude' = amplitude, Locked
               PROVE  /\ Locked'
                      /\ \A d \in 0..3 :
                           decide(LevelOf(d, amplitude)) => dibit' = d
    OBVIOUS
  <2>1. ~\E a \in Amplitudes : Fade(a)
    BY DEF Fade, slicerVars
  <2>2. \E d \in 0..3 : decide(LevelOf(d, amplitude))
    BY <2>1, SlicerSteps
  <2> QED
    BY <2>2, DecideRight
<1>2. ChainInit => SlicerTypeOK
  BY SlicerTypeInit DEF ChainInit
<1>3. SlicerTypeOK /\ [ChainNext]_chainVars => SlicerTypeOK'
  BY SlicerTypeStep
<1> QED
  BY <1>1, <1>2, <1>3, PTL DEF ChainSpec, OnceLockedAlwaysRight

-----------------------------------------------------------------------------
(* Timing recovery. *)

(* The history holds the last samples of the stream, each at the place its *)
(* number gives it.                                                        *)
HistoryHolds ==
  /\ hist_idx = pushed % kHistLen
  /\ \A i \in (pushed - kHistLen + 1)..pushed :
       hist[(i - 1) % kHistLen] = IF i > 0 THEN i ELSE 0

(* The last symbol lies mu before the last sample, and the symbols fill    *)
(* the stream up to there.                                                 *)
SymbolsFill ==
  /\ mu < omega
  /\ symbol.at = 2 * (U * pushed - mu)
  /\ symbol_count * omega_min <= U * pushed - mu
  /\ U * pushed - mu <= symbol_count * omega_max

(* The history is the stream, the symbols fill it, and each was read where *)
(* it should be.                                                           *)
TimingIInv ==
  /\ TimingTypeOK
  /\ HistoryHolds
  /\ SymbolsFill
  /\ SymbolsReadTheStream
  /\ symbol.at - symbol.before = 2 * symbol.period

(* The assumptions about the constants of timing_recovery.h, for the       *)
(* provers.                                                                *)
LEMMA TimingBounds ==
  /\ U \in Nat \ {0} /\ kHistLen \in Nat \ {0} /\ kHistLen >= 3
  /\ omega_min \in Nat /\ omega_max \in Nat /\ nominal_sps \in Nat
  /\ K1 \in Int /\ K2 \in Int
  /\ U <= omega_min /\ omega_min <= nominal_sps /\ nominal_sps <= omega_max
  /\ omega_max <= 2 * (U * (kHistLen - 2))
<1>1. /\ U \in Nat \ {0} /\ kHistLen \in Nat
      /\ omega_min \in Nat /\ omega_max \in Nat /\ nominal_sps \in Nat
      /\ K1 \in Int /\ K2 \in Int
      /\ U <= omega_min /\ omega_min <= nominal_sps /\ nominal_sps <= omega_max
      /\ omega_max <= 2 * U * (kHistLen - 2)
  BY TimingConstants DEF TimingConstants
<1>2. 2 * U * (kHistLen - 2) = 2 * (U * (kHistLen - 2))
  BY <1>1, SMT
<1>3. kHistLen >= 3
  <2> SUFFICES ASSUME kHistLen < 3 PROVE FALSE
    BY <1>1
  <2>1. PICK m \in Nat : kHistLen - 2 = -m
    <3>1. 2 - kHistLen \in Nat /\ kHistLen - 2 = -(2 - kHistLen)
      BY <1>1
    <3> QED
      BY <3>1
  <2>2. U * (kHistLen - 2) = -(U * m) /\ U * m \in Nat
    BY <1>1, <2>1, SMT
  <2> QED
    BY <1>1, <1>2, <2>2
<1> QED
  BY <1>1, <1>2, <1>3

(* The history holds at least three samples. *)
LEMMA HistLenBounds == kHistLen \in Nat \ {0} /\ kHistLen >= 3
BY TimingBounds

(* A timing loop just constructed satisfies its invariant. *)
LEMMA TimingInitIInv ==
  ASSUME TimingInit
  PROVE  TimingIInv
<1> USE TimingBounds
<1>1. TimingTypeOK
  BY DEF TimingInit, TimingTypeOK, Reading
<1>2. HistoryHolds
  <2>1. 0 % kHistLen = 0
    BY ModSmall
  <2>2. ASSUME NEW i \in (0 - kHistLen + 1)..0
        PROVE  hist[(i - 1) % kHistLen] = 0
    <3>1. (i - 1) % kHistLen \in 0..(kHistLen - 1)
      BY DivMod
    <3> QED
      BY <3>1 DEF TimingInit
  <2>3. \A i \in (0 - kHistLen + 1)..0 : ~(i > 0)
    OBVIOUS
  <2> QED
    BY <2>1, <2>2, <2>3 DEF TimingInit, HistoryHolds
<1>3. SymbolsFill
  BY DEF TimingInit, SymbolsFill
<1>4. SymbolsReadTheStream
  BY DEF TimingInit, SymbolsReadTheStream, InstantOf
<1>5. symbol.at - symbol.before = 2 * symbol.period
  BY DEF TimingInit
<1> QED
  BY <1>1, <1>2, <1>3, <1>4, <1>5 DEF TimingIInv

(* Pushing the next sample of the stream. *)
LEMMA PushHolds ==
  ASSUME TimingTypeOK, HistoryHolds, Push(pushed + 1)
  PROVE  /\ HistoryHolds' /\ pushed' = pushed + 1
         /\ hist' \in [0..(kHistLen - 1) -> Nat]
         /\ hist_idx' \in 0..(kHistLen - 1)
<1> USE HistLenBounds
<1> DEFINE p == pushed
<1>1. /\ p \in Nat /\ hist \in [0..(kHistLen - 1) -> Nat]
      /\ hist_idx = p % kHistLen /\ hist_idx \in 0..(kHistLen - 1)
  BY DEF TimingTypeOK, HistoryHolds
<1>2. /\ hist' = [hist EXCEPT ![p % kHistLen] = p + 1]
      /\ hist_idx' = ((p % kHistLen) + 1) % kHistLen /\ pushed' = p + 1
  BY <1>1 DEF Push
<1>3. \A i \in (p - kHistLen + 1)..p :
        hist[(i - 1) % kHistLen] = IF i > 0 THEN i ELSE 0
  BY DEF HistoryHolds
<1> HIDE DEF p
<1>i. p \in Int
  BY <1>1
<1>4. ((p % kHistLen) + 1) % kHistLen = (p + 1) % kHistLen
  BY <1>i, ModNext, Zenon
<1>5. ASSUME NEW i \in ((p + 1) - kHistLen + 1)..(p + 1)
      PROVE  hist'[(i - 1) % kHistLen] = IF i > 0 THEN i ELSE 0
  <2>0. i - 1 \in Int
    OBVIOUS
  <2>1. (i - 1) % kHistLen \in 0..(kHistLen - 1)
    BY <2>0, DivMod, Zenon
  <2>2. CASE i = p + 1
    <3>1. i - 1 = p /\ i > 0
      BY <1>1, <2>2
    <3> QED
      BY <1>1, <1>2, <2>1, <2>2, <3>1
  <2>3. CASE i # p + 1
    <3>1. i \in (p - kHistLen + 1)..p /\ i - 1 \in Int
      BY <1>1, <2>3
    <3>2. (i - 1) % kHistLen # p % kHistLen
      <4>1. i - 1 # p /\ i - 1 < p + kHistLen /\ p < (i - 1) + kHistLen
        BY <1>1, <2>3
      <4> QED
        BY <3>1, <4>1, <1>i, ModInjective, Zenon
    <3>3. hist'[(i - 1) % kHistLen] = hist[(i - 1) % kHistLen]
      BY <1>1, <1>2, <2>1, <3>2
    <3> QED
      BY <1>3, <3>1, <3>3
  <2> QED
    BY <2>2, <2>3
<1>6. /\ hist' \in [0..(kHistLen - 1) -> Nat]
      /\ hist_idx' = (p + 1) % kHistLen /\ hist_idx' \in 0..(kHistLen - 1)
  <2>0. p + 1 \in Int
    BY <1>i
  <2>1. (p + 1) % kHistLen \in 0..(kHistLen - 1)
    BY <2>0, DivMod, Zenon
  <2> QED
    BY <1>1, <1>2, <1>4, <2>1
<1>7. HistoryHolds'
  BY <1>2, <1>5, <1>6, Zenon DEF HistoryHolds
<1> QED
  BY <1>2, <1>6, <1>7 DEF p

(* interpolate() over a history that holds the stream: as long as the      *)
(* instant lies at most kHistLen - 1 samples back, and not before the      *)
(* stream, it reads the two neighbours of the instant.                     *)
LEMMA InterpolateReads ==
  ASSUME NEW p \in Nat, NEW h, NEW frac \in Nat,
         frac < 2 * (U * p), frac < 2 * (U * (kHistLen - 1)),
         \A i \in (p - kHistLen + 1)..p :
           h[(i - 1) % kHistLen] = IF i > 0 THEN i ELSE 0
  PROVE  LET r == interpolate(h, p % kHistLen, frac)
         IN  /\ r \in Reading /\ r.x1 = r.x0 - 1
             /\ InstantOf(r) = 2 * (U * p) - frac
<1>u. U \in Nat \ {0}
  BY TimingBounds
<1> USE HistLenBounds
<1>1. PICK c \in Nat \ {0} : c = 2 * U
  BY <1>u
<1>2. PICK n \in Int, f \in 0..(c - 1) :
        f = frac % c /\ n = frac \div c /\ frac = c * n + f
  <2>1. frac \in Int
    OBVIOUS
  <2> QED
    BY <1>1, <2>1, Quotient, ZenonT(40)
<1>3. n \in 0..(p - 1) /\ n <= kHistLen - 2
  <2>1. 2 * (U * p) = c * p /\ 2 * (U * (kHistLen - 1)) = c * (kHistLen - 1)
    BY <1>u, <1>1, SMT
  <2>2. n >= 0
    <3> SUFFICES ASSUME n <= -1 PROVE FALSE
      BY <1>2
    <3>1. c * n <= -c
      BY <1>u, <1>1, <1>2, SMT
    <3> QED
      BY <1>1, <1>2, <3>1
  <2>3. n < p
    <3> SUFFICES ASSUME n >= p PROVE FALSE
      BY <1>2
    <3>1. c * p <= c * n
      BY <1>1, <1>2, TimesMonotonic
    <3> QED
      BY <1>1, <1>2, <2>1, <3>1
  <2>4. n < kHistLen - 1
    <3> SUFFICES ASSUME n >= kHistLen - 1 PROVE FALSE
      BY <1>2
    <3>1. c * (kHistLen - 1) <= c * n
      BY <1>1, <1>2, TimesMonotonic
    <3> QED
      BY <1>1, <1>2, <2>1, <3>1
  <2> QED
    BY <1>2, <2>2, <2>3, <2>4
<1>4. ASSUME NEW k \in {n, n + 1}
      PROVE  h[((p % kHistLen) - 1 - k + 2 * kHistLen) % kHistLen] = p - k
  <2>1. PICK r \in 0..(kHistLen - 1) : r = p % kHistLen
    <3>1. p \in Int
      OBVIOUS
    <3> QED
      BY <3>1, DivMod, Zenon
  <2>2. PICK j \in Int : j = p - k /\ j \in (p - kHistLen + 1)..p /\ j >= 0
    <3>1. p - k \in Int /\ p - k \in (p - kHistLen + 1)..p /\ p - k >= 0
      BY <1>3
    <3> QED
      BY <3>1
  <2>3. PICK m \in Int : m = k + 1 /\ k \in Int
    BY <1>2
  <2>4. r - 1 - k + 2 * kHistLen = r - m + 2 * kHistLen /\ p - m = j - 1
    BY <2>1, <2>2, <2>3
  <2>5. (r - m + 2 * kHistLen) % kHistLen = (p - m) % kHistLen
    <3>1. p \in Int
      OBVIOUS
    <3> QED
      BY <2>1, <2>3, <3>1, ModBack, Zenon
  <2>6. h[(j - 1) % kHistLen] = j
    BY <2>2
  <2> QED
    BY <2>1, <2>2, <2>4, <2>5, <2>6, Zenon
<1>5. interpolate(h, p % kHistLen, frac)
        = [x0 |-> p - n, x1 |-> p - (n + 1), f |-> f]
  BY <1>1, <1>2, <1>4 DEF interpolate
<1>6. 2 * U * (p - n) - f = 2 * (U * p) - frac
  <2>1. 2 * U * (p - n) = 2 * (U * p) - c * n
    <3>1. c * (p - n) = c * p - c * n
      BY <1>2, TimesSum
    <3>2. c * p = 2 * (U * p)
      BY <1>u, <1>1, SMT
    <3> QED
      BY <1>1, <3>1, <3>2
  <2>2. PICK a \in Int, b \in Int : a = 2 * (U * p) /\ b = c * n
    BY <1>u, <1>2
  <2> QED
    BY <1>2, <2>1, <2>2
<1>7. [x0 |-> p - n, x1 |-> p - (n + 1), f |-> f] \in Reading
  <2>1. p - n \in Nat /\ p - (n + 1) \in Int
    BY <1>2, <1>3
  <2>2. f \in 0..(2 * U - 1)
    BY <1>1, <1>2, Zenon
  <2> QED
    BY <2>1, <2>2, Zenon DEF Reading
<1> QED
  BY <1>2, <1>3, <1>5, <1>6, <1>7 DEF InstantOf

(* A sample between two symbols. *)
LEMMA NoStrobeStep ==
  ASSUME TimingIInv, NoStrobe(pushed + 1)
  PROVE  TimingIInv'
<1>1. /\ TimingTypeOK /\ HistoryHolds /\ SymbolsFill /\ SymbolsReadTheStream
      /\ symbol.at - symbol.before = 2 * symbol.period
  BY DEF TimingIInv
<1>2. /\ mu + U < omega /\ mu' = mu + U
      /\ UNCHANGED <<omega, v_p, prev_sym, symbol_count, symbol>>
      /\ Push(pushed + 1)
  BY DEF NoStrobe
<1>3. /\ HistoryHolds' /\ pushed' = pushed + 1
      /\ hist' \in [0..(kHistLen - 1) -> Nat] /\ hist_idx' \in 0..(kHistLen - 1)
  BY <1>1, <1>2, PushHolds
<1>4. U \in Nat /\ omega_max \in Nat /\ omega_min \in Nat
  BY TimingBounds
<1>5. TimingTypeOK'
  <2>1. mu' \in 0..omega_max
    BY <1>1, <1>2, <1>4 DEF TimingTypeOK
  <2>2. pushed' \in Nat
    BY <1>1, <1>3 DEF TimingTypeOK
  <2> QED
    BY <1>1, <1>2, <1>3, <2>1, <2>2, Zenon DEF TimingTypeOK
<1>6. SymbolsFill'
  <2>1. U * pushed' - mu' = U * pushed - mu
    <3>1. pushed \in Int /\ mu \in Int /\ U \in Int /\ 1 \in Int
      BY <1>1, <1>4 DEF TimingTypeOK
    <3>2. U * (pushed + 1) = U * pushed + U * 1 /\ U * pushed \in Int
      BY <3>1, TimesSum
    <3> QED
      BY <1>2, <1>3, <3>1, <3>2
  <2>2. mu' < omega'
    BY <1>2
  <2> QED
    BY <1>1, <1>2, <2>1, <2>2, Zenon DEF SymbolsFill
<1>7. SymbolsReadTheStream'
  BY <1>1, <1>2 DEF SymbolsReadTheStream, InstantOf
<1> QED
  BY <1>1, <1>2, <1>3, <1>5, <1>6, <1>7 DEF TimingIInv

(* The clamp of the period returns a period within it. *)
LEMMA ClampBounds ==
  ASSUME NEW x \in Int
  PROVE  clamp(x) \in omega_min..omega_max
BY TimingBounds DEF clamp

(* A symbol: the new phase is what is left of the last sample, so that the *)
(* newest sample is read for the symbol itself, and the mid-sample, half a *)
(* period earlier, is still in the history.                                *)
LEMMA StrobeStep ==
  ASSUME TimingIInv, NEW curr_sym \in Int, NEW mid_samp \in Int,
         Strobe(pushed + 1, curr_sym, mid_samp)
  PROVE  TimingIInv'
<1>1. /\ TimingTypeOK /\ HistoryHolds /\ SymbolsFill
  BY DEF TimingIInv
<1>2. /\ mu + U >= omega /\ mu' = mu + U - omega
      /\ Push(pushed + 1) /\ symbol_count' = symbol_count + 1
      /\ prev_sym' = curr_sym
      /\ symbol' = [at |-> 2 * (U * pushed' - mu'), before |-> symbol.at,
                    period |-> omega,
                    curr |-> interpolate(hist', hist_idx', 2 * mu'),
                    mid  |-> interpolate(hist', hist_idx', 2 * mu' + omega)]
  BY DEF Strobe
<1>3. /\ HistoryHolds' /\ pushed' = pushed + 1
      /\ hist' \in [0..(kHistLen - 1) -> Nat] /\ hist_idx' \in 0..(kHistLen - 1)
  BY <1>1, <1>2, PushHolds
<1>4. /\ U \in Nat \ {0} /\ omega_max \in Nat /\ omega_min \in Nat
      /\ U <= omega_min /\ kHistLen \in Nat /\ kHistLen >= 3
      /\ K1 \in Int /\ K2 \in Int
  BY TimingBounds
<1>5. /\ mu \in 0..omega_max /\ omega \in omega_min..omega_max /\ mu < omega
      /\ v_p \in Int /\ prev_sym \in Int /\ symbol_count \in Nat /\ pushed \in Nat
  BY <1>1 DEF TimingTypeOK, SymbolsFill
<1>6. v_p' \in Int /\ omega' \in omega_min..omega_max
  <2>1. PICK e \in Int :
          v_p' = v_p + K2 * e /\ omega' = clamp(omega + K1 * e + v_p')
    <3>1. mid_samp * (curr_sym - prev_sym) \in Int
      BY <1>5
    <3> QED
      BY <3>1 DEF Strobe
  <2>2. v_p' \in Int
    BY <1>4, <1>5, <2>1
  <2>3. omega + K1 * e + v_p' \in Int
    BY <1>4, <1>5, <2>2
  <2> QED
    BY <2>1, <2>2, <2>3, ClampBounds
<1>7. mu' \in 0..(U - 1) /\ mu' < omega' /\ mu' \in 0..omega_max
  BY <1>2, <1>4, <1>5, <1>6
<1>8. PICK p \in Nat : p = pushed' /\ p = pushed + 1
  BY <1>3, <1>5
<1>9. PICK m \in 0..(U - 1) : m = mu' /\ m = mu + U - omega
  BY <1>2, <1>7
<1>10. PICK s \in Int : s = U * pushed
  BY <1>4, <1>5
<1>11. U * p = s + U
  <2>1. U \in Int /\ pushed \in Int
    BY <1>4, <1>5
  <2>2. U * (pushed + 1) = U * pushed + U * 1
    BY <2>1, TimesSum
  <2> QED
    BY <1>4, <1>8, <1>10, <2>2
<1>12. mu <= s
  <2>1. symbol_count * omega_min <= s - mu /\ symbol_count * omega_min >= 0
    <3>1. symbol_count * omega_min >= 0
      BY <1>4, <1>5, SMT
    <3> QED
      BY <1>1, <1>10, <3>1 DEF SymbolsFill
  <2>2. PICK t \in Nat : t = symbol_count * omega_min
    <3>1. symbol_count * omega_min \in Nat
      BY <1>4, <1>5, SMT
    <3> QED
      BY <3>1
  <2> QED
    BY <1>5, <1>10, <2>1, <2>2
<1>13. /\ 2 * m \in Nat /\ 2 * m < 2 * (U * p)
       /\ 2 * m + omega \in Nat /\ 2 * m + omega < 2 * (U * p)
  BY <1>4, <1>5, <1>9, <1>10, <1>11, <1>12
<1>14. /\ 2 * m < 2 * (U * (kHistLen - 1))
       /\ 2 * m + omega < 2 * (U * (kHistLen - 1))
  <2>1. PICK w \in Int : w = U * (kHistLen - 2) /\ omega_max <= 2 * w
    <3>1. U * (kHistLen - 2) \in Int
      BY <1>4
    <3> QED
      BY <3>1, TimingBounds
  <2>2. U * (kHistLen - 1) = w + U
    <3>1. U \in Int /\ kHistLen - 2 \in Int /\ 1 \in Int
      BY <1>4
    <3>2. U * ((kHistLen - 2) + 1) = U * (kHistLen - 2) + U * 1
      BY <3>1, TimesSum
    <3>3. (kHistLen - 2) + 1 = kHistLen - 1 /\ U * 1 = U
      BY <1>4
    <3> QED
      BY <2>1, <3>2, <3>3
  <2> QED
    BY <1>4, <1>5, <1>9, <2>1, <2>2
<1>15. hist_idx' = p % kHistLen
       /\ \A i \in (p - kHistLen + 1)..p :
            hist'[(i - 1) % kHistLen] = IF i > 0 THEN i ELSE 0
  BY <1>3, <1>8 DEF HistoryHolds
<1> DEFINE curr == interpolate(hist', hist_idx', 2 * mu')
           mid  == interpolate(hist', hist_idx', 2 * mu' + omega)
<1>16. curr \in Reading /\ curr.x1 = curr.x0 - 1 /\ InstantOf(curr) = 2 * (U * p) - 2 * m
  BY <1>9, <1>13, <1>14, <1>15, InterpolateReads
<1>17. /\ mid \in Reading /\ mid.x1 = mid.x0 - 1
       /\ InstantOf(mid) = 2 * (U * p) - (2 * m + omega)
  BY <1>9, <1>13, <1>14, <1>15, InterpolateReads
<1> HIDE DEF curr, mid
<1>18. symbol' = [at |-> 2 * (U * p - m), before |-> symbol.at, period |-> omega,
                  curr |-> curr, mid |-> mid]
  BY <1>2, <1>8, <1>9 DEF curr, mid
<1>19. symbol.at = 2 * (s - mu)
  BY <1>1, <1>10 DEF SymbolsFill
<1>20. TimingTypeOK'
  <2>1. 2 * (U * p - m) \in Int /\ symbol.at \in Int /\ omega \in Nat
    BY <1>4, <1>5, <1>9, <1>10, <1>11, <1>19
  <2>2. symbol' \in [at : Int, before : Int, period : Nat, curr : Reading,
                     mid : Reading]
    BY <1>16, <1>17, <1>18, <2>1
  <2>3. symbol_count' \in Nat /\ pushed' \in Nat
    BY <1>2, <1>5, <1>8
  <2> QED
    BY <1>2, <1>3, <1>6, <1>7, <2>2, <2>3 DEF TimingTypeOK
<1>21. SymbolsFill'
  <2>1. U * pushed' - mu' = s - mu + omega
    BY <1>4, <1>5, <1>8, <1>9, <1>10, <1>11
  <2>2. symbol'.at = 2 * (U * pushed' - mu')
    BY <1>8, <1>9, <1>18
  <2>3. PICK a \in Int, b \in Int :
          /\ a = symbol_count * omega_min /\ b = symbol_count * omega_max
          /\ a <= s - mu /\ s - mu <= b
    <3>1. symbol_count * omega_min \in Int /\ symbol_count * omega_max \in Int
      BY <1>4, <1>5
    <3> QED
      BY <1>1, <1>10, <3>1 DEF SymbolsFill
  <2>4. /\ symbol_count' * omega_min = a + omega_min
        /\ symbol_count' * omega_max = b + omega_max
    BY <1>2, <1>4, <1>5, <2>3, SMT
  <2>5. /\ symbol_count' * omega_min <= U * pushed' - mu'
        /\ U * pushed' - mu' <= symbol_count' * omega_max
    BY <1>4, <1>5, <1>10, <2>1, <2>3, <2>4
  <2> QED
    BY <1>7, <2>2, <2>5 DEF SymbolsFill
<1>22. SymbolsReadTheStream'
  <2>1. 2 * (U * p) - 2 * m = 2 * (U * p - m)
    BY <1>9, <1>10, <1>11, <1>4
  <2>2. 2 * (U * p) - (2 * m + omega) = 2 * (U * p - m) - omega
    BY <1>9, <1>10, <1>11, <1>4, <1>5
  <2>3. /\ symbol'.curr = curr /\ symbol'.mid = mid /\ symbol'.period = omega
        /\ symbol'.at = 2 * (U * p - m)
    BY <1>18
  <2> QED
    BY <1>16, <1>17, <2>1, <2>2, <2>3 DEF SymbolsReadTheStream, InstantOf
<1>23. symbol'.at - symbol'.before = 2 * symbol'.period
  <2>1. 2 * (U * p - m) - 2 * (s - mu) = 2 * omega
    BY <1>4, <1>5, <1>9, <1>10, <1>11
  <2> QED
    BY <1>18, <1>19, <2>1
<1> QED
  BY <1>3, <1>20, <1>21, <1>22, <1>23 DEF TimingIInv

-----------------------------------------------------------------------------
(* The channel filter. *)

Sample == [1..num_taps -> Nat \X Nat]

(* The delay line after p pairs of an uninterrupted stream. *)
Delayed(p) ==
  [j \in 1..num_taps |->
     LET k == p - j + 1 IN IF k > 0 THEN <<k, k - 1>> ELSE Silence]

(* The oscillator, the decimation counter and the delay line depend on the *)
(* length of the stream only, not on how it was cut into blocks.           *)
FilterExact ==
  /\ osc = pairs
  /\ decim_count = pairs % decimation
  /\ delay = Delayed(pairs)

(* The assumptions about the constants of channel_filter.h, for the        *)
(* provers.                                                                *)
LEMMA FilterBounds ==
  /\ num_taps \in Nat \ {0} /\ decimation \in Nat \ {0} /\ NormEvery \in Nat \ {0}
<1>1. 0 % 2 = 0
  OBVIOUS
<1> QED
  BY <1>1, FilterConstants DEF FilterConstants

(* A delay line holds num_taps mixed samples. *)
LEMMA DelayedType ==
  ASSUME NEW p \in Int
  PROVE  /\ Delayed(p) \in Sample
         /\ Delayed(p) \in Seq(Nat \X Nat) /\ Len(Delayed(p)) = num_taps
<1>1. ASSUME NEW j \in 1..num_taps
      PROVE  LET k == p - j + 1 IN (IF k > 0 THEN <<k, k - 1>> ELSE Silence)
               \in Nat \X Nat
  <2>1. PICK k \in Int : k = p - j + 1
    BY FilterBounds
  <2>2. k > 0 => k \in Nat /\ k - 1 \in Nat
    OBVIOUS
  <2> QED
    BY <2>1, <2>2 DEF Silence
<1>2. Delayed(p) \in Sample
  BY <1>1 DEF Delayed, Sample
<1>3. num_taps \in Nat
  BY FilterBounds
<1> QED
  BY <1>2, <1>3 DEF Sample

(* The filter output of an uninterrupted stream is the delay line at a     *)
(* multiple of the decimation.                                             *)
LEMMA WindowIsDelayed ==
  ASSUME NEW n
  PROVE  Window(n) = Delayed(decimation * n)
BY DEF Window, Delayed

(* Shifting the next pair in. *)
LEMMA DelayShift ==
  ASSUME NEW p \in Nat
  PROVE  <<<<p + 1, p>>>> \o SubSeq(Delayed(p), 1, num_taps - 1) = Delayed(p + 1)
<1> DEFINE new == <<<<p + 1, p>>>>
           old == SubSeq(Delayed(p), 1, num_taps - 1)
<1>1. PICK n \in Nat \ {0} : n = num_taps
  BY FilterBounds
<1>2. /\ Delayed(p) \in Sample /\ Delayed(p + 1) \in Seq(Nat \X Nat)
      /\ Len(Delayed(p + 1)) = n
  <2>1. p \in Int /\ p + 1 \in Int
    OBVIOUS
  <2> QED
    BY <1>1, <2>1, DelayedType, Zenon
<1>3. /\ old \in Seq(Nat \X Nat) /\ Len(old) = n - 1
      /\ \A i \in 1..(n - 1) : old[i] = Delayed(p)[i]
  <2>1. \A i \in 1..(n - 1) : Delayed(p)[i] \in Nat \X Nat
    BY <1>1, <1>2, SMTT(30) DEF Sample
  <2>2. /\ old \in Seq(Nat \X Nat)
        /\ Len(old) = IF 1 <= n - 1 THEN n - 1 - 1 + 1 ELSE 0
        /\ \A i \in 1..(n - 1 - 1 + 1) : old[i] = Delayed(p)[1 + i - 1]
    <3>1. 1 \in Int /\ n - 1 \in Int
      OBVIOUS
    <3> QED
      BY <1>1, <2>1, <3>1, SubSeqProperties
  <2>3. n - 1 - 1 + 1 = n - 1 /\ \A i \in Int : 1 + i - 1 = i
    OBVIOUS
  <2>4. Len(old) = n - 1
    BY <2>2
  <2> QED
    BY <2>2, <2>3, <2>4
<1>4. new \in Seq(Nat \X Nat) /\ Len(new) = 1 /\ new[1] = <<p + 1, p>>
  OBVIOUS
<1> HIDE DEF new, old
<1>5. /\ new \o old \in Seq(Nat \X Nat) /\ Len(new \o old) = 1 + (n - 1)
      /\ \A i \in 1..(1 + (n - 1)) :
           (new \o old)[i] = IF i <= 1 THEN new[i] ELSE old[i - 1]
  <2>1. /\ new \o old \in Seq(Nat \X Nat)
        /\ Len(new \o old) = Len(new) + Len(old)
        /\ \A i \in 1..(Len(new) + Len(old)) :
             (new \o old)[i] = IF i <= Len(new) THEN new[i] ELSE old[i - Len(new)]
    BY <1>3, <1>4, ConcatProperties, Zenon
  <2> QED
    BY <1>3, <1>4, <2>1, Zenon
<1>6. 1 + (n - 1) = n
  OBVIOUS
<1>7. ASSUME NEW i \in 1..n
      PROVE  (new \o old)[i] = Delayed(p + 1)[i]
  <2>1. Delayed(p + 1)[i]
          = LET k == p + 1 - i + 1 IN IF k > 0 THEN <<k, k - 1>> ELSE Silence
    BY <1>1 DEF Delayed
  <2>2. CASE i = 1
    <3>1. p + 1 - i + 1 = p + 1 /\ p + 1 > 0 /\ (p + 1) - 1 = p
      BY <2>2
    <3>2. Delayed(p + 1)[i] = <<p + 1, p>>
      BY <2>1, <3>1
    <3>3. (new \o old)[i] = new[1]
      BY <1>5, <1>6, <2>2
    <3> QED
      BY <1>4, <3>2, <3>3
  <2>3. CASE i # 1
    <3>1. i - 1 \in 1..(n - 1) /\ ~(i <= 1) /\ i - 1 \in 1..n
      BY <2>3
    <3>2. (new \o old)[i] = Delayed(p)[i - 1]
      BY <1>3, <1>5, <1>6, <3>1
    <3>3. Delayed(p)[i - 1]
            = LET k == p - (i - 1) + 1 IN IF k > 0 THEN <<k, k - 1>> ELSE Silence
      BY <1>1, <3>1 DEF Delayed
    <3>4. p - (i - 1) + 1 = p + 1 - i + 1
      OBVIOUS
    <3> QED
      BY <2>1, <3>2, <3>3, <3>4
  <2> QED
    BY <2>2, <2>3
<1>8. new \o old = Delayed(p + 1)
  BY <1>2, <1>5, <1>6, <1>7, SeqEqual
<1> QED
  BY <1>8 DEF new, old

(* The outputs of the filter in this block are those of an uninterrupted   *)
(* stream.                                                                 *)
IqSeamless ==
  \A i \in 1..Len(iq_buf) :
    iq_buf[i] = Window(pairs \div decimation - Len(iq_buf) + i)

(* One pair through the filter: the oscillator, the delay line and the     *)
(* decimation counter stay exact, and an output is made when it is due.    *)
LEMMA FilterPairStep ==
  ASSUME FilterTypeOK, FilterExact, IqSeamless, FilterPair
  PROVE  /\ FilterTypeOK' /\ FilterExact' /\ IqSeamless'
         /\ pairs' \div decimation - Len(iq_buf')
              = pairs \div decimation - Len(iq_buf)
<1>1. /\ decimation \in Nat \ {0} /\ NormEvery \in Nat \ {0} /\ num_taps \in Nat
  BY FilterBounds
<1>2. /\ osc \in Nat /\ pairs \in Nat /\ osc_norm_counter \in 0..(NormEvery - 1)
      /\ iq_buf \in Seq(Sample)
      /\ osc = pairs /\ decim_count = pairs % decimation /\ delay = Delayed(pairs)
  BY DEF FilterTypeOK, FilterExact, Sample
<1>3. PICK p \in Nat, N \in Int, L \in Nat :
        p = pairs /\ N = p \div decimation /\ L = Len(iq_buf)
  <2>1. pairs \in Int
    BY <1>2
  <2>2. pairs \div decimation \in Int
    BY <1>1, <2>1, DivMod
  <2> QED
    BY <1>2, <2>2
<1>4. pairs' = p + 1 /\ osc' = p + 1 /\ delay' = Delayed(p + 1)
  <2>1. /\ pairs' = p + 1 /\ osc' = p + 1
        /\ delay' = <<<<p + 1, p>>>> \o SubSeq(Delayed(p), 1, num_taps - 1)
    BY <1>2, <1>3 DEF FilterPair
  <2> QED
    BY <2>1, DelayShift
<1>5. osc_norm_counter' \in 0..(NormEvery - 1)
  <2>1. osc_norm_counter + 1 \in Int
    BY <1>2
  <2>2. (osc_norm_counter + 1) % NormEvery \in 0..(NormEvery - 1)
    BY <1>1, <2>1, DivMod, Zenon
  <2> QED
    BY <2>2 DEF FilterPair
<1>6. delay' \in Sample
  <2>1. p + 1 \in Int
    OBVIOUS
  <2> QED
    BY <1>4, <2>1, DelayedType
<1>7. PICK r \in 0..(decimation - 1) : r = p % decimation
  <2>1. p \in Int
    OBVIOUS
  <2> QED
    BY <1>1, <2>1, DivMod, Zenon
<1>8. IF r + 1 >= decimation
        THEN /\ (p + 1) % decimation = 0 /\ (p + 1) \div decimation = N + 1
             /\ p + 1 = decimation * (N + 1)
        ELSE (p + 1) % decimation = r + 1 /\ (p + 1) \div decimation = N
  <2>1. p \in Int
    OBVIOUS
  <2> QED
    BY <1>1, <1>3, <1>7, <2>1, DivNext, Zenon
<1>9. CASE r + 1 >= decimation
  <2>1. /\ decim_count' = 0 /\ iq_buf' = Append(iq_buf, Delayed(p + 1))
    BY <1>2, <1>3, <1>4, <1>7, <1>9 DEF FilterPair, Due
  <2>2. /\ iq_buf' \in Seq(Sample) /\ Len(iq_buf') = L + 1
        /\ \A i \in 1..L : iq_buf'[i] = iq_buf[i]
        /\ iq_buf'[L + 1] = Delayed(p + 1)
    BY <1>2, <1>3, <1>4, <1>6, <2>1, AppendProperties
  <2>3. pairs' \div decimation = N + 1 /\ Delayed(p + 1) = Window(N + 1)
    BY <1>4, <1>8, <1>9, WindowIsDelayed
  <2>4. ASSUME NEW i \in 1..(L + 1)
        PROVE  iq_buf'[i] = Window(N + 1 - (L + 1) + i)
    <3>1. CASE i = L + 1
      <4>1. N + 1 - (L + 1) + i = N + 1
        BY <3>1
      <4> QED
        BY <2>2, <2>3, <3>1, <4>1
    <3>2. CASE i # L + 1
      <4>1. i \in 1..L /\ N + 1 - (L + 1) + i = N - L + i
        BY <3>2
      <4>2. iq_buf[i] = Window(N - L + i)
        BY <1>3, <4>1 DEF IqSeamless
      <4> QED
        BY <2>2, <4>1, <4>2
    <3> QED
      BY <3>1, <3>2
  <2>5. IqSeamless'
    BY <2>2, <2>3, <2>4 DEF IqSeamless
  <2>6. FilterExact'
    BY <1>4, <1>8, <1>9, <2>1 DEF FilterExact
  <2>7. FilterTypeOK'
    <3>1. pairs' \in Nat /\ osc' \in Nat /\ decim_count' \in 0..(decimation - 1)
      BY <1>1, <1>4, <2>1
    <3> QED
      BY <1>5, <1>6, <2>2, <3>1, Zenon DEF FilterTypeOK, Sample
  <2> QED
    BY <1>3, <2>2, <2>3, <2>5, <2>6, <2>7
<1>10. CASE ~(r + 1 >= decimation)
  <2>1. /\ decim_count' = r + 1 /\ iq_buf' = iq_buf
    BY <1>2, <1>3, <1>7, <1>10 DEF FilterPair, Due
  <2>2. pairs' \div decimation = N
    BY <1>4, <1>8, <1>10
  <2>3. IqSeamless'
    BY <1>3, <2>1, <2>2 DEF IqSeamless
  <2>4. FilterExact'
    BY <1>4, <1>8, <1>10, <2>1 DEF FilterExact
  <2>5. FilterTypeOK'
    <3>1. pairs' \in Nat /\ osc' \in Nat /\ decim_count' \in 0..(decimation - 1)
      BY <1>1, <1>4, <1>10, <2>1
    <3> QED
      BY <1>2, <1>5, <1>6, <2>1, <3>1, Zenon DEF FilterTypeOK, Sample
  <2> QED
    BY <1>3, <2>1, <2>2, <2>3, <2>4, <2>5
<1> QED
  BY <1>9, <1>10

-----------------------------------------------------------------------------
(* The chain. *)

(* The samples on their way: none is lost between the stages, and the next *)
(* one is compared with the last that was.                                 *)
Handover ==
  /\ disc_buf \in Seq(Sample \X Sample)
  /\ stage # "timing" => disc_buf = <<>>
  /\ pushed + Len(disc_buf) + (IF stage = "filter" THEN Len(iq_buf) ELSE 0)
       = pairs \div decimation
  /\ prev = Window(pushed + Len(disc_buf))

ChainIInv ==
  /\ ChainTypeOK
  /\ TimingIInv
  /\ FilterExact
  /\ StreamIsSeamless
  /\ Handover

(* A chain just constructed satisfies the invariant. *)
LEMMA ChainInitIInv ==
  ASSUME ChainInit
  PROVE  ChainIInv
<1>1. TimingIInv
  BY TimingInitIInv DEF ChainInit
<1>2. SlicerTypeOK
  BY SlicerTypeInit DEF ChainInit
<1>3. /\ decimation \in Nat \ {0} /\ NormEvery \in Nat \ {0} /\ num_taps \in Nat
  BY FilterBounds
<1>4. 0 % decimation = 0 /\ 0 \div decimation = 0
  <2>1. decimation * 0 = 0 /\ 0 \in 0..(decimation - 1)
    BY <1>3
  <2>2. (decimation * 0) \div decimation = 0
    BY <1>3, DivMultiple
  <2>3. 0 % decimation = 0
    BY <1>3, <2>1, ModSmall
  <2> QED
    BY <2>1, <2>2, <2>3
<1>5. delay = Delayed(0)
  <2>1. \A j \in 1..num_taps : ~(0 - j + 1 > 0)
    BY <1>3
  <2>2. Delayed(0) = [j \in 1..num_taps |-> Silence]
    BY <2>1 DEF Delayed
  <2> QED
    BY <2>2 DEF ChainInit, FilterInit
<1>6. FilterTypeOK /\ FilterExact
  <2>1. delay \in Sample
    BY <1>5, DelayedType
  <2>2. 0 \in 0..(NormEvery - 1) /\ 0 \in 0..(decimation - 1) /\ 0 \in Nat
    BY <1>3
  <2> QED
    BY <1>4, <1>5, <2>1, <2>2 DEF ChainInit, FilterInit, FilterTypeOK, FilterExact,
      Sample
<1>7. iq_buf = <<>> /\ disc_buf = <<>> /\ stage = "idle" /\ left = 0
      /\ pairs = 0 /\ pushed = 0 /\ prev = Window(0)
  BY DEF ChainInit, FilterInit, TimingInit
<1>8. StreamIsSeamless
  BY <1>7 DEF StreamIsSeamless
<1>9. Handover
  BY <1>4, <1>7 DEF Handover
<1> QED
  BY <1>1, <1>2, <1>6, <1>7, <1>8, <1>9 DEF ChainIInv, ChainTypeOK, TimingIInv

(* Steps that leave the samples alone. *)
LEMMA CallStep ==
  ASSUME ChainIInv, NEW n \in BlockSizes, Call(n)
  PROVE  ChainIInv'
<1>1. n \in Nat
  BY ChainConstants DEF ChainConstants
<1>2. /\ stage = "idle" /\ stage' = "filter" /\ left' = n
      /\ iq_buf' = <<>> /\ disc_buf' = <<>>
      /\ UNCHANGED <<osc, osc_norm_counter, delay, decim_count, pairs, prev>>
      /\ UNCHANGED timingVars /\ UNCHANGED slicerVars
  BY DEF Call
<1>3. TimingIInv' /\ TimingTypeOK'
  BY <1>2 DEF ChainIInv, TimingIInv, TimingTypeOK, HistoryHolds, SymbolsFill,
    SymbolsReadTheStream, InstantOf, timingVars
<1>4. SlicerTypeOK'
  BY <1>2 DEF ChainIInv, ChainTypeOK, SlicerTypeOK, slicerVars
<1>5. FilterTypeOK' /\ FilterExact'
  BY <1>2 DEF ChainIInv, ChainTypeOK, FilterTypeOK, FilterExact
<1>6. StreamIsSeamless'
  BY <1>2 DEF StreamIsSeamless
<1>7. Handover'
  BY <1>2 DEF ChainIInv, Handover, timingVars
<1> QED
  BY <1>1, <1>2, <1>3, <1>4, <1>5, <1>6, <1>7 DEF ChainIInv, ChainTypeOK

(* Filter keeps the invariant. *)
LEMMA FilterStep ==
  ASSUME ChainIInv, Filter
  PROVE  ChainIInv'
<1>1. /\ stage = "filter" /\ left > 0 /\ left' = left - 1 /\ FilterPair
      /\ UNCHANGED <<stage, disc_buf, prev>>
      /\ UNCHANGED timingVars /\ UNCHANGED slicerVars
  BY DEF Filter
<1>2. TimingIInv' /\ TimingTypeOK'
  BY <1>1 DEF ChainIInv, TimingIInv, TimingTypeOK, HistoryHolds, SymbolsFill,
    SymbolsReadTheStream, InstantOf, timingVars
<1>3. SlicerTypeOK'
  BY <1>1 DEF ChainIInv, ChainTypeOK, SlicerTypeOK, slicerVars
<1>4. /\ FilterTypeOK' /\ FilterExact' /\ IqSeamless'
      /\ pairs' \div decimation - Len(iq_buf') = pairs \div decimation - Len(iq_buf)
  BY <1>1, FilterPairStep
    DEF ChainIInv, ChainTypeOK, StreamIsSeamless, IqSeamless
<1>5. pushed' = pushed
  BY <1>1 DEF timingVars
<1>6. StreamIsSeamless'
  BY <1>1, <1>4, <1>5 DEF ChainIInv, StreamIsSeamless, IqSeamless
<1>7. Handover'
  <2>1. /\ pushed \in Nat /\ disc_buf = <<>>
        /\ pushed + Len(iq_buf) = pairs \div decimation
    BY <1>1 DEF ChainIInv, ChainTypeOK, TimingTypeOK, Handover
  <2>2. Len(iq_buf) \in Nat /\ Len(iq_buf') \in Nat
    BY <1>4 DEF ChainIInv, ChainTypeOK, FilterTypeOK
  <2>3. pairs' \div decimation \in Int
    <3>1. pairs' \in Int /\ decimation \in Nat \ {0}
      BY <1>4, FilterBounds DEF FilterTypeOK
    <3> QED
      BY <3>1, DivMod
  <2>4. pushed + Len(iq_buf') = pairs' \div decimation
    BY <1>4, <2>1, <2>2, <2>3
  <2> QED
    BY <1>1, <1>5, <2>1, <2>4 DEF ChainIInv, Handover
<1>8. left' \in Nat
  BY <1>1 DEF ChainIInv, ChainTypeOK
<1> QED
  BY <1>1, <1>2, <1>3, <1>4, <1>6, <1>7, <1>8 DEF ChainIInv, ChainTypeOK

(* What filter and timing loop do not touch. *)
LEMMA QuietStep ==
  ASSUME ChainIInv, UNCHANGED filterVars, UNCHANGED timingVars
  PROVE  /\ TimingIInv' /\ TimingTypeOK' /\ FilterTypeOK' /\ FilterExact'
         /\ UNCHANGED <<iq_buf, pairs, pushed>>
<1>1. TimingIInv' /\ TimingTypeOK'
  BY DEF ChainIInv, TimingIInv, TimingTypeOK, HistoryHolds, SymbolsFill,
    SymbolsReadTheStream, InstantOf, timingVars
<1>2. FilterTypeOK' /\ FilterExact'
  BY DEF ChainIInv, ChainTypeOK, FilterTypeOK, FilterExact, filterVars
<1> QED
  BY <1>1, <1>2 DEF filterVars, timingVars

(* So do the ends of process() and a change of the transmission. *)
LEMMA IdleStep ==
  ASSUME ChainIInv, NothingFiltered \/ Return \/ NewTransmission \/ UNCHANGED chainVars
  PROVE  ChainIInv'
<1>1. /\ UNCHANGED <<left, disc_buf, prev>>
      /\ UNCHANGED filterVars /\ UNCHANGED timingVars
  BY DEF NothingFiltered, Return, NewTransmission, chainVars
<1>2. /\ TimingIInv' /\ TimingTypeOK' /\ FilterTypeOK' /\ FilterExact'
      /\ UNCHANGED <<iq_buf, pairs, pushed>>
  BY <1>1, QuietStep
<1>3. SlicerTypeOK'
  <2>1. CASE UNCHANGED slicerVars
    BY <2>1 DEF ChainIInv, ChainTypeOK, SlicerTypeOK, slicerVars
  <2>2. CASE NewTransmission
    BY <2>2 DEF NewTransmission, Fade, ChainIInv, ChainTypeOK, SlicerTypeOK
  <2> QED
    BY <2>1, <2>2 DEF NothingFiltered, Return, chainVars
<1>4. StreamIsSeamless'
  BY <1>1, <1>2 DEF ChainIInv, StreamIsSeamless
<1>5. /\ stage' \in {"idle", "filter", "timing"}
      /\ Handover'
  <2>1. CASE NothingFiltered
    <3>1. stage = "filter" /\ stage' = "idle" /\ Len(iq_buf) = 0
      BY <2>1 DEF NothingFiltered
    <3> QED
      BY <1>1, <1>2, <3>1 DEF ChainIInv, Handover
  <2>2. CASE Return
    BY <1>1, <1>2, <2>2 DEF Return, ChainIInv, Handover
  <2>3. CASE UNCHANGED stage
    BY <1>1, <1>2, <2>3 DEF ChainIInv, Handover, ChainTypeOK
  <2> QED
    BY <2>1, <2>2, <2>3 DEF NewTransmission, chainVars
<1> QED
  BY <1>1, <1>2, <1>3, <1>4, <1>5 DEF ChainIInv, ChainTypeOK

(* The discriminator pairs each sample with the one before, over the       *)
(* border of the block.                                                    *)
LEMMA DiscriminateStep ==
  ASSUME ChainIInv, Discriminate
  PROVE  ChainIInv'
<1> DEFINE both == [i \in 1..Len(iq_buf) |->
                      <<IF i = 1 THEN prev ELSE iq_buf[i - 1], iq_buf[i]>>]
<1>1. /\ stage = "filter" /\ stage' = "timing" /\ iq_buf # <<>>
      /\ disc_buf' = disc_buf \o both /\ prev' = iq_buf[Len(iq_buf)]
      /\ UNCHANGED left /\ UNCHANGED filterVars
      /\ UNCHANGED timingVars /\ UNCHANGED slicerVars
  BY DEF Discriminate
<1>2. /\ TimingIInv' /\ TimingTypeOK' /\ FilterTypeOK' /\ FilterExact'
      /\ UNCHANGED <<iq_buf, pairs, pushed>>
  BY <1>1, QuietStep
<1>3. SlicerTypeOK'
  BY <1>1 DEF ChainIInv, ChainTypeOK, SlicerTypeOK, slicerVars
<1>4. /\ iq_buf \in Seq(Sample) /\ pushed \in Nat
      /\ disc_buf = <<>> /\ prev = Window(pushed + 0)
      /\ pushed + Len(iq_buf) = pairs \div decimation
  <2>1. iq_buf \in Seq(Sample) /\ pushed \in Nat /\ disc_buf = <<>>
    BY <1>1 DEF ChainIInv, ChainTypeOK, FilterTypeOK, TimingTypeOK, Handover, Sample
  <2>2. Len(disc_buf) = 0 /\ Len(iq_buf) \in Nat
    BY <2>1
  <2>3. prev = Window(pushed + 0)
    BY <2>2 DEF ChainIInv, Handover
  <2>4. pushed + 0 + Len(iq_buf) = pairs \div decimation
    BY <1>1, <2>2 DEF ChainIInv, Handover
  <2> QED
    BY <2>1, <2>2, <2>3, <2>4
<1>5. PICK L \in Nat \ {0}, p \in Nat : L = Len(iq_buf) /\ p = pushed
  <2>1. Len(iq_buf) \in Nat \ {0}
    BY <1>1, <1>4, EmptySeq
  <2> QED
    BY <1>4, <2>1
<1>6. \A i \in 1..L : iq_buf[i] = Window(p + i) /\ iq_buf[i] \in Sample
  <2>1. ASSUME NEW i \in 1..L PROVE iq_buf[i] = Window(p + i)
    <3>1. pairs \div decimation - L + i = p + i
      BY <1>4, <1>5
    <3> QED
      BY <1>5, <3>1 DEF ChainIInv, StreamIsSeamless
  <2> QED
    BY <1>4, <1>5, <2>1
<1>7. prev = Window(p) /\ prev \in Sample
  <2>1. p + 0 = p /\ p \in Int /\ decimation \in Int
    BY FilterBounds
  <2>2. Window(p) = Delayed(decimation * p) /\ decimation * p \in Int
    BY <2>1, WindowIsDelayed
  <2> QED
    BY <1>4, <1>5, <2>1, <2>2, DelayedType
<1>8. ASSUME NEW i \in 1..L
      PROVE  /\ both[i] = <<Window(p + i - 1), Window(p + i)>>
             /\ both[i] \in Sample \X Sample
  <2>1. both[i] = <<IF i = 1 THEN prev ELSE iq_buf[i - 1], iq_buf[i]>>
    BY <1>5
  <2>2. CASE i = 1
    <3>1. p + i - 1 = p
      BY <2>2
    <3> QED
      BY <1>6, <1>7, <2>1, <2>2, <3>1
  <2>3. CASE i # 1
    <3>1. i - 1 \in 1..L /\ p + (i - 1) = p + i - 1
      BY <2>3
    <3> QED
      BY <1>6, <2>1, <2>3, <3>1
  <2> QED
    BY <2>2, <2>3
<1>9. both \in Seq(Sample \X Sample) /\ Len(both) = L
  <2>1. \A i \in 1..L : both[i] \in Sample \X Sample
    BY <1>8
  <2>2. both \in [1..L -> Sample \X Sample]
    BY <1>5, <2>1
  <2> QED
    BY <2>2
<1> HIDE DEF both
<1>10. disc_buf' = both
  BY <1>1, <1>4, <1>9, ConcatEmptySeq
<1>11. StreamIsSeamless'
  <2>1. \A i \in 1..Len(disc_buf') :
          disc_buf'[i] = <<Window(pushed' + i - 1), Window(pushed' + i)>>
    BY <1>2, <1>5, <1>8, <1>9, <1>10
  <2> QED
    BY <1>2, <2>1 DEF ChainIInv, StreamIsSeamless
<1>12. Handover'
  <2>1. prev' = Window(p + L)
    BY <1>1, <1>5, <1>6
  <2>2. p + L + 0 = pairs \div decimation
    BY <1>4, <1>5
  <2> QED
    BY <1>1, <1>2, <1>5, <1>9, <1>10, <2>1, <2>2 DEF Handover
<1> QED
  BY <1>1, <1>2, <1>3, <1>11, <1>12 DEF ChainIInv, ChainTypeOK

(* Every sample reaches the timing loop with the number it has in the      *)
(* stream.                                                                 *)
LEMMA NextNumber ==
  ASSUME ChainIInv, disc_buf # <<>>
  PROVE  NumberOf(Head(disc_buf)) = pushed + 1
<1>1. disc_buf \in Seq(Sample \X Sample)
  BY DEF ChainIInv, Handover
<1>2. 1 \in 1..Len(disc_buf) /\ Head(disc_buf) = disc_buf[1]
  <2>1. Len(disc_buf) \in Nat \ {0}
    BY <1>1, EmptySeq
  <2> QED
    BY <1>1, <2>1
<1>3. PICK n \in Nat \ {0} : n = pushed + 1
  BY DEF ChainIInv, TimingIInv, TimingTypeOK
<1>4. Head(disc_buf)[2] = Window(n)
  BY <1>2, <1>3 DEF ChainIInv, StreamIsSeamless
<1>5. Window(n)[1][1] = decimation * n
  <2>1. 1 \in 1..num_taps
    BY FilterBounds
  <2>2. PICK k \in Int : k = decimation * n /\ k > 0 /\ k - 1 + 1 = k
    <3>1. decimation \in Nat \ {0}
      BY FilterBounds
    <3>2. decimation * n > 0 /\ decimation * n \in Int
      BY <3>1, SMT
    <3> QED
      BY <3>2
  <2>3. Window(n)[1] = <<k, k - 1>>
    BY <2>1, <2>2 DEF Window
  <2> QED
    BY <2>2, <2>3
<1>6. (decimation * n) \div decimation = n
  <2>1. decimation \in Nat \ {0} /\ n \in Int
    BY FilterBounds
  <2> QED
    BY <2>1, DivMultiple
<1> QED
  BY <1>3, <1>4, <1>5, <1>6 DEF NumberOf

(* One sample through the timing loop, with a symbol or without. *)
LEMMA TimeStep ==
  ASSUME ChainIInv, Time
  PROVE  ChainIInv'
<1>1. /\ stage = "timing" /\ disc_buf # <<>> /\ disc_buf' = Tail(disc_buf)
      /\ UNCHANGED filterVars /\ UNCHANGED <<stage, left, prev>>
  BY DEF Time
<1>2. TimingIInv /\ NumberOf(Head(disc_buf)) = pushed + 1
  BY <1>1, NextNumber DEF ChainIInv
<1>3. TimingIInv' /\ SlicerTypeOK' /\ pushed' = pushed + 1
  <2>1. CASE NoStrobe(pushed + 1) /\ UNCHANGED slicerVars
    BY <1>2, <2>1, NoStrobeStep
      DEF NoStrobe, Push, ChainIInv, ChainTypeOK, SlicerTypeOK, slicerVars
  <2>2. ASSUME NEW d \in 0..3, NEW k \in MidFactors,
               Strobe(pushed + 1, LevelOf(d, amplitude), k * amplitude),
               decide(LevelOf(d, amplitude))
        PROVE  TimingIInv' /\ SlicerTypeOK' /\ pushed' = pushed + 1
    <3>1. amplitude \in Int
      BY SlicerConstants DEF SlicerConstants, ChainIInv, ChainTypeOK, SlicerTypeOK
    <3>2. LevelOf(d, amplitude) \in Int
      BY <3>1 DEF LevelOf
    <3>3. k * amplitude \in Int
      BY <3>1, ChainConstants DEF ChainConstants
    <3>4. TimingIInv'
      BY <1>2, <2>2, <3>2, <3>3, StrobeStep
    <3>5. SlicerTypeOK'
      BY <2>2, <3>2, DecideType DEF ChainIInv, ChainTypeOK
    <3> QED
      BY <2>2, <3>4, <3>5 DEF Strobe, Push
  <2> QED
    BY <1>2, <2>1, <2>2 DEF Time
<1>4. FilterTypeOK' /\ FilterExact' /\ UNCHANGED <<iq_buf, pairs>>
  BY <1>1 DEF ChainIInv, ChainTypeOK, FilterTypeOK, FilterExact, filterVars
<1>5. disc_buf \in Seq(Sample \X Sample) /\ pushed \in Nat
  BY DEF ChainIInv, Handover, TimingIInv, TimingTypeOK
<1>6. PICK L \in Nat, p \in Nat : L + 1 = Len(disc_buf) /\ p = pushed
  <2>1. Len(disc_buf) \in Nat \ {0}
    BY <1>1, <1>5, EmptySeq
  <2>2. Len(disc_buf) - 1 \in Nat /\ (Len(disc_buf) - 1) + 1 = Len(disc_buf)
    BY <2>1
  <2> QED
    BY <1>5, <2>2
<1>7. /\ disc_buf' \in Seq(Sample \X Sample) /\ Len(disc_buf') = L
      /\ \A i \in 1..L : disc_buf'[i] = disc_buf[i + 1]
  <2>1. /\ disc_buf' \in Seq(Sample \X Sample)
        /\ Len(disc_buf') = Len(disc_buf) - 1
        /\ \A i \in 1..Len(disc_buf') : disc_buf'[i] = disc_buf[i + 1]
    BY <1>1, <1>5, HeadTailProperties
  <2> QED
    BY <1>6, <2>1
<1>8. StreamIsSeamless'
  <2>1. ASSUME NEW i \in 1..L
        PROVE  disc_buf'[i] = <<Window(p + 1 + i - 1), Window(p + 1 + i)>>
    <3>1. /\ i + 1 \in 1..(L + 1)
          /\ p + (i + 1) - 1 = p + 1 + i - 1 /\ p + (i + 1) = p + 1 + i
      OBVIOUS
    <3>2. disc_buf[i + 1] = <<Window(p + (i + 1) - 1), Window(p + (i + 1))>>
      BY <1>6, <3>1 DEF ChainIInv, StreamIsSeamless
    <3> QED
      BY <1>7, <3>1, <3>2
  <2> QED
    BY <1>3, <1>4, <1>6, <1>7, <2>1 DEF ChainIInv, StreamIsSeamless
<1>9. Handover'
  <2>1. p + (L + 1) = p + 1 + L /\ p + (L + 1) + 0 = p + 1 + L + 0
    OBVIOUS
  <2>2. prev = Window(p + (L + 1))
    BY <1>6 DEF ChainIInv, Handover
  <2>3. p + (L + 1) + 0 = pairs \div decimation
    BY <1>1, <1>6 DEF ChainIInv, Handover
  <2> QED
    BY <1>1, <1>3, <1>4, <1>6, <1>7, <2>1, <2>2, <2>3 DEF Handover
<1>10. TimingTypeOK'
  BY <1>3 DEF TimingIInv
<1> QED
  BY <1>1, <1>3, <1>4, <1>8, <1>9, <1>10 DEF ChainIInv, ChainTypeOK

(* Every step of process() keeps the invariant. *)
LEMMA ChainNextIInv == ChainIInv /\ [ChainNext]_chainVars => ChainIInv'
<1> SUFFICES ASSUME ChainIInv, [ChainNext]_chainVars PROVE ChainIInv'
  OBVIOUS
<1> QED
  BY CallStep, FilterStep, IdleStep, DiscriminateStep, TimeStep DEF ChainNext

-----------------------------------------------------------------------------
(* Main results. *)

(* The invariant that relates the stages' state to the stream.             *)
THEOREM ChainInvariance == ChainSpec => []ChainIInv
<1>1. ChainInit => ChainIInv
  BY ChainInitIInv
<1> QED
  BY <1>1, ChainNextIInv, PTL DEF ChainSpec

(* The variables keep their types: in particular the clamp bounds the      *)
(* period, and the phase, whatever the loop filter computes.               *)
THEOREM ChainTypeCorrect == ChainSpec => []ChainTypeOK
<1>1. ChainIInv => ChainTypeOK
  BY DEF ChainIInv
<1> QED
  BY <1>1, ChainInvariance, PTL

(* The borders of blocks leave no trace in the samples.                    *)
THEOREM Seamless == ChainSpec => []StreamIsSeamless
<1>1. ChainIInv => StreamIsSeamless
  BY DEF ChainIInv
<1> QED
  BY <1>1, ChainInvariance, PTL

(* The circular history is long enough and its index right: every symbol   *)
(* and mid-sample is read between two neighbours, at its own instant.      *)
THEOREM SymbolsReadRight == ChainSpec => []SymbolsReadTheStream
<1>1. ChainIInv => SymbolsReadTheStream
  BY DEF ChainIInv, TimingIInv
<1> QED
  BY <1>1, ChainInvariance, PTL

(* Symbols follow each other by the period in force, the mid-sample half   *)
(* way between them.                                                       *)
THEOREM SymbolsInTime == ChainSpec => []SymbolsKeepTime
<1>1. ChainIInv => SymbolsKeepTime
  <2> SUFFICES ASSUME ChainIInv
               PROVE  /\ symbol.at - symbol.before = 2 * symbol.period
                      /\ 2 * InstantOf(symbol.mid) = symbol.at + symbol.before
    BY DEF SymbolsKeepTime
  <2>1. /\ symbol.at - symbol.before = 2 * symbol.period
        /\ InstantOf(symbol.mid) = symbol.at - symbol.period
    BY DEF ChainIInv, TimingIInv, SymbolsReadTheStream
  <2>2. symbol.at \in Int /\ symbol.before \in Int /\ symbol.period \in Int
    BY DEF ChainIInv, TimingIInv, TimingTypeOK
  <2> QED
    BY <2>1, <2>2
<1> QED
  BY <1>1, ChainInvariance, PTL

(* After a block all its samples are timed, and the symbols fill the       *)
(* stream: no block loses or repeats one.                                  *)
THEOREM SymbolsComplete == ChainSpec => []NoSymbolLost
<1>1. ChainIInv => NoSymbolLost
  <2> SUFFICES ASSUME ChainIInv, stage = "idle"
               PROVE  /\ pushed = pairs \div decimation
                      /\ symbol_count * omega_min <= U * pushed - mu
                      /\ U * pushed - mu <= symbol_count * omega_max
                      /\ mu < omega
    BY DEF NoSymbolLost
  <2>1. pushed \in Nat /\ pushed + 0 + 0 = pairs \div decimation
    BY DEF ChainIInv, Handover, TimingIInv, TimingTypeOK
  <2>2. pushed = pairs \div decimation
    BY <2>1
  <2> QED
    BY <2>2 DEF ChainIInv, TimingIInv, SymbolsFill
<1> QED
  BY <1>1, ChainInvariance, PTL
=============================================================================
