------------------------------ MODULE ModArith ------------------------------
(***************************************************************************)
(* Facts about % and \div, for every positive modulus.  The proofs need    *)
(* them wherever the code wraps an index: the free-running counters that   *)
(* ringbuffer.cpp masks, the circular histories of burst_sync.cpp and      *)
(* timing_recovery.cpp, and the decimation of channel_filter.cpp.          *)
(***************************************************************************)
EXTENDS Integers, TLAPS

(* Euclidean division: quotient, remainder and the remainder's range. *)
LEMMA DivMod ==
  ASSUME NEW c \in Nat \ {0}, NEW a \in Int
  PROVE  /\ a \div c \in Int
         /\ a % c \in 0..(c - 1)
         /\ a = c * (a \div c) + (a % c)
BY SMT

(* The remainder is the only offset in 0..c-1 from a multiple of c. *)
LEMMA ModUnique ==
  ASSUME NEW c \in Nat \ {0}, NEW q \in Int, NEW s \in 0..(c - 1)
  PROVE  (c * q + s) % c = s
BY SMT

(* Adding a multiple of the modulus changes nothing. *)
LEMMA ModShift ==
  ASSUME NEW c \in Nat \ {0}, NEW a \in Int, NEW q \in Int
  PROVE  (a + c * q) % c = a % c
<1> DEFINE d == (a \div c) + q
           s == a % c
<1>1. a + c * q = c * d + s
  BY DivMod, SMT
<1>2. d \in Int /\ s \in 0..(c - 1)
  BY DivMod
<1>3. (c * d + s) % c = s
  BY <1>2, ModUnique
<1> QED
  BY <1>1, <1>3

(* A number already in range is its own remainder. *)
LEMMA ModSmall ==
  ASSUME NEW c \in Nat \ {0}, NEW s \in 0..(c - 1)
  PROVE  s % c = s
BY SMT

(* Two numbers less than c apart that fall on the same residue are equal. *)
LEMMA ModInjective ==
  ASSUME NEW c \in Nat \ {0}, NEW a \in Int, NEW b \in Int,
         a % c = b % c, a < b + c, b < a + c
  PROVE  a = b
<1> DEFINE qa == a \div c
           qb == b \div c
           s  == a % c
<1>1. qa \in Int /\ qb \in Int /\ s \in Int /\ a = c * qa + s /\ b = c * qb + s
  BY DivMod
<1> HIDE DEF qa, qb, s
<1>2. a - b = c * (qa - qb)
  BY <1>1, SMT
<1> DEFINE q == qa - qb
<1>3. q \in Int /\ a - b = c * q
  BY <1>1, <1>2
<1> HIDE DEF q
<1>4. -c < c * q /\ c * q < c
  BY <1>3
<1>5. q = 0
  BY <1>3, <1>4, SMT
<1> QED
  BY <1>3, <1>5

(* The distance between two wrapped counters: exact when it is below c. *)
LEMMA ModDistance ==
  ASSUME NEW c \in Nat \ {0}, NEW a \in Int, NEW b \in Int, b <= a, a < b + c
  PROVE  ((a % c) - (b % c)) % c = a - b
<1> DEFINE qa == a \div c
           qb == b \div c
           sa == a % c
           sb == b % c
           d  == a - b
           q  == qb - qa
<1>1. /\ qa \in Int /\ sa \in Int /\ a = c * qa + sa
      /\ qb \in Int /\ sb \in Int /\ b = c * qb + sb
  BY DivMod
<1>2. d \in 0..(c - 1)
  OBVIOUS
<1> HIDE DEF qa, qb, sa, sb
<1>3. q \in Int /\ sa - sb = d + c * q
  BY <1>1, SMT
<1> HIDE DEF q, d
<1>4. d \in Int
  BY <1>2
<1>5. (d + c * q) % c = d % c
  BY <1>3, <1>4, ModShift
<1>6. d % c = d
  BY <1>2, ModSmall
<1> QED
  BY <1>3, <1>5, <1>6 DEF sa, sb, d

(* Wrapping at a multiple of c first does not change the residue mod c. *)
LEMMA ModOfMod ==
  ASSUME NEW c \in Nat \ {0}, NEW k \in Nat \ {0}, NEW a \in Int
  PROVE  (a % (c * k)) % c = a % c
<1> DEFINE m == c * k
           d == a \div m
           s == a % m
           q == k * d
<1>1. m \in Nat \ {0}
  BY SMT
<1>2. d \in Int /\ s \in Int /\ a = m * d + s
  <2> HIDE DEF m
  <2> QED
    BY <1>1, DivMod
<1> HIDE DEF d, s
<1>3. q \in Int /\ m * d = c * q
  BY <1>2, SMT
<1>4. a = s + c * q
  <2> HIDE DEF m, q
  <2> QED
    BY <1>1, <1>2, <1>3
<1> HIDE DEF q
<1>5. (s + c * q) % c = s % c
  BY <1>2, <1>3, ModShift
<1> QED
  BY <1>4, <1>5 DEF s

(* Stepping j slots forward from a wrapped position, as two chunks: up to *)
(* the end of the array, then from its start.                             *)
LEMMA ModAdvance ==
  ASSUME NEW c \in Nat \ {0}, NEW a \in Int, NEW j \in 0..c
  PROVE  (a + j) % c = IF (a % c) + j < c THEN (a % c) + j ELSE (a % c) + j - c
<1> DEFINE q == a \div c
           s == a % c
           t == s + j - c
<1>1. q \in Int /\ s \in 0..(c - 1) /\ a = c * q + s
  BY DivMod
<1> HIDE DEF q, s
<1>2. CASE s + j < c
  <2>1. (c * q + (s + j)) % c = s + j
    BY <1>1, <1>2, ModUnique
  <2> QED
    BY <1>1, <1>2, <2>1 DEF s
<1>3. CASE ~(s + j < c)
  <2>1. t \in 0..(c - 1) /\ a + j = t + c * (q + 1)
    BY <1>1, <1>3, SMT
  <2> HIDE DEF t
  <2> DEFINE p == q + 1
  <2>2. p \in Int /\ t \in Int /\ a + j = t + c * p
    BY <1>1, <2>1
  <2> HIDE DEF p
  <2>3. (t + c * p) % c = t % c
    BY <2>2, ModShift
  <2>4. t % c = t
    BY <2>1, ModSmall
  <2> QED
    BY <1>3, <2>2, <2>3, <2>4 DEF t, s
<1> QED
  BY <1>2, <1>3

(* The quotient and remainder of a number. *)
LEMMA Quotient ==
  ASSUME NEW c \in Nat \ {0}, NEW a \in Int
  PROVE  \E q \in Int, r \in 0..(c - 1) : r = a % c /\ q = a \div c /\ a = c * q + r
<1> DEFINE q == a \div c
           r == a % c
<1>1. q \in Int /\ r \in 0..(c - 1) /\ a = c * q + r
  BY DivMod
<1> QED
  BY <1>1, Zenon

(* An index that is stepped after each entry. *)
LEMMA ModNext ==
  ASSUME NEW c \in Nat \ {0}, NEW a \in Int
  PROVE  ((a % c) + 1) % c = (a + 1) % c
<1>1. PICK q \in Int, r \in 0..(c - 1) : r = a % c /\ a = c * q + r
  BY Quotient
<1>2. a + 1 = (r + 1) + c * q /\ r + 1 \in Int
  BY <1>1, SMT
<1>3. ((r + 1) + c * q) % c = (r + 1) % c
  BY <1>2, ModShift
<1> QED
  BY <1>1, <1>2, <1>3, Zenon

(* An index stepped by j. *)
LEMMA ModPlus ==
  ASSUME NEW c \in Nat \ {0}, NEW a \in Int, NEW j \in Int
  PROVE  ((a % c) + j) % c = (a + j) % c
<1>1. PICK q \in Int, r \in 0..(c - 1) : r = a % c /\ a = c * q + r
  BY Quotient
<1>2. a + j = (r + j) + c * q /\ r + j \in Int
  BY <1>1, SMT
<1>3. ((r + j) + c * q) % c = (r + j) % c
  BY <1>2, ModShift
<1> QED
  BY <1>1, <1>2, <1>3, Zenon

(* An index counted back by k, kept positive by twice the modulus. *)
LEMMA ModBack ==
  ASSUME NEW c \in Nat \ {0}, NEW a \in Int, NEW k \in Int
  PROVE  ((a % c) - k + 2 * c) % c = (a - k) % c
<1>1. PICK q \in Int, r \in 0..(c - 1) : r = a % c /\ a = c * q + r
  BY Quotient
<1>2. PICK g \in Int : g = 2 - q
  BY <1>1
<1>3. PICK b \in Int : b = a - k
  OBVIOUS
<1>4. r - k + 2 * c = b + c * g
  BY <1>1, <1>2, <1>3, SMT
<1>5. (b + c * g) % c = b % c
  BY <1>2, <1>3, ModShift
<1> QED
  BY <1>1, <1>3, <1>4, <1>5, Zenon

(* The quotient of a counter steps when its remainder wraps. *)
LEMMA DivNext ==
  ASSUME NEW c \in Nat \ {0}, NEW a \in Int
  PROVE  IF (a % c) + 1 >= c
           THEN /\ (a + 1) % c = 0 /\ (a + 1) \div c = (a \div c) + 1
                /\ a + 1 = c * ((a \div c) + 1)
           ELSE (a + 1) % c = (a % c) + 1 /\ (a + 1) \div c = a \div c
<1>1. PICK q \in Int, r \in 0..(c - 1) : r = a % c /\ q = a \div c /\ a = c * q + r
  BY Quotient
<1>2. CASE r + 1 >= c
  <2>1. r + 1 = c /\ a + 1 = c * (q + 1)
    BY <1>1, <1>2, SMT
  <2>2. (c * (q + 1)) % c = 0 /\ (c * (q + 1)) \div c = q + 1
    BY SMT
  <2> QED
    BY <1>1, <1>2, <2>1, <2>2, Zenon
<1>3. CASE ~(r + 1 >= c)
  <2>1. r + 1 \in 0..(c - 1) /\ a + 1 = c * q + (r + 1)
    BY <1>1, <1>3
  <2>2. (c * q + (r + 1)) % c = r + 1 /\ (c * q + (r + 1)) \div c = q
    BY <2>1, SMT
  <2> QED
    BY <1>1, <1>3, <2>1, <2>2, Zenon
<1> QED
  BY <1>2, <1>3

(* A multiple of the divisor. *)
LEMMA DivMultiple ==
  ASSUME NEW c \in Nat \ {0}, NEW n \in Int
  PROVE  (c * n) \div c = n
BY SMT

(* Products grow with a factor. *)
LEMMA TimesMonotonic ==
  ASSUME NEW c \in Nat, NEW a \in Int, NEW b \in Int, a <= b
  PROVE  c * a <= c * b
<1>1. PICK d \in Nat : b = a + d
  <2>1. b - a \in Nat /\ b = a + (b - a)
    OBVIOUS
  <2> QED
    BY <2>1
<1>2. c * b = c * a + c * d /\ c * d \in Nat
  BY <1>1, SMT
<1> QED
  BY <1>2

(* Multiplying a sum or a difference. *)
LEMMA TimesSum ==
  ASSUME NEW c \in Int, NEW a \in Int, NEW b \in Int
  PROVE  /\ c * (a + b) = c * a + c * b
         /\ c * (a - b) = c * a - c * b
         /\ c * a \in Int /\ c * b \in Int
BY SMT
=============================================================================
