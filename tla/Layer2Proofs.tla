---------------------------- MODULE Layer2Proofs ----------------------------
(***************************************************************************)
(* What the callback of Layer 2 promises, for everything that can be sent. *)
(*                                                                         *)
(* The decoder is linear: on a codeword with errors, every pass does to    *)
(* the codeword what it does to the errors alone, so it is enough to       *)
(* follow the errors.  Of at most two, no pass gives up a row or a column, *)
(* and after the third none is left in a data row.  The encoder makes      *)
(* codewords, the interleaver and the fields of the messages can be read   *)
(* back, and so what is reported is what was sent.                         *)
(***************************************************************************)
EXTENDS Layer2, ModArith, FiniteSetTheorems, TLAPS

(* The exclusive or of two words has as many ones as both together, but    *)
(* for an even number.                                                     *)
LEMMA CardSymDiff ==
  ASSUME NEW a, NEW b, IsFiniteSet(a), IsFiniteSet(b)
  PROVE  \E n \in Nat : Cardinality(SymDiff(a, b)) + 2 * n = Cardinality(a) + Cardinality(b)
<1>1. /\ IsFiniteSet(a \ b) /\ IsFiniteSet(b \ a) /\ IsFiniteSet(a \cap b)
  BY FS_Difference, FS_Intersection
<1>2. PICK x \in Nat : x = Cardinality(a \ b)
  BY <1>1, FS_CardinalityType
<1>3. PICK y \in Nat : y = Cardinality(b \ a)
  BY <1>1, FS_CardinalityType
<1>4. PICK n \in Nat : n = Cardinality(a \cap b)
  BY <1>1, FS_CardinalityType
<1>5. Cardinality(a) = x + n
  <2>1. a = (a \ b) \cup (a \cap b) /\ (a \ b) \cap (a \cap b) = {}
    OBVIOUS
  <2>2. Cardinality((a \ b) \cup (a \cap b))
          = Cardinality(a \ b) + Cardinality(a \cap b) - Cardinality((a \ b) \cap (a \cap b))
    BY <1>1, FS_Union
  <2> QED
    <3>1. Cardinality((a \ b) \cap (a \cap b)) = 0
      BY <2>1, FS_EmptySet, Zenon
    <3>2. Cardinality((a \ b) \cup (a \cap b)) = x + n - 0
      BY <2>2, <3>1, <1>2, <1>4, Zenon
    <3>3. Cardinality(a) = x + n - 0
      BY <2>1, <3>2, Zenon
    <3> QED
      BY <3>3
<1>6. Cardinality(b) = y + n
  <2>1. b = (b \ a) \cup (a \cap b) /\ (b \ a) \cap (a \cap b) = {}
    OBVIOUS
  <2>2. Cardinality((b \ a) \cup (a \cap b))
          = Cardinality(b \ a) + Cardinality(a \cap b) - Cardinality((b \ a) \cap (a \cap b))
    BY <1>1, FS_Union
  <2> QED
    <3>1. Cardinality((b \ a) \cap (a \cap b)) = 0
      BY <2>1, FS_EmptySet, Zenon
    <3>2. Cardinality((b \ a) \cup (a \cap b)) = y + n - 0
      BY <2>2, <3>1, <1>3, <1>4, Zenon
    <3>3. Cardinality(b) = y + n - 0
      BY <2>1, <3>2, Zenon
    <3> QED
      BY <3>3
<1>7. Cardinality(SymDiff(a, b)) = x + y
  <2>1. SymDiff(a, b) = (a \ b) \cup (b \ a) /\ (a \ b) \cap (b \ a) = {}
    BY DEF SymDiff
  <2>2. Cardinality((a \ b) \cup (b \ a))
          = Cardinality(a \ b) + Cardinality(b \ a) - Cardinality((a \ b) \cap (b \ a))
    BY <1>1, FS_Union
  <2> QED
    BY <2>1, <2>2, <1>2, <1>3, FS_EmptySet
<1> QED
  BY <1>5, <1>6, <1>7

(* The parity of finitely many bits is a bit. *)
LEMMA ParityRange ==
  ASSUME NEW w, NEW P, IsFiniteSet(w)
  PROVE  Parity(w, P) \in {0, 1}
<1>1. IsFiniteSet(w \cap P)
  BY FS_Intersection
<1>2. PICK n \in Nat : n = Cardinality(w \cap P)
  BY <1>1, FS_CardinalityType
<1> QED
  BY <1>2 DEF Parity

(* Parity is linear: that of an exclusive or is the sum of the parities. *)
LEMMA ParityLinear ==
  ASSUME NEW a, NEW b, NEW P, IsFiniteSet(a), IsFiniteSet(b)
  PROVE  Parity(SymDiff(a, b), P) = (Parity(a, P) + Parity(b, P)) % 2
<1>1. SymDiff(a, b) \cap P = SymDiff(a \cap P, b \cap P)
  BY DEF SymDiff
<1>2. IsFiniteSet(a \cap P) /\ IsFiniteSet(b \cap P)
  BY FS_Intersection
<1>3. PICK n \in Nat : Cardinality(SymDiff(a \cap P, b \cap P)) + 2 * n
                         = Cardinality(a \cap P) + Cardinality(b \cap P)
  BY <1>2, CardSymDiff
<1>4. PICK x \in Nat : x = Cardinality(a \cap P)
  BY <1>2, FS_CardinalityType
<1>5. PICK y \in Nat : y = Cardinality(b \cap P)
  BY <1>2, FS_CardinalityType
<1>6. IsFiniteSet(SymDiff(a \cap P, b \cap P))
  BY <1>2, FS_Union, FS_Difference DEF SymDiff
<1>7. PICK z \in Nat : z = Cardinality(SymDiff(a \cap P, b \cap P))
  BY <1>6, FS_CardinalityType
<1>8. z + 2 * n = x + y
  BY <1>3, <1>4, <1>5, <1>7
<1>9. z % 2 = ((x % 2) + (y % 2)) % 2
  BY <1>8
<1> QED
  BY <1>1, <1>4, <1>5, <1>7, <1>9 DEF Parity

(* The parity of a single one is whether the check looks at it. *)
LEMMA ParitySingle ==
  ASSUME NEW i, NEW P
  PROVE  Parity({i}, P) = IF i \in P THEN 1 ELSE 0
<1>1. {i} \cap P = IF i \in P THEN {i} ELSE {}
  OBVIOUS
<1>2. Cardinality({i}) = 1 /\ Cardinality({}) = 0
  BY FS_Singleton, FS_EmptySet
<1> QED
  BY <1>1, <1>2 DEF Parity

(* A word without ones has parity 0. *)
LEMMA ParityNone ==
  ASSUME NEW P
  PROVE  Parity({}, P) = 0
<1>1. {} \cap P = {}
  OBVIOUS
<1> QED
  BY <1>1, FS_EmptySet DEF Parity

-----------------------------------------------------------------------------
(* Syndromes. *)

(* The positions whose parity bit p of a word of dataLen data bits checks. *)
Check(dataLen, p) == {i \in Covers[p] : i < dataLen} \cup {dataLen + p}

(* The four sets of data bits a row's parity bits cover. *)
LEMMA CoversAre ==
  /\ Covers[0] = {0, 1, 3, 4, 6, 8, 10} /\ Covers[1] = {0, 2, 3, 5, 6, 9, 10}
  /\ Covers[2] = {1, 2, 3, 7, 8, 9, 10} /\ Covers[3] = {4, 5, 6, 7, 8, 9, 10}
BY DEF Covers

(* A syndrome is made of the parities of the four checks. *)
LEMMA SyndromeIs ==
  ASSUME NEW w, NEW L
  PROVE  Syndrome(w, L) = Parity(w, Check(L, 0)) + 2 * Parity(w, Check(L, 1))
                             + 4 * Parity(w, Check(L, 2)) + 8 * Parity(w, Check(L, 3))
BY DEF Syndrome, Check

(* The syndrome of a word is 0 when all its four checks are even, and only *)
(* then.                                                                   *)
LEMMA ZeroSyndrome ==
  ASSUME NEW w, NEW L \in {9, 11}, IsFiniteSet(w)
  PROVE  Syndrome(w, L) = 0 <=> \A p \in 0..3 : Parity(w, Check(L, p)) = 0
<1>1. \A p \in 0..3 : Parity(w, Check(L, p)) \in {0, 1}
  BY ParityRange
<1>2. PICK x0 \in {0, 1} : x0 = Parity(w, Check(L, 0))
  BY <1>1
<1>3. PICK x1 \in {0, 1} : x1 = Parity(w, Check(L, 1))
  BY <1>1
<1>4. PICK x2 \in {0, 1} : x2 = Parity(w, Check(L, 2))
  BY <1>1
<1>5. PICK x3 \in {0, 1} : x3 = Parity(w, Check(L, 3))
  BY <1>1
<1>6. Syndrome(w, L) = x0 + 2 * x1 + 4 * x2 + 8 * x3
  BY <1>2, <1>3, <1>4, <1>5, SyndromeIs, Zenon
<1>7. 0..3 = {0, 1, 2, 3}
  OBVIOUS
<1>8. Syndrome(w, L) = 0 <=> x0 = 0 /\ x1 = 0 /\ x2 = 0 /\ x3 = 0
  BY <1>6
<1> QED
  BY <1>2, <1>3, <1>4, <1>5, <1>7, <1>8, Zenon

(* The syndrome of a word of the code with errors on it is that of the     *)
(* errors alone: why which message was sent does not matter to the         *)
(* decoder.                                                                *)
LEMMA SyndromeOfErrors ==
  ASSUME NEW w, NEW e, NEW L \in {9, 11}, IsFiniteSet(w), IsFiniteSet(e),
         Syndrome(w, L) = 0
  PROVE  Syndrome(SymDiff(w, e), L) = Syndrome(e, L)
<1>1. ASSUME NEW p \in 0..3
      PROVE  Parity(SymDiff(w, e), Check(L, p)) = Parity(e, Check(L, p))
  <2>1. Parity(w, Check(L, p)) = 0
    BY ZeroSyndrome
  <2>2. PICK x \in {0, 1} : x = Parity(e, Check(L, p))
    BY ParityRange
  <2>3. Parity(SymDiff(w, e), Check(L, p))
          = (Parity(w, Check(L, p)) + Parity(e, Check(L, p))) % 2
    BY ParityLinear
  <2> QED
    BY <2>1, <2>2, <2>3
<1>2. 0 \in 0..3 /\ 1 \in 0..3 /\ 2 \in 0..3 /\ 3 \in 0..3
  OBVIOUS
<1> QED
  BY <1>1, <1>2, SyndromeIs

(* A syndrome is a number of four bits. *)
LEMMA SyndromeRange ==
  ASSUME NEW w, NEW L, IsFiniteSet(w)
  PROVE  Syndrome(w, L) \in 0..15
<1>1. \A p \in 0..3 : Parity(w, Check(L, p)) \in {0, 1}
  BY ParityRange
<1> QED
  BY <1>1, SyndromeIs

(* The exclusive or of two words with finitely many ones has finitely      *)
(* many.                                                                   *)
LEMMA SymDiffFinite ==
  ASSUME NEW a, NEW b, IsFiniteSet(a), IsFiniteSet(b)
  PROVE  IsFiniteSet(SymDiff(a, b))
BY FS_Union, FS_Difference DEF SymDiff

(* The correction of a word of the code with errors on it does to the word *)
(* what it does to the errors alone, and calls both correctable or         *)
(* neither.                                                                *)
LEMMA CorrectLinear ==
  ASSUME NEW w, NEW e, NEW L \in {9, 11}, NEW t, IsFiniteSet(w), IsFiniteSet(e),
         Syndrome(w, L) = 0
  PROVE  /\ Correct(SymDiff(w, e), L, t).word = SymDiff(w, Correct(e, L, t).word)
         /\ Correct(SymDiff(w, e), L, t).ok = Correct(e, L, t).ok
<1>1. PICK s : s = Syndrome(e, L) /\ s = Syndrome(SymDiff(w, e), L)
  BY SyndromeOfErrors
<1>2. SymDiff(SymDiff(w, e), {t[s]}) = SymDiff(w, SymDiff(e, {t[s]}))
  BY DEF SymDiff
<1> QED
  BY <1>1, <1>2 DEF Correct

(* kRow15ErrPos has every bit of a row at the syndrome of an error there   *)
(* ...                                                                     *)
LEMMA RowErrPosInverse ==
  ASSUME NEW i \in Cols
  PROVE  Syndrome({i}, 11) \in 1..15 /\ kRow15ErrPos[Syndrome({i}, 11)] = i
<1>1. /\ Check(11, 0) = {0, 1, 3, 4, 6, 8, 10, 11}
      /\ Check(11, 1) = {0, 2, 3, 5, 6, 9, 10, 12}
      /\ Check(11, 2) = {1, 2, 3, 7, 8, 9, 10, 13}
      /\ Check(11, 3) = {4, 5, 6, 7, 8, 9, 10, 14}
  BY CoversAre DEF Check
<1>2. Syndrome({i}, 11) = (IF i \in Check(11, 0) THEN 1 ELSE 0)
                           + 2 * (IF i \in Check(11, 1) THEN 1 ELSE 0)
                           + 4 * (IF i \in Check(11, 2) THEN 1 ELSE 0)
                           + 8 * (IF i \in Check(11, 3) THEN 1 ELSE 0)
  BY SyndromeIs, ParitySingle, Zenon
<1> QED
  BY <1>1, <1>2 DEF kRow15ErrPos, Cols

(* ... and kCol13ErrPos every bit of a column. *)
LEMMA ColErrPosInverse ==
  ASSUME NEW i \in Rows
  PROVE  Syndrome({i}, 9) \in 1..13 /\ kCol13ErrPos[Syndrome({i}, 9)] = i
<1>1. /\ Check(9, 0) = {0, 1, 3, 4, 6, 8, 9}
      /\ Check(9, 1) = {0, 2, 3, 5, 6, 10}
      /\ Check(9, 2) = {1, 2, 3, 7, 8, 11}
      /\ Check(9, 3) = {4, 5, 6, 7, 8, 12}
  BY CoversAre DEF Check
<1>2. Syndrome({i}, 9) = (IF i \in Check(9, 0) THEN 1 ELSE 0)
                           + 2 * (IF i \in Check(9, 1) THEN 1 ELSE 0)
                           + 4 * (IF i \in Check(9, 2) THEN 1 ELSE 0)
                           + 8 * (IF i \in Check(9, 3) THEN 1 ELSE 0)
  BY SyndromeIs, ParitySingle, Zenon
<1> QED
  BY <1>1, <1>2 DEF kCol13ErrPos, Rows

(* Two words of one syndrome agree in every check. *)
LEMMA SameSyndrome ==
  ASSUME NEW a, NEW b, NEW L, IsFiniteSet(a), IsFiniteSet(b),
         Syndrome(a, L) = Syndrome(b, L)
  PROVE  \A p \in 0..3 : Parity(a, Check(L, p)) = Parity(b, Check(L, p))
<1>1. \A p \in 0..3 : Parity(a, Check(L, p)) \in {0, 1} /\ Parity(b, Check(L, p)) \in {0, 1}
  BY ParityRange
<1>2. PICK x0 \in {0, 1}, y0 \in {0, 1} : x0 = Parity(a, Check(L, 0)) /\ y0 = Parity(b, Check(L, 0))
  BY <1>1
<1>3. PICK x1 \in {0, 1}, y1 \in {0, 1} : x1 = Parity(a, Check(L, 1)) /\ y1 = Parity(b, Check(L, 1))
  BY <1>1
<1>4. PICK x2 \in {0, 1}, y2 \in {0, 1} : x2 = Parity(a, Check(L, 2)) /\ y2 = Parity(b, Check(L, 2))
  BY <1>1
<1>5. PICK x3 \in {0, 1}, y3 \in {0, 1} : x3 = Parity(a, Check(L, 3)) /\ y3 = Parity(b, Check(L, 3))
  BY <1>1
<1>6. /\ Syndrome(a, L) = x0 + 2 * x1 + 4 * x2 + 8 * x3
      /\ Syndrome(b, L) = y0 + 2 * y1 + 4 * y2 + 8 * y3
  BY <1>2, <1>3, <1>4, <1>5, SyndromeIs
<1>7. 0..3 = {0, 1, 2, 3}
  OBVIOUS
<1>8. x0 + 2 * x1 + 4 * x2 + 8 * x3 = y0 + 2 * y1 + 4 * y2 + 8 * y3
  BY <1>6, Zenon
<1>9. x0 = y0
  BY <1>8
<1>10. x1 = y1
  BY <1>8, <1>9
<1>11. x2 = y2 /\ x3 = y3
  BY <1>8, <1>9, <1>10
<1> QED
  BY <1>2, <1>3, <1>4, <1>5, <1>7, <1>9, <1>10, <1>11, Zenon

(* A word without ones has the syndrome 0. *)
LEMMA EmptySyndrome ==
  ASSUME NEW L
  PROVE  Syndrome({}, L) = 0
BY SyndromeIs, ParityNone

(* Words of at most two ones are finite. *)
LEMMA SingleFinite ==
  ASSUME NEW i, NEW j
  PROVE  IsFiniteSet({i}) /\ IsFiniteSet({j}) /\ IsFiniteSet({i, j}) /\ IsFiniteSet({})
<1>1. {i, j} = {i} \cup {j}
  OBVIOUS
<1>2. IsFiniteSet({i}) /\ IsFiniteSet({j}) /\ IsFiniteSet({})
  BY FS_Singleton, FS_EmptySet
<1>3. IsFiniteSet({i} \cup {j})
  BY <1>2, FS_Union
<1> QED
  BY <1>1, <1>2, <1>3

(* The parity of two ones is the sum of their parities. *)
LEMMA PairParity ==
  ASSUME NEW P, NEW i, NEW j, i # j
  PROVE  Parity({i, j}, P) = (Parity({i}, P) + Parity({j}, P)) % 2
<1>1. {i, j} = SymDiff({i}, {j})
  BY DEF SymDiff
<1>2. Parity(SymDiff({i}, {j}), P) = (Parity({i}, P) + Parity({j}, P)) % 2
  <2>1. IsFiniteSet({i}) /\ IsFiniteSet({j})
    BY SingleFinite
  <2> QED
    BY <2>1, ParityLinear
<1> QED
  BY <1>1, <1>2, Zenon

(* A syndrome that the table knows makes the correction flip the bit it    *)
(* names.                                                                  *)
LEMMA CorrectFlip ==
  ASSUME NEW w, NEW L, NEW t, NEW s, NEW k \in Nat,
         s = Syndrome(w, L), s # 0, t[s] = k
  PROVE  Correct(w, L, t) = [ok |-> TRUE, word |-> SymDiff(w, {k})]
BY DEF Correct

(* Without an error nothing is corrected. *)
LEMMA CorrectNone ==
  ASSUME NEW L, NEW t
  PROVE  Correct({}, L, t).ok = TRUE /\ Correct({}, L, t).word = {}
BY EmptySyndrome DEF Correct

(* A single error in a row is corrected, wherever it is ... *)
LEMMA CorrectRowSingle ==
  ASSUME NEW i \in Cols
  PROVE  correct_row({i}).ok = TRUE /\ correct_row({i}).word = {}
<1>1. PICK s \in 1..15 : s = Syndrome({i}, 11)
  BY RowErrPosInverse
<1>2. kRow15ErrPos[s] = i /\ i >= 0 /\ s # 0
  BY <1>1, RowErrPosInverse DEF Cols
<1>3. SymDiff({i}, {i}) = {}
  BY DEF SymDiff
<1> QED
  BY <1>1, <1>2, <1>3, CorrectFlip DEF correct_row, Cols

(* ... and so is a single error in a column. *)
LEMMA CorrectColSingle ==
  ASSUME NEW i \in Rows
  PROVE  correct_col({i}).ok = TRUE /\ correct_col({i}).word = {}
<1>1. PICK s \in 1..13 : s = Syndrome({i}, 9)
  BY ColErrPosInverse
<1>2. kCol13ErrPos[s] = i /\ i >= 0 /\ s # 0
  BY <1>1, ColErrPosInverse DEF Rows
<1>3. SymDiff({i}, {i}) = {}
  BY DEF SymDiff
<1> QED
  BY <1>1, <1>2, <1>3, CorrectFlip DEF correct_col, Rows

(* The code of the rows is perfect: every syndrome but 0 is that of a      *)
(* single error, the one kRow15ErrPos names.                               *)
LEMMA RowErrPosOnto ==
  ASSUME NEW s \in 1..15
  PROVE  kRow15ErrPos[s] \in Cols /\ Syndrome({kRow15ErrPos[s]}, 11) = s
<1>1. ASSUME NEW i \in Cols, NEW j \in Cols, Syndrome({i}, 11) = Syndrome({j}, 11)
      PROVE  i = j
  BY <1>1, RowErrPosInverse, Zenon
<1>2. /\ Check(11, 0) = {0, 1, 3, 4, 6, 8, 10, 11}
      /\ Check(11, 1) = {0, 2, 3, 5, 6, 9, 10, 12}
      /\ Check(11, 2) = {1, 2, 3, 7, 8, 9, 10, 13}
      /\ Check(11, 3) = {4, 5, 6, 7, 8, 9, 10, 14}
  BY CoversAre DEF Check
<1>3. PICK i : i = kRow15ErrPos[s]
  OBVIOUS
<1>4. Syndrome({i}, 11) = (IF i \in Check(11, 0) THEN 1 ELSE 0)
                           + 2 * (IF i \in Check(11, 1) THEN 1 ELSE 0)
                           + 4 * (IF i \in Check(11, 2) THEN 1 ELSE 0)
                           + 8 * (IF i \in Check(11, 3) THEN 1 ELSE 0)
  BY SyndromeIs, ParitySingle, Zenon
<1> QED
  BY <1>2, <1>3, <1>4 DEF kRow15ErrPos, Cols

(* Two errors in a row are therefore taken for one elsewhere: the          *)
(* correction calls the row correctable and adds a third.                  *)
LEMMA CorrectRowPair ==
  ASSUME NEW i \in Cols, NEW j \in Cols, i # j
  PROVE  /\ correct_row({i, j}).ok = TRUE
         /\ \E k \in Cols \ {i, j} : correct_row({i, j}).word = {i, j, k}
<1>1. PICK s \in 0..15 : s = Syndrome({i, j}, 11)
  BY SingleFinite, SyndromeRange
<1>2. ASSUME NEW k \in Cols, NEW m \in Cols, NEW n, {k, m} = {i, j}, k # m, n = {i, j}
      PROVE  Syndrome({k}, 11) # Syndrome({i, j}, 11)
  <2>1. SUFFICES ASSUME Syndrome({k}, 11) = Syndrome({k, m}, 11) PROVE FALSE
    BY <1>2
  <2>2. ASSUME NEW p \in 0..3 PROVE Parity({m}, Check(11, p)) = 0
    <3>1. PICK x \in {0, 1} : x = Parity({k}, Check(11, p))
      BY SingleFinite, ParityRange
    <3>2. PICK y \in {0, 1} : y = Parity({m}, Check(11, p))
      BY SingleFinite, ParityRange
    <3>3. Parity({k, m}, Check(11, p))
            = (Parity({k}, Check(11, p)) + Parity({m}, Check(11, p))) % 2
      BY <1>2, PairParity, Zenon
    <3>4. Parity({k}, Check(11, p)) = Parity({k, m}, Check(11, p))
      <4>1. IsFiniteSet({k}) /\ IsFiniteSet({k, m})
        BY SingleFinite
      <4> QED
        BY <2>1, <4>1, SameSyndrome
    <3> QED
      BY <3>1, <3>2, <3>3, <3>4
  <2>3. Syndrome({m}, 11) = 0
    BY <2>2, ZeroSyndrome, SingleFinite
  <2> QED
    BY <2>3, RowErrPosInverse
<1>3. s # 0
  <2>1. SUFFICES ASSUME s = 0 PROVE FALSE
    OBVIOUS
  <2>2. ASSUME NEW p \in 0..3
        PROVE  Parity({i}, Check(11, p)) = Parity({j}, Check(11, p))
    <3>1. PICK x \in {0, 1} : x = Parity({i}, Check(11, p))
      BY SingleFinite, ParityRange
    <3>2. PICK y \in {0, 1} : y = Parity({j}, Check(11, p))
      BY SingleFinite, ParityRange
    <3>3. Parity({i, j}, Check(11, p))
            = (Parity({i}, Check(11, p)) + Parity({j}, Check(11, p))) % 2
      BY PairParity, Zenon
    <3>4. Parity({i, j}, Check(11, p)) = 0
      BY <1>1, <2>1, ZeroSyndrome, SingleFinite
    <3> QED
      BY <3>1, <3>2, <3>3, <3>4
  <2>3. Syndrome({i}, 11) = Syndrome({j}, 11)
    <3>1. 0 \in 0..3 /\ 1 \in 0..3 /\ 2 \in 0..3 /\ 3 \in 0..3
      OBVIOUS
    <3> QED
      BY <2>2, <3>1, SyndromeIs
  <2> QED
    BY <2>3, RowErrPosInverse, Zenon
<1>4. PICK k \in Cols : k = kRow15ErrPos[s] /\ Syndrome({k}, 11) = s
  <2>1. s \in 1..15
    BY <1>3
  <2> QED
    BY <2>1, RowErrPosOnto, Zenon
<1>5. k # i
  BY <1>1, <1>2, <1>4
<1>6. k # j
  <2>1. {j, i} = {i, j}
    OBVIOUS
  <2> QED
    BY <2>1, <1>1, <1>2, <1>4
<1>7. SymDiff({i, j}, {k}) = {i, j, k}
  BY <1>5, <1>6 DEF SymDiff
<1>8. k >= 0
  BY DEF Cols
<1>9. correct_row({i, j}) = [ok |-> TRUE, word |-> {i, j, k}]
  <2>1. k \in Nat
    BY <1>8 DEF Cols
  <2>2. Correct({i, j}, 11, kRow15ErrPos) = [ok |-> TRUE, word |-> SymDiff({i, j}, {k})]
    <3>1. s = Syndrome({i, j}, 11) /\ s # 0 /\ kRow15ErrPos[s] = k
      BY <1>1, <1>3, <1>4
    <3> QED
      BY <2>1, <3>1, CorrectFlip, Zenon
  <2> QED
    BY <1>7, <2>2 DEF correct_row
<1> QED
  BY <1>5, <1>6, <1>9

(* Two errors among the parity bits of a column make the correction add a  *)
(* third, in a data row, and never point nowhere.                          *)
LEMMA CorrectColPair ==
  ASSUME NEW i \in 9..12, NEW j \in 9..12, i # j
  PROVE  /\ correct_col({i, j}).ok = TRUE
         /\ \E d \in DataRows : correct_col({i, j}).word = {i, j, d}
<1>1. /\ Check(9, 0) = {0, 1, 3, 4, 6, 8, 9}
      /\ Check(9, 1) = {0, 2, 3, 5, 6, 10}
      /\ Check(9, 2) = {1, 2, 3, 7, 8, 11}
      /\ Check(9, 3) = {4, 5, 6, 7, 8, 12}
  BY CoversAre DEF Check
<1>2. ASSUME NEW p \in 0..3
      PROVE  Parity({i, j}, Check(9, p)) = IF i = 9 + p \/ j = 9 + p THEN 1 ELSE 0
  <2>1. Parity({i}, Check(9, p)) = IF i = 9 + p THEN 1 ELSE 0
    BY <1>1, ParitySingle
  <2>2. Parity({j}, Check(9, p)) = IF j = 9 + p THEN 1 ELSE 0
    BY <1>1, ParitySingle
  <2>3. Parity({i, j}, Check(9, p))
          = (Parity({i}, Check(9, p)) + Parity({j}, Check(9, p))) % 2
    BY PairParity, Zenon
  <2> QED
    BY <2>1, <2>2, <2>3
<1>3. Syndrome({i, j}, 9) = (IF i = 9 \/ j = 9 THEN 1 ELSE 0)
                             + 2 * (IF i = 10 \/ j = 10 THEN 1 ELSE 0)
                             + 4 * (IF i = 11 \/ j = 11 THEN 1 ELSE 0)
                             + 8 * (IF i = 12 \/ j = 12 THEN 1 ELSE 0)
  BY <1>2, SyndromeIs
<1>4. PICK s : s = Syndrome({i, j}, 9)
  OBVIOUS
<1>5. s \in {3, 5, 6, 9, 10, 12}
  BY <1>3, <1>4
<1>6. PICK d \in DataRows : d = kCol13ErrPos[s]
  BY <1>5 DEF kCol13ErrPos, DataRows
<1>7. SymDiff({i, j}, {d}) = {i, j, d}
  BY DEF SymDiff, DataRows
<1>8. d >= 0 /\ s # 0
  BY <1>5 DEF DataRows
<1>9. correct_col({i, j}) = [ok |-> TRUE, word |-> {i, j, d}]
  <2>1. d \in Nat
    BY <1>8 DEF DataRows
  <2>2. Correct({i, j}, 9, kCol13ErrPos) = [ok |-> TRUE, word |-> SymDiff({i, j}, {d})]
    BY <1>4, <1>6, <1>8, <2>1, CorrectFlip, Zenon
  <2> QED
    BY <1>7, <2>2 DEF correct_col
<1> QED
  BY <1>9

-----------------------------------------------------------------------------
(* The matrix. *)

(* The matrix as received: what of its 196 bits is 1. *)
Matrices == SUBSET (0..195)

(* No two cells are at the same index, the data rows come first, and no    *)
(* cell is at 195.                                                         *)
LEMMA Place ==
  ASSUME NEW r \in Rows, NEW c \in Cols
  PROVE  /\ r * 15 + c \in 0..194
         /\ r \in DataRows <=> r * 15 + c < 135
         /\ \A q \in Rows, d \in Cols : q * 15 + d = r * 15 + c => q = r /\ d = c
BY DEF Rows, Cols, DataRows

(* Every index but 195 is that of a cell. *)
LEMMA Places ==
  ASSUME NEW k \in 0..194
  PROVE  \E r \in Rows, c \in Cols : k = r * 15 + c
<1>1. PICK q \in Int, s \in 0..14 : k = 15 * q + s
  <2>1. 15 \in Nat \ {0} /\ k \in Int /\ 0..(15 - 1) = 0..14
    OBVIOUS
  <2>2. \E q \in Int, s \in 0..(15 - 1) : s = k % 15 /\ q = k \div 15 /\ k = 15 * q + s
    BY <2>1, Quotient
  <2> QED
    BY <2>1, <2>2
<1>2. q \in Rows /\ s \in Cols /\ k = q * 15 + s
  BY <1>1 DEF Rows, Cols
<1> QED
  BY <1>2

(* Matrices with the same cells, and the same bit 195, are the same. *)
LEMMA SameMatrix ==
  ASSUME NEW a \in Matrices, NEW b \in Matrices,
         \A r \in Rows, c \in Cols : r * 15 + c \in a <=> r * 15 + c \in b,
         195 \in a <=> 195 \in b
  PROVE  a = b
<1>1. ASSUME NEW k \in 0..195 PROVE k \in a <=> k \in b
  <2>1. CASE k = 195
    BY <2>1
  <2>2. CASE k # 195
    <3>1. k \in 0..194
      BY <2>2
    <3>2. PICK r \in Rows, c \in Cols : k = r * 15 + c
      BY <3>1, Places
    <3> QED
      BY <3>2
  <2> QED
    BY <2>1, <2>2
<1> QED
  BY <1>1 DEF Matrices

(* Rows, columns and matrices are finite. *)
LEMMA WordsFinite ==
  /\ \A w \in SUBSET Cols : IsFiniteSet(w)
  /\ \A w \in SUBSET Rows : IsFiniteSet(w)
  /\ \A w \in Matrices : IsFiniteSet(w)
<1>1. IsFiniteSet(0..14) /\ IsFiniteSet(0..12) /\ IsFiniteSet(0..195)
  <2>1. 0 \in Int /\ 12 \in Int /\ 14 \in Int /\ 195 \in Int
    OBVIOUS
  <2> QED
    BY <2>1, FS_Interval, Zenon
<1> QED
  BY <1>1, FS_Subset DEF Cols, Rows, Matrices

(* A row and a column of a matrix are words of their lengths. *)
LEMMA RowColType ==
  ASSUME NEW m, NEW i
  PROVE  /\ Row(m, i) \in SUBSET Cols /\ Col(m, i) \in SUBSET Rows
         /\ IsFiniteSet(Row(m, i)) /\ IsFiniteSet(Col(m, i))
<1>1. Row(m, i) \in SUBSET Cols /\ Col(m, i) \in SUBSET Rows
  BY DEF Row, Col
<1> QED
  BY <1>1, WordsFinite

(* A corrected row is a row, and a corrected column a column. *)
LEMMA CorrectType ==
  /\ \A w \in SUBSET Cols : correct_row(w).word \in SUBSET Cols
  /\ \A w \in SUBSET Rows : correct_col(w).word \in SUBSET Rows
<1>1. ASSUME NEW w \in SUBSET Cols
      PROVE  correct_row(w).word \in SUBSET Cols
  <2>1. PICK s \in 0..15 : s = Syndrome(w, 11)
    BY WordsFinite, SyndromeRange
  <2>2. s # 0 => kRow15ErrPos[s] \in Cols
    BY RowErrPosOnto
  <2>3. s # 0 => SymDiff(w, {kRow15ErrPos[s]}) \in SUBSET Cols
    BY <2>2 DEF SymDiff
  <2> QED
    BY <2>1, <2>3 DEF correct_row, Correct
<1>2. ASSUME NEW w \in SUBSET Rows
      PROVE  correct_col(w).word \in SUBSET Rows
  <2>1. PICK s \in 0..15 : s = Syndrome(w, 9)
    BY WordsFinite, SyndromeRange
  <2>2. s # 0 => kCol13ErrPos[s] < 0 \/ kCol13ErrPos[s] \in Rows
    BY DEF kCol13ErrPos, Rows
  <2>3. s # 0 /\ ~(kCol13ErrPos[s] < 0) => SymDiff(w, {kCol13ErrPos[s]}) \in SUBSET Rows
    BY <2>2 DEF SymDiff
  <2> QED
    BY <2>1, <2>3 DEF correct_col, Correct
<1> QED
  BY <1>1, <1>2

(* The pass over the rows corrects each data row by itself and leaves the  *)
(* rest alone.                                                             *)
LEMMA RowPassAt ==
  ASSUME NEW m \in Matrices
  PROVE  /\ RowPass(m) \in Matrices
         /\ \A r \in DataRows, c \in Cols :
               r * 15 + c \in RowPass(m) <=> c \in correct_row(Row(m, r)).word
         /\ \A k \in 135..195 : k \in RowPass(m) <=> k \in m
<1>1. \A r \in DataRows : correct_row(Row(m, r)).word \in SUBSET Cols
  BY RowColType, CorrectType
<1>2. ASSUME NEW k
      PROVE  k \in RowPass(m) <=>
               \/ \E r \in DataRows : \E c \in correct_row(Row(m, r)).word : k = r * 15 + c
               \/ k \in m /\ k >= 135
  BY DEF RowPass
<1>3. \A r \in DataRows, c \in Cols : r * 15 + c \in 0..134
  BY DEF DataRows, Cols
<1>4. RowPass(m) \in Matrices
  <2>1. ASSUME NEW k \in RowPass(m) PROVE k \in 0..195
    <3>1. CASE k \in m /\ k >= 135
      BY <3>1 DEF Matrices
    <3>2. CASE \E r \in DataRows : \E c \in correct_row(Row(m, r)).word : k = r * 15 + c
      <4>1. PICK r \in DataRows : \E c \in correct_row(Row(m, r)).word : k = r * 15 + c
        BY <3>2
      <4>2. PICK c \in Cols : k = r * 15 + c
        BY <1>1, <4>1
      <4> QED
        BY <1>3, <4>2
    <3> QED
      BY <1>2, <3>1, <3>2
  <2> QED
    BY <2>1 DEF Matrices
<1>5. ASSUME NEW r \in DataRows, NEW c \in Cols
      PROVE  r * 15 + c \in RowPass(m) <=> c \in correct_row(Row(m, r)).word
  <2>1. r \in Rows /\ DataRows \subseteq Rows
    BY DEF DataRows, Rows
  <2>2. ASSUME r * 15 + c \in RowPass(m)
        PROVE  c \in correct_row(Row(m, r)).word
    <3>1. ~(r * 15 + c >= 135)
      BY <1>3
    <3>2. PICK q \in DataRows : \E d \in correct_row(Row(m, q)).word : r * 15 + c = q * 15 + d
      BY <1>2, <2>2, <3>1
    <3>3. PICK d \in correct_row(Row(m, q)).word : r * 15 + c = q * 15 + d
      BY <3>2
    <3>4. q = r /\ d = c
      BY <1>1, <2>1, <3>3, Place
    <3> QED
      BY <3>3, <3>4
  <2>3. ASSUME c \in correct_row(Row(m, r)).word
        PROVE  r * 15 + c \in RowPass(m)
    BY <1>2, <2>3
  <2> QED
    BY <2>2, <2>3
<1>6. ASSUME NEW k \in 135..195
      PROVE  k \in RowPass(m) <=> k \in m
  <2>1. k >= 135 /\ ~(k \in 0..134)
    OBVIOUS
  <2>2. ~\E r \in DataRows : \E c \in correct_row(Row(m, r)).word : k = r * 15 + c
    BY <1>1, <1>3, <2>1
  <2> QED
    BY <1>2, <2>1, <2>2
<1> QED
  BY <1>4, <1>5, <1>6

(* The pass over the columns corrects each column by itself and leaves bit *)
(* 195 alone.                                                              *)
LEMMA ColPassAt ==
  ASSUME NEW m \in Matrices
  PROVE  /\ ColPass(m) \in Matrices
         /\ \A r \in Rows, c \in Cols :
               r * 15 + c \in ColPass(m) <=> r \in correct_col(Col(m, c)).word
         /\ 195 \in ColPass(m) <=> 195 \in m
<1>1. \A c \in Cols : correct_col(Col(m, c)).word \in SUBSET Rows
  BY RowColType, CorrectType
<1>2. ASSUME NEW k
      PROVE  k \in ColPass(m) <=>
               \/ \E c \in Cols : \E r \in correct_col(Col(m, c)).word : k = r * 15 + c
               \/ k \in m /\ k = 195
  BY DEF ColPass
<1>3. \A r \in Rows, c \in Cols : r * 15 + c \in 0..194
  BY Place
<1>4. ColPass(m) \in Matrices
  <2>1. ASSUME NEW k \in ColPass(m) PROVE k \in 0..195
    BY <1>1, <1>2, <1>3 DEF Matrices
  <2> QED
    BY <2>1 DEF Matrices
<1>5. ASSUME NEW r \in Rows, NEW c \in Cols
      PROVE  r * 15 + c \in ColPass(m) <=> r \in correct_col(Col(m, c)).word
  <2>2. ASSUME r * 15 + c \in ColPass(m)
        PROVE  r \in correct_col(Col(m, c)).word
    <3>1. r * 15 + c # 195
      BY <1>3
    <3>2. PICK d \in Cols : \E q \in correct_col(Col(m, d)).word : r * 15 + c = q * 15 + d
      BY <1>2, <2>2, <3>1
    <3>3. PICK q \in correct_col(Col(m, d)).word : r * 15 + c = q * 15 + d
      BY <3>2
    <3>4. q = r /\ d = c
      BY <1>1, <3>3, Place
    <3> QED
      BY <3>3, <3>4
  <2>3. ASSUME r \in correct_col(Col(m, c)).word
        PROVE  r * 15 + c \in ColPass(m)
    BY <1>2, <2>3
  <2> QED
    BY <2>2, <2>3
<1>6. 195 \in ColPass(m) <=> 195 \in m
  BY <1>1, <1>2, <1>3
<1> QED
  BY <1>4, <1>5, <1>6

-----------------------------------------------------------------------------
(* Linearity. *)

(* The rows and columns of an exclusive or are those of the two matrices. *)
LEMMA RowColLinear ==
  ASSUME NEW m, NEW e, NEW i
  PROVE  /\ Row(SymDiff(m, e), i) = SymDiff(Row(m, i), Row(e, i))
         /\ Col(SymDiff(m, e), i) = SymDiff(Col(m, i), Col(e, i))
BY DEF Row, Col, SymDiff

(* The exclusive or of two matrices is one. *)
LEMMA SymDiffMatrix ==
  ASSUME NEW m \in Matrices, NEW e \in Matrices
  PROVE  SymDiff(m, e) \in Matrices
BY DEF Matrices, SymDiff

(* A codeword: no syndrome of a data row or a column. *)
Codeword(m) ==
  /\ m \in Matrices
  /\ \A r \in DataRows : Syndrome(Row(m, r), 11) = 0
  /\ \A c \in Cols : Syndrome(Col(m, c), 9) = 0

(* The pass over the rows of a codeword with errors does to the codeword   *)
(* what it does to the errors alone ...                                    *)
LEMMA RowPassLinear ==
  ASSUME NEW m, Codeword(m), NEW e \in Matrices
  PROVE  /\ RowPass(SymDiff(m, e)) = SymDiff(m, RowPass(e))
         /\ \A r \in DataRows :
              correct_row(Row(SymDiff(m, e), r)).ok = correct_row(Row(e, r)).ok
<1>1. m \in Matrices /\ SymDiff(m, e) \in Matrices
  BY SymDiffMatrix DEF Codeword
<1>2. ASSUME NEW r \in DataRows
      PROVE  /\ correct_row(Row(SymDiff(m, e), r)).word
                  = SymDiff(Row(m, r), correct_row(Row(e, r)).word)
             /\ correct_row(Row(SymDiff(m, e), r)).ok = correct_row(Row(e, r)).ok
  <2>1. Row(SymDiff(m, e), r) = SymDiff(Row(m, r), Row(e, r))
    BY RowColLinear
  <2>2. Syndrome(Row(m, r), 11) = 0
    BY DEF Codeword
  <2> QED
    BY <2>1, <2>2, RowColType, CorrectLinear DEF correct_row
<1>3. RowPass(SymDiff(m, e)) \in Matrices /\ SymDiff(m, RowPass(e)) \in Matrices
  BY <1>1, RowPassAt, SymDiffMatrix
<1>4. ASSUME NEW r \in Rows, NEW c \in Cols
      PROVE  r * 15 + c \in RowPass(SymDiff(m, e)) <=> r * 15 + c \in SymDiff(m, RowPass(e))
  <2>1. CASE r \in DataRows
    <3>1. r * 15 + c \in RowPass(SymDiff(m, e))
            <=> c \in SymDiff(Row(m, r), correct_row(Row(e, r)).word)
      BY <1>1, <1>2, <2>1, RowPassAt
    <3>2. r * 15 + c \in RowPass(e) <=> c \in correct_row(Row(e, r)).word
      BY <2>1, RowPassAt
    <3>3. r * 15 + c \in m <=> c \in Row(m, r)
      BY DEF Row
    <3> QED
      BY <3>1, <3>2, <3>3 DEF SymDiff
  <2>2. CASE r \notin DataRows
    <3>1. r * 15 + c \in 135..195
      BY <2>2, Place
    <3>2. r * 15 + c \in RowPass(SymDiff(m, e)) <=> r * 15 + c \in SymDiff(m, e)
      BY <1>1, <3>1, RowPassAt
    <3>3. r * 15 + c \in RowPass(e) <=> r * 15 + c \in e
      BY <3>1, RowPassAt
    <3> QED
      BY <3>2, <3>3 DEF SymDiff
  <2> QED
    BY <2>1, <2>2
<1>5. 195 \in RowPass(SymDiff(m, e)) <=> 195 \in SymDiff(m, RowPass(e))
  <2>1. 195 \in 135..195
    OBVIOUS
  <2>2. 195 \in RowPass(SymDiff(m, e)) <=> 195 \in SymDiff(m, e)
    BY <1>1, <2>1, RowPassAt
  <2>3. 195 \in RowPass(e) <=> 195 \in e
    BY <2>1, RowPassAt
  <2> QED
    BY <2>2, <2>3 DEF SymDiff
<1>6. RowPass(SymDiff(m, e)) = SymDiff(m, RowPass(e))
  BY <1>3, <1>4, <1>5, SameMatrix
<1> QED
  BY <1>2, <1>6

(* ... and so does the pass over the columns. *)
LEMMA ColPassLinear ==
  ASSUME NEW m, Codeword(m), NEW e \in Matrices
  PROVE  /\ ColPass(SymDiff(m, e)) = SymDiff(m, ColPass(e))
         /\ \A c \in Cols :
              correct_col(Col(SymDiff(m, e), c)).ok = correct_col(Col(e, c)).ok
<1>1. m \in Matrices /\ SymDiff(m, e) \in Matrices
  BY SymDiffMatrix DEF Codeword
<1>2. ASSUME NEW c \in Cols
      PROVE  /\ correct_col(Col(SymDiff(m, e), c)).word
                  = SymDiff(Col(m, c), correct_col(Col(e, c)).word)
             /\ correct_col(Col(SymDiff(m, e), c)).ok = correct_col(Col(e, c)).ok
  <2>1. Col(SymDiff(m, e), c) = SymDiff(Col(m, c), Col(e, c))
    BY RowColLinear
  <2>2. Syndrome(Col(m, c), 9) = 0
    BY DEF Codeword
  <2> QED
    BY <2>1, <2>2, RowColType, CorrectLinear DEF correct_col
<1>3. ColPass(SymDiff(m, e)) \in Matrices /\ SymDiff(m, ColPass(e)) \in Matrices
  BY <1>1, ColPassAt, SymDiffMatrix
<1>4. ASSUME NEW r \in Rows, NEW c \in Cols
      PROVE  r * 15 + c \in ColPass(SymDiff(m, e)) <=> r * 15 + c \in SymDiff(m, ColPass(e))
  <2>1. r * 15 + c \in ColPass(SymDiff(m, e))
          <=> r \in SymDiff(Col(m, c), correct_col(Col(e, c)).word)
    BY <1>1, <1>2, ColPassAt
  <2>2. r * 15 + c \in ColPass(e) <=> r \in correct_col(Col(e, c)).word
    BY ColPassAt
  <2>3. r * 15 + c \in m <=> r \in Col(m, c)
    BY DEF Col
  <2> QED
    BY <2>1, <2>2, <2>3 DEF SymDiff
<1>5. 195 \in ColPass(SymDiff(m, e)) <=> 195 \in SymDiff(m, ColPass(e))
  BY <1>1, ColPassAt DEF SymDiff
<1>6. ColPass(SymDiff(m, e)) = SymDiff(m, ColPass(e))
  BY <1>3, <1>4, <1>5, SameMatrix
<1> QED
  BY <1>2, <1>6

-----------------------------------------------------------------------------
(* Up to two errors. *)

(* No three different elements. *)
AtMostTwo(w) == \A x \in w, y \in w, z \in w : x = y \/ x = z \/ y = z

(* A set of at most two elements has no three different ones. *)
LEMMA CardinalityTwo ==
  ASSUME NEW w, IsFiniteSet(w), Cardinality(w) <= 2
  PROVE  AtMostTwo(w)
<1>1. SUFFICES ASSUME NEW x \in w, NEW y \in w, NEW z \in w, x # y, x # z, y # z
               PROVE  FALSE
  BY DEF AtMostTwo
<1>2. IsFiniteSet({x}) /\ Cardinality({x}) = 1
  BY FS_Singleton
<1>3. IsFiniteSet({x} \cup {y}) /\ Cardinality({x} \cup {y}) = 2
  <2>1. y \notin {x}
    BY <1>1
  <2>2. /\ IsFiniteSet({x} \cup {y})
        /\ Cardinality({x} \cup {y})
             = IF y \in {x} THEN Cardinality({x}) ELSE Cardinality({x}) + 1
    BY <1>2, FS_AddElement, Zenon
  <2> QED
    BY <1>2, <2>1, <2>2
<1>4. Cardinality(({x} \cup {y}) \cup {z}) = 3
  <2>1. z \notin {x} \cup {y}
    BY <1>1
  <2>2. Cardinality(({x} \cup {y}) \cup {z})
          = IF z \in {x} \cup {y} THEN Cardinality({x} \cup {y})
                                 ELSE Cardinality({x} \cup {y}) + 1
    BY <1>3, FS_AddElement, Zenon
  <2> QED
    BY <1>3, <2>1, <2>2
<1>5. ({x} \cup {y}) \cup {z} \in SUBSET w
  BY <1>1
<1>6. Cardinality(({x} \cup {y}) \cup {z}) <= Cardinality(w)
  BY <1>5, FS_Subset
<1>7. PICK n \in Nat : n = Cardinality(w)
  BY FS_CardinalityType
<1> QED
  BY <1>4, <1>6, <1>7

(* Such a set is empty, has one element or has two. *)
LEMMA Shapes ==
  ASSUME NEW w, AtMostTwo(w)
  PROVE  \/ w = {}
         \/ \E i \in w : w = {i}
         \/ \E i \in w, j \in w : i # j /\ w = {i, j}
<1>1. SUFFICES ASSUME NEW i \in w, w # {i}
               PROVE  \E k \in w, j \in w : k # j /\ w = {k, j}
  OBVIOUS
<1>2. PICK j \in w : j # i
  BY <1>1
<1>3. w = {i, j}
  BY <1>2 DEF AtMostTwo
<1> QED
  BY <1>2, <1>3

(* With two errors in the matrix there are at most two in any line. *)
LEMMA LinesOfTwo ==
  ASSUME NEW e, AtMostTwo(e)
  PROVE  /\ \A r \in Rows : AtMostTwo(Row(e, r))
         /\ \A c \in Cols : AtMostTwo(Col(e, c))
<1>1. ASSUME NEW r \in Rows PROVE AtMostTwo(Row(e, r))
  <2>1. ASSUME NEW x \in Row(e, r), NEW y \in Row(e, r), NEW z \in Row(e, r)
        PROVE  x = y \/ x = z \/ y = z
    <3>1. /\ x \in Cols /\ y \in Cols /\ z \in Cols
          /\ r * 15 + x \in e /\ r * 15 + y \in e /\ r * 15 + z \in e
      BY DEF Row
    <3>2. \/ r * 15 + x = r * 15 + y \/ r * 15 + x = r * 15 + z
          \/ r * 15 + y = r * 15 + z
      BY <3>1 DEF AtMostTwo
    <3> QED
      BY <3>1, <3>2, Place
  <2> QED
    BY <2>1 DEF AtMostTwo
<1>2. ASSUME NEW c \in Cols PROVE AtMostTwo(Col(e, c))
  <2>1. ASSUME NEW x \in Col(e, c), NEW y \in Col(e, c), NEW z \in Col(e, c)
        PROVE  x = y \/ x = z \/ y = z
    <3>1. /\ x \in Rows /\ y \in Rows /\ z \in Rows
          /\ x * 15 + c \in e /\ y * 15 + c \in e /\ z * 15 + c \in e
      BY DEF Col
    <3>2. \/ x * 15 + c = y * 15 + c \/ x * 15 + c = z * 15 + c
          \/ y * 15 + c = z * 15 + c
      BY <3>1 DEF AtMostTwo
    <3> QED
      BY <3>1, <3>2, Place
  <2> QED
    BY <2>1 DEF AtMostTwo
<1> QED
  BY <1>1, <1>2

(* Errors that are in no data row, so that they do not touch the message. *)
Spares(m) == \A r \in DataRows, c \in Cols : r * 15 + c \notin m

(* The data rows spared are all empty, and a pass over the rows keeps them *)
(* spared.                                                                 *)
LEMMA SparedRows ==
  ASSUME NEW m \in Matrices
  PROVE  /\ Spares(m) <=> \A r \in DataRows : Row(m, r) = {}
         /\ Spares(m) => Spares(RowPass(m))
<1>1. Spares(m) <=> \A r \in DataRows : Row(m, r) = {}
  BY DEF Spares, Row
<1>2. ASSUME Spares(m), NEW r \in DataRows, NEW c \in Cols
      PROVE  r * 15 + c \notin RowPass(m)
  <2>1. Row(m, r) = {}
    BY <1>1, <1>2
  <2>2. correct_row(Row(m, r)).word = {}
    BY <2>1, CorrectNone DEF correct_row
  <2> QED
    BY <2>2, RowPassAt
<1> QED
  BY <1>1, <1>2 DEF Spares

(* Errors of which no two are in the same data row are all corrected by    *)
(* the pass over the rows.                                                 *)
LEMMA SingleErrorRows ==
  ASSUME NEW m \in Matrices,
         \A r \in DataRows : Row(m, r) = {} \/ \E i \in Cols : Row(m, r) = {i}
  PROVE  /\ Spares(RowPass(m))
         /\ \A r \in DataRows : correct_row(Row(m, r)).ok = TRUE
<1>1. ASSUME NEW r \in DataRows
      PROVE  correct_row(Row(m, r)).word = {} /\ correct_row(Row(m, r)).ok = TRUE
  <2>1. CASE Row(m, r) = {}
    BY <2>1, CorrectNone DEF correct_row
  <2>2. CASE \E i \in Cols : Row(m, r) = {i}
    BY <2>2, CorrectRowSingle
  <2> QED
    BY <2>1, <2>2
<1> QED
  BY <1>1, RowPassAt DEF Spares

(* Errors of which no two are in the same column are all corrected by the  *)
(* pass over the columns.                                                  *)
LEMMA SingleErrorCols ==
  ASSUME NEW m \in Matrices,
         \A c \in Cols : Col(m, c) = {} \/ \E i \in Rows : Col(m, c) = {i}
  PROVE  /\ Spares(ColPass(m))
         /\ \A c \in Cols : correct_col(Col(m, c)).ok = TRUE
<1>1. ASSUME NEW c \in Cols
      PROVE  correct_col(Col(m, c)).word = {} /\ correct_col(Col(m, c)).ok = TRUE
  <2>1. CASE Col(m, c) = {}
    BY <2>1, CorrectNone DEF correct_col
  <2>2. CASE \E i \in Rows : Col(m, c) = {i}
    BY <2>2, CorrectColSingle
  <2> QED
    BY <2>1, <2>2
<1>2. DataRows \subseteq Rows
  BY DEF DataRows, Rows
<1> QED
  BY <1>1, <1>2, ColPassAt DEF Spares

(* What the decoder makes of the errors alone. *)
Harmless(e) ==
  /\ \A r \in DataRows : correct_row(Row(e, r)).ok = TRUE
  /\ \A c \in Cols : correct_col(Col(RowPass(e), c)).ok = TRUE
  /\ Spares(RowPass(ColPass(RowPass(e))))

(* Two errors in one data row: the pass over the rows adds a third, and    *)
(* since the three are in three columns, the pass over the columns         *)
(* corrects them all.                                                      *)
LEMMA TwoInARow ==
  ASSUME NEW e \in Matrices, AtMostTwo(e),
         NEW q \in DataRows, NEW i \in Cols, NEW j \in Cols, i # j, Row(e, q) = {i, j}
  PROVE  Harmless(e)
<1>1. DataRows \subseteq Rows /\ q \in Rows
  BY DEF DataRows, Rows
<1>2. q * 15 + i \in e /\ q * 15 + j \in e /\ q * 15 + i # q * 15 + j
  <2>1. i \in Row(e, q) /\ j \in Row(e, q)
    OBVIOUS
  <2>2. q * 15 + i \in e /\ q * 15 + j \in e
    BY <2>1 DEF Row
  <2> QED
    BY <2>2, <1>1, Place
<1>3. \A x \in e : x = q * 15 + i \/ x = q * 15 + j
  BY <1>2 DEF AtMostTwo
<1>4. ASSUME NEW r \in Rows, r # q PROVE Row(e, r) = {}
  <2>1. SUFFICES ASSUME NEW c \in Row(e, r) PROVE FALSE
    OBVIOUS
  <2>2. c \in Cols /\ r * 15 + c \in e
    BY DEF Row
  <2> QED
    BY <1>1, <1>3, <1>4, <2>2, Place
<1>5. /\ correct_row({i, j}).ok = TRUE
      /\ \E k \in Cols \ {i, j} : correct_row({i, j}).word = {i, j, k}
  BY CorrectRowPair
<1>6. PICK k \in Cols : correct_row({i, j}).word = {i, j, k}
  BY <1>5
<1>7. \A r \in DataRows : correct_row(Row(e, r)).ok = TRUE
  <2>1. ASSUME NEW r \in DataRows, r # q PROVE correct_row(Row(e, r)).ok = TRUE
    BY <1>1, <1>4, <2>1, CorrectNone DEF correct_row
  <2> QED
    BY <1>5, <2>1
<1>8. RowPass(e) \in Matrices
  BY RowPassAt
<1>9. ASSUME NEW r \in Rows, NEW c \in Cols, r * 15 + c \in RowPass(e)
      PROVE  r = q
  <2>1. SUFFICES ASSUME r # q PROVE FALSE
    OBVIOUS
  <2>2. Row(e, r) = {}
    BY <1>4, <2>1
  <2>3. CASE r \in DataRows
    <3>1. correct_row(Row(e, r)).word = {}
      BY <2>2, CorrectNone DEF correct_row
    <3> QED
      BY <1>9, <2>3, <3>1, RowPassAt
  <2>4. CASE r \notin DataRows
    <3>1. r * 15 + c \in 135..195
      BY <2>4, Place
    <3>2. r * 15 + c \in e
      BY <1>9, <3>1, RowPassAt
    <3>3. c \in Row(e, r)
      BY <3>2 DEF Row
    <3> QED
      BY <2>2, <3>3
  <2> QED
    BY <2>3, <2>4
<1>10. ASSUME NEW c \in Cols
      PROVE  Col(RowPass(e), c) = {} \/ \E r \in Rows : Col(RowPass(e), c) = {r}
  <2>1. Col(RowPass(e), c) \subseteq {q}
    BY <1>9 DEF Col
  <2> QED
    BY <1>1, <2>1
<1>11. /\ Spares(ColPass(RowPass(e)))
       /\ \A c \in Cols : correct_col(Col(RowPass(e), c)).ok = TRUE
  BY <1>8, <1>10, SingleErrorCols
<1>12. Spares(RowPass(ColPass(RowPass(e))))
  BY <1>8, <1>11, ColPassAt, SparedRows
<1> QED
  BY <1>7, <1>11, <1>12 DEF Harmless

(* Two errors in one column that the pass over the rows could not see,     *)
(* both in the rows of parity: the pass over the columns adds a third in a *)
(* data row, the only one there, and the second pass over the rows         *)
(* corrects it.                                                            *)
LEMMA TwoInAColumn ==
  ASSUME NEW e \in Matrices, AtMostTwo(e), NEW m \in Matrices, m \subseteq e, Spares(m),
         NEW c \in Cols, NEW i \in Rows, NEW j \in Rows, i # j, Col(m, c) = {i, j}
  PROVE  /\ \A d \in Cols : correct_col(Col(m, d)).ok = TRUE
         /\ Spares(RowPass(ColPass(m)))
<1>1. i * 15 + c \in m /\ j * 15 + c \in m /\ i * 15 + c # j * 15 + c
  <2>1. i \in Col(m, c) /\ j \in Col(m, c)
    OBVIOUS
  <2>2. i * 15 + c \in m /\ j * 15 + c \in m
    BY <2>1 DEF Col
  <2> QED
    BY <2>2, Place
<1>2. \A x \in m : x = i * 15 + c \/ x = j * 15 + c
  BY <1>1 DEF AtMostTwo
<1>3. i \in 9..12 /\ j \in 9..12
  <2>1. i \notin DataRows /\ j \notin DataRows
    BY <1>1 DEF Spares
  <2> QED
    BY <2>1 DEF DataRows, Rows
<1>4. ASSUME NEW d \in Cols, d # c PROVE Col(m, d) = {}
  <2>1. SUFFICES ASSUME NEW r \in Col(m, d) PROVE FALSE
    OBVIOUS
  <2>2. r \in Rows /\ r * 15 + d \in m
    BY DEF Col
  <2> QED
    BY <1>2, <1>4, <2>2, Place
<1>5. /\ correct_col({i, j}).ok = TRUE
      /\ \E d \in DataRows : correct_col({i, j}).word = {i, j, d}
  BY <1>3, CorrectColPair
<1>6. PICK q \in DataRows : correct_col({i, j}).word = {i, j, q}
  BY <1>5
<1>7. ASSUME NEW d \in Cols, d # c
      PROVE  correct_col(Col(m, d)).ok = TRUE /\ correct_col(Col(m, d)).word = {}
  BY <1>4, <1>7, CorrectNone DEF correct_col
<1>8. ColPass(m) \in Matrices
  BY ColPassAt
<1>9. ASSUME NEW r \in DataRows
      PROVE  Row(ColPass(m), r) = {} \/ \E d \in Cols : Row(ColPass(m), r) = {d}
  <2>1. r \in Rows
    BY DEF DataRows, Rows
  <2>2. ASSUME NEW d \in Cols, r * 15 + d \in ColPass(m) PROVE d = c
    BY <1>7, <2>1, <2>2, ColPassAt
  <2>3. Row(ColPass(m), r) \subseteq {c}
    BY <2>2 DEF Row
  <2> QED
    BY <2>3
<1>10. Spares(RowPass(ColPass(m)))
  BY <1>8, <1>9, SingleErrorRows
<1> QED
  BY <1>5, <1>7, <1>10

(* Any two errors at all leave every row and column correctable and the    *)
(* message without an error.                                               *)
LEMMA TwoErrorsHarmless ==
  ASSUME NEW e \in Matrices, AtMostTwo(e)
  PROVE  Harmless(e)
<1>1. DataRows \subseteq Rows
  BY DEF DataRows, Rows
<1>2. CASE \E q \in DataRows, i \in Cols, j \in Cols : i # j /\ Row(e, q) = {i, j}
  BY <1>2, TwoInARow
<1>3. CASE ~\E q \in DataRows, i \in Cols, j \in Cols : i # j /\ Row(e, q) = {i, j}
  <2>1. ASSUME NEW r \in DataRows
        PROVE  Row(e, r) = {} \/ \E i \in Cols : Row(e, r) = {i}
    <3>1. AtMostTwo(Row(e, r)) /\ Row(e, r) \subseteq Cols
      BY <1>1, LinesOfTwo, RowColType
    <3> QED
      BY <1>3, <3>1, Shapes
  <2>2. /\ Spares(RowPass(e))
        /\ \A r \in DataRows : correct_row(Row(e, r)).ok = TRUE
    BY <2>1, SingleErrorRows
  <2>3. RowPass(e) \in Matrices
    BY RowPassAt
  <2>4. RowPass(e) \subseteq e
    <3>1. ASSUME NEW k \in RowPass(e) PROVE k \in e
      <4>1. k \in 0..195
        BY <2>3 DEF Matrices
      <4>2. k >= 135
        <5>1. SUFFICES ASSUME k < 135 PROVE FALSE
          BY <4>1
        <5>2. k \in 0..194
          BY <4>1, <5>1
        <5>3. PICK r \in Rows, c \in Cols : k = r * 15 + c
          BY <5>2, Places
        <5>4. r \in DataRows
          BY <5>1, <5>3, Place
        <5> QED
          BY <2>2, <5>3, <5>4 DEF Spares
      <4>3. k \in 135..195
        BY <4>1, <4>2
      <4> QED
        BY <4>3, RowPassAt
    <3> QED
      BY <3>1
  <2>5. PICK m \in Matrices : m = RowPass(e)
    BY <2>3
  <2>6. AtMostTwo(m)
    BY <2>4, <2>5 DEF AtMostTwo
  <2>7. /\ \A c \in Cols : correct_col(Col(m, c)).ok = TRUE
        /\ Spares(RowPass(ColPass(m)))
    <3>1. CASE \E c \in Cols, i \in Rows, j \in Rows : i # j /\ Col(m, c) = {i, j}
      BY <2>2, <2>4, <2>5, <3>1, TwoInAColumn
    <3>2. CASE ~\E c \in Cols, i \in Rows, j \in Rows : i # j /\ Col(m, c) = {i, j}
      <4>1. ASSUME NEW c \in Cols
            PROVE  Col(m, c) = {} \/ \E i \in Rows : Col(m, c) = {i}
        <5>1. AtMostTwo(Col(m, c)) /\ Col(m, c) \subseteq Rows
          BY <2>6, LinesOfTwo, RowColType
        <5> QED
          BY <3>2, <5>1, Shapes
      <4>2. /\ Spares(ColPass(m))
            /\ \A c \in Cols : correct_col(Col(m, c)).ok = TRUE
        BY <4>1, SingleErrorCols
      <4> QED
        BY <4>2, ColPassAt, SparedRows
    <3> QED
      BY <3>1, <3>2
  <2> QED
    BY <2>2, <2>5, <2>7 DEF Harmless
<1> QED
  BY <1>2, <1>3

-----------------------------------------------------------------------------
(* The way to the matrix and back. *)

(* The permutation of the interleaver takes no two bits to one place ... *)
LEMMA InterleaveInjective ==
  ASSUME NEW k \in 0..195, NEW j \in 0..195, (k * 13) % 196 = (j * 13) % 196
  PROVE  k = j
<1>1. PICK x \in Int, y \in Int : x = k * 13 /\ y = j * 13
  OBVIOUS
<1>2. 196 \in Nat \ {0} /\ 0..(196 - 1) \subseteq Int
  OBVIOUS
<1>3. PICK q \in Int, r \in Int : r = x % 196 /\ x = 196 * q + r
  BY <1>2, Quotient
<1>4. PICK p \in Int, u \in Int : u = y % 196 /\ y = 196 * p + u
  BY <1>2, Quotient
<1>5. u = r /\ k * 13 = 196 * q + r /\ j * 13 = 196 * p + u
  BY <1>1, <1>3, <1>4
<1>6. 13 * (k - j) = 196 * (q - p)
  BY <1>5
<1>7. PICK d \in Int, t \in Int : d = k - j /\ t = q - p
  OBVIOUS
<1>8. 13 * d = 196 * t /\ d > -196 /\ d < 196
  BY <1>6, <1>7
<1>9. t > -13 /\ t < 13
  BY <1>8
<1>10. t = 0
  BY <1>8, <1>9
<1> QED
  BY <1>7, <1>8, <1>10

(* ... so deinterleave is its inverse. *)
LEMMA InterleaveBack ==
  ASSUME NEW m \in Matrices
  PROVE  Interleave(m) \in Matrices /\ deinterleave(Interleave(m)) = m
<1>1. \A k \in 0..195 : (k * 13) % 196 \in 0..195
  OBVIOUS
<1>2. Interleave(m) \in Matrices
  <2>1. \A k \in m : k \in 0..195
    BY Zenon DEF Matrices
  <2>2. \A k \in m : (k * 13) % 196 \in 0..195
    BY <1>1, <2>1, Zenon
  <2> QED
    BY <2>2, SMTT(30) DEF Interleave, Matrices
<1>3. ASSUME NEW k \in 0..195
      PROVE  (k * 13) % 196 \in Interleave(m) <=> k \in m
  <2>1. ASSUME (k * 13) % 196 \in Interleave(m) PROVE k \in m
    <3>1. PICK j \in m : (k * 13) % 196 = (j * 13) % 196
      BY <2>1 DEF Interleave
    <3>2. j \in 0..195
      BY DEF Matrices
    <3>3. k = j
      BY <3>1, <3>2, InterleaveInjective
    <3> QED
      BY <3>3
  <2>2. ASSUME k \in m PROVE (k * 13) % 196 \in Interleave(m)
    BY <2>2 DEF Interleave
  <2> QED
    BY <2>1, <2>2
<1>4. m \subseteq 0..195
  BY DEF Matrices
<1> QED
  BY <1>2, <1>3, <1>4 DEF deinterleave

(* FromDibits reads the bits that were put into dibits. *)
LEMMA DibitsBack ==
  ASSUME NEW b \in Matrices
  PROVE  FromDibits(ToDibits(b)) = b
<1>1. ASSUME NEW n \in 0..195
      PROVE  LET d == ToDibits(b)[n \div 2 + 1]
             IN  (IF n % 2 = 0 THEN d \div 2 ELSE d) % 2 = 1 <=> n \in b
  <2>0. n \div 2 \in 0..97 /\ n % 2 \in {0, 1} /\ n = 2 * (n \div 2) + (n % 2)
    OBVIOUS
  <2>1. PICK h \in 0..97, z \in {0, 1} : h = n \div 2 /\ z = n % 2 /\ n = 2 * h + z
    BY <2>0
  <2>2. h + 1 \in 1..98 /\ 2 * (h + 1) - 2 = 2 * h /\ 2 * (h + 1) - 1 = 2 * h + 1
    OBVIOUS
  <2>3. ToDibits(b)[h + 1] = (IF 2 * h \in b THEN 2 ELSE 0) + (IF 2 * h + 1 \in b THEN 1 ELSE 0)
    BY <2>2 DEF ToDibits
  <2>4. PICK d \in 0..3 : d = ToDibits(b)[h + 1]
    BY <2>3
  <2>5. CASE z = 0
    <3>1. (d \div 2) % 2 = 1 <=> n \in b
      BY <2>1, <2>3, <2>4, <2>5
    <3> QED
      BY <2>1, <2>4, <2>5, <3>1
  <2>6. CASE z = 1
    <3>1. d % 2 = 1 <=> n \in b
      BY <2>1, <2>3, <2>4, <2>6
    <3> QED
      BY <2>1, <2>4, <2>6, <3>1
  <2> QED
    BY <2>1, <2>5, <2>6
<1>2. b \subseteq 0..195
  BY DEF Matrices
<1> QED
  BY <1>1, <1>2 DEF FromDibits

-----------------------------------------------------------------------------
(* The encoder makes codewords. *)

(* The parity bits of a word are behind its data, each at its check's      *)
(* place.                                                                  *)
LEMMA ParityBitsPlace ==
  ASSUME NEW w, NEW L \in Nat
  PROVE  /\ ParityBits(w, L) \subseteq L..(L + 3)
         /\ \A p \in 0..3 : L + p \in ParityBits(w, L)
                              <=> Parity(w, {i \in Covers[p] : i < L}) = 1
<1>1. ParityBits(w, L) \subseteq L..(L + 3)
  <2>1. ASSUME NEW k \in ParityBits(w, L) PROVE k \in L..(L + 3)
    <3>1. PICK p \in 0..3 : k = L + p
      BY DEF ParityBits
    <3> QED
      BY <3>1
  <2> QED
    BY <2>1
<1>2. ASSUME NEW p \in 0..3
      PROVE  L + p \in ParityBits(w, L) <=> Parity(w, {i \in Covers[p] : i < L}) = 1
  <2>1. L + p \in ParityBits(w, L)
          <=> \E q \in 0..3 : Parity(w, {i \in Covers[q] : i < L}) = 1 /\ L + p = L + q
    BY DEF ParityBits
  <2>2. \A q \in 0..3 : L + p = L + q => q = p
    OBVIOUS
  <2> QED
    BY <2>1, <2>2
<1> QED
  BY <1>1, <1>2

(* A word followed by its parity bits is a word of the code. *)
LEMMA WordWithParity ==
  ASSUME NEW L \in {9, 11}, NEW w \in SUBSET (0..(L - 1))
  PROVE  Syndrome(w \cup ParityBits(w, L), L) = 0
<1>1. PICK b : b = ParityBits(w, L)
  OBVIOUS
<1>2. /\ b \subseteq L..(L + 3)
      /\ \A p \in 0..3 : L + p \in b <=> Parity(w, {i \in Covers[p] : i < L}) = 1
  <2>1. L \in Nat
    OBVIOUS
  <2> QED
    BY <1>1, <2>1, ParityBitsPlace, Zenon
<1>3. IsFiniteSet(w) /\ IsFiniteSet(b)
  <2>1. L - 1 \in Int /\ L \in Int /\ L + 3 \in Int /\ 0 \in Int
    OBVIOUS
  <2>2. IsFiniteSet(0..(L - 1)) /\ IsFiniteSet(L..(L + 3))
    BY <2>1, FS_Interval, Zenon
  <2> QED
    BY <1>2, <2>2, FS_Subset
<1>4. w \cup b = SymDiff(w, b)
  <2>1. w \cap b = {}
    BY <1>2
  <2> QED
    BY <2>1 DEF SymDiff
<1>5. IsFiniteSet(w \cup b)
  BY <1>3, FS_Union
<1>6. ASSUME NEW p \in 0..3
      PROVE  Parity(w \cup b, Check(L, p)) = 0
  <2>1. PICK D : D = {i \in Covers[p] : i < L}
    OBVIOUS
  <2>2. Check(L, p) = D \cup {L + p}
    BY <2>1 DEF Check
  <2>3. w \cap Check(L, p) = w \cap D
    BY <2>2
  <2>4. Parity(w, Check(L, p)) = Parity(w, D)
    BY <2>3 DEF Parity
  <2>5. PICK x \in {0, 1} : x = Parity(w, D)
    BY <1>3, ParityRange
  <2>6. D \cap b = {}
    <3>1. SUFFICES ASSUME NEW i \in D, i \in b PROVE FALSE
      OBVIOUS
    <3>2. i < L
      BY <2>1
    <3>3. i \in L..(L + 3)
      BY <1>2, <3>1
    <3> QED
      BY <3>2, <3>3
  <2>7. b \cap Check(L, p) = IF x = 1 THEN {L + p} ELSE {}
    BY <1>2, <2>1, <2>2, <2>5, <2>6
  <2>8. Parity(b, Check(L, p)) = x
    <3>1. Cardinality({L + p}) = 1 /\ Cardinality({}) = 0
      BY FS_Singleton, FS_EmptySet
    <3>2. Cardinality(b \cap Check(L, p)) = x
      BY <2>7, <3>1
    <3> QED
      BY <3>2 DEF Parity
  <2>9. Parity(SymDiff(w, b), Check(L, p))
          = (Parity(w, Check(L, p)) + Parity(b, Check(L, p))) % 2
    BY <1>3, ParityLinear
  <2>10. Parity(SymDiff(w, b), Check(L, p)) = (x + x) % 2
    BY <2>4, <2>5, <2>8, <2>9, Zenon
  <2>11. (x + x) % 2 = 0
    OBVIOUS
  <2> QED
    BY <1>4, <2>10, <2>11, Zenon
<1> QED
  BY <1>1, <1>5, <1>6, ZeroSyndrome

(* The messages of 96 bits. *)
Messages == SUBSET (0..95)

(* The data of a message in the matrix, and with the parity of its rows.   *)
DataCells(message) == {(b \div 11) * 15 + (b % 11) : b \in message}
WithRowParity(message) ==
  DataCells(message)
    \cup UNION {{r * 15 + c : c \in ParityBits(Row(DataCells(message), r), 11)}
                : r \in DataRows}

(* The encoder adds the parity of the columns to the matrix with that of   *)
(* the rows.                                                               *)
LEMMA EncodeSteps ==
  ASSUME NEW message
  PROVE  EncodeMatrix(message)
           = WithRowParity(message)
               \cup UNION {{r * 15 + c : r \in ParityBits(Col(WithRowParity(message), c), 9)}
                           : c \in Cols}
BY DEF EncodeMatrix, WithRowParity, DataCells

(* The data bits go to the first eleven columns, in the data rows. *)
LEMMA DataPlace ==
  ASSUME NEW b \in 0..95
  PROVE  /\ b \div 11 \in DataRows /\ b % 11 \in 0..10 /\ b % 11 \in Cols
         /\ b = 11 * (b \div 11) + (b % 11)
<1>1. b \div 11 \in 0..8 /\ b % 11 \in 0..10 /\ b = 11 * (b \div 11) + (b % 11)
  OBVIOUS
<1> QED
  BY <1>1 DEF DataRows, Cols

(* Which cells the bits of the message are in ... *)
LEMMA DataCellsAt ==
  ASSUME NEW message \in Messages, NEW r \in Rows, NEW c \in Cols
  PROVE  r * 15 + c \in DataCells(message)
           <=> r \in DataRows /\ c <= 10 /\ 11 * r + c \in message
<1>1. DataRows \subseteq Rows
  BY DEF DataRows, Rows
<1>2. ASSUME r * 15 + c \in DataCells(message)
      PROVE  r \in DataRows /\ c <= 10 /\ 11 * r + c \in message
  <2>1. PICK b \in message : r * 15 + c = (b \div 11) * 15 + (b % 11)
    BY <1>2 DEF DataCells
  <2>2. b \in 0..95
    BY DEF Messages
  <2>3. PICK q \in DataRows, d \in 0..10 : /\ q = b \div 11 /\ d = b % 11
                                           /\ b = 11 * q + d /\ d \in Cols
    BY <2>2, DataPlace
  <2>4. r = q /\ c = d
    BY <1>1, <2>1, <2>3, Place
  <2> QED
    BY <2>3, <2>4
<1>3. ASSUME r \in DataRows, c <= 10, 11 * r + c \in message
      PROVE  r * 15 + c \in DataCells(message)
  <2>1. PICK b \in message : b = 11 * r + c
    BY <1>3
  <2>2. b \div 11 = r /\ b % 11 = c
    BY <1>3, <2>1 DEF DataRows, Cols
  <2> QED
    BY <2>1, <2>2 DEF DataCells
<1> QED
  BY <1>2, <1>3

(* ... which ones are added by the parity of the rows ... *)
LEMMA WithRowParityAt ==
  ASSUME NEW message \in Messages, NEW r \in Rows, NEW c \in Cols
  PROVE  r * 15 + c \in WithRowParity(message)
           <=> \/ r * 15 + c \in DataCells(message)
               \/ r \in DataRows /\ c \in ParityBits(Row(DataCells(message), r), 11)
<1>1. DataRows \subseteq Rows
  BY DEF DataRows, Rows
<1>2. \A q \in DataRows : ParityBits(Row(DataCells(message), q), 11) \subseteq Cols
  <2>1. ASSUME NEW w PROVE ParityBits(w, 11) \subseteq 11..14
    <3>1. ParityBits(w, 11) \subseteq 11..(11 + 3)
      BY ParityBitsPlace
    <3> QED
      BY <3>1
  <2> QED
    BY <2>1 DEF Cols
<1>3. r * 15 + c \in WithRowParity(message)
        <=> \/ r * 15 + c \in DataCells(message)
            \/ \E q \in DataRows : \E d \in ParityBits(Row(DataCells(message), q), 11) :
                  r * 15 + c = q * 15 + d
  BY DEF WithRowParity
<1>4. ASSUME NEW q \in DataRows, NEW d \in ParityBits(Row(DataCells(message), q), 11),
             r * 15 + c = q * 15 + d
      PROVE  q = r /\ d = c
  BY <1>1, <1>2, <1>4, Place
<1> QED
  BY <1>3, <1>4

(* ... and which ones by the parity of the columns. *)
LEMMA EncodeMatrixAt ==
  ASSUME NEW message \in Messages, NEW r \in Rows, NEW c \in Cols
  PROVE  r * 15 + c \in EncodeMatrix(message)
           <=> \/ r * 15 + c \in WithRowParity(message)
               \/ r \in ParityBits(Col(WithRowParity(message), c), 9)
<1>1. \A d \in Cols : ParityBits(Col(WithRowParity(message), d), 9) \subseteq Rows
  <2>1. ASSUME NEW w PROVE ParityBits(w, 9) \subseteq 9..12
    <3>1. ParityBits(w, 9) \subseteq 9..(9 + 3)
      BY ParityBitsPlace
    <3> QED
      BY <3>1
  <2> QED
    BY <2>1 DEF Rows
<1>2. r * 15 + c \in EncodeMatrix(message)
        <=> \/ r * 15 + c \in WithRowParity(message)
            \/ \E d \in Cols : \E q \in ParityBits(Col(WithRowParity(message), d), 9) :
                  r * 15 + c = q * 15 + d
  BY EncodeSteps
<1>3. ASSUME NEW d \in Cols, NEW q \in ParityBits(Col(WithRowParity(message), d), 9),
             r * 15 + c = q * 15 + d
      PROVE  q = r /\ d = c
  BY <1>1, <1>3, Place
<1> QED
  BY <1>2, <1>3

(* The encoder makes a matrix, *)
LEMMA EncodeMatrixType ==
  ASSUME NEW message \in Messages
  PROVE  EncodeMatrix(message) \in Matrices
<1>1. ASSUME NEW k \in DataCells(message) PROVE k \in 0..195
  <2>1. PICK b \in 0..95 : k = (b \div 11) * 15 + (b % 11)
    BY DEF DataCells, Messages
  <2> QED
    BY <2>1, DataPlace, Place DEF DataRows
<1>2. ASSUME NEW q \in DataRows, NEW d \in ParityBits(Row(DataCells(message), q), 11)
      PROVE  q * 15 + d \in 0..195
  <2>1. ParityBits(Row(DataCells(message), q), 11) \subseteq 11..(11 + 3)
    BY ParityBitsPlace
  <2> QED
    BY <2>1 DEF DataRows
<1>3. ASSUME NEW d \in Cols, NEW q \in ParityBits(Col(WithRowParity(message), d), 9)
      PROVE  q * 15 + d \in 0..195
  <2>1. ParityBits(Col(WithRowParity(message), d), 9) \subseteq 9..(9 + 3)
    BY ParityBitsPlace
  <2> QED
    BY <2>1 DEF Cols
<1>4. WithRowParity(message) \subseteq 0..195
  BY <1>1, <1>2 DEF WithRowParity
<1>5. EncodeMatrix(message) \subseteq 0..195
  BY <1>3, <1>4, EncodeSteps
<1> QED
  BY <1>5 DEF Matrices

(* and the matrix is a codeword: the parity bits of the columns do not     *)
(* disturb the data rows, which end above them.                            *)
LEMMA EncodeIsCodeword ==
  ASSUME NEW message \in Messages
  PROVE  Codeword(EncodeMatrix(message))
<1>1. DataRows \subseteq Rows
  BY DEF DataRows, Rows
<1>2. ASSUME NEW r \in DataRows
      PROVE  Syndrome(Row(EncodeMatrix(message), r), 11) = 0
  <2>1. PICK w : w = Row(DataCells(message), r)
    OBVIOUS
  <2>2. w \subseteq 0..10
    BY <1>1, <2>1, DataCellsAt DEF Row, Cols
  <2>3. ParityBits(w, 11) \subseteq 11..14
    <3>1. ParityBits(w, 11) \subseteq 11..(11 + 3)
      BY ParityBitsPlace
    <3> QED
      BY <3>1
  <2>4. ASSUME NEW c \in Cols
        PROVE  c \in Row(EncodeMatrix(message), r) <=> c \in w \/ c \in ParityBits(w, 11)
    <3>1. r \in Rows /\ r \notin ParityBits(Col(WithRowParity(message), c), 9)
      <4>1. ParityBits(Col(WithRowParity(message), c), 9) \subseteq 9..(9 + 3)
        BY ParityBitsPlace
      <4> QED
        BY <4>1, <1>1 DEF DataRows
    <3>2. r * 15 + c \in EncodeMatrix(message) <=> r * 15 + c \in WithRowParity(message)
      BY <3>1, EncodeMatrixAt
    <3>3. r * 15 + c \in WithRowParity(message)
            <=> r * 15 + c \in DataCells(message) \/ c \in ParityBits(w, 11)
      BY <2>1, <3>1, WithRowParityAt
    <3> QED
      BY <2>1, <3>2, <3>3 DEF Row
  <2>5. Row(EncodeMatrix(message), r) = w \cup ParityBits(w, 11)
    <3>1. w \subseteq Cols /\ ParityBits(w, 11) \subseteq Cols
      BY <2>2, <2>3 DEF Cols
    <3>2. Row(EncodeMatrix(message), r) \subseteq Cols
      BY RowColType
    <3> QED
      BY <2>4, <3>1, <3>2
  <2>6. w \in SUBSET (0..(11 - 1))
    BY <2>2
  <2> QED
    BY <2>5, <2>6, WordWithParity
<1>3. ASSUME NEW c \in Cols
      PROVE  Syndrome(Col(EncodeMatrix(message), c), 9) = 0
  <2>1. PICK w : w = Col(WithRowParity(message), c)
    OBVIOUS
  <2>2. w \subseteq 0..8
    <3>1. ASSUME NEW r \in w PROVE r \in DataRows
      <4>1. r \in Rows /\ r * 15 + c \in WithRowParity(message)
        BY <2>1 DEF Col
      <4> QED
        BY <4>1, WithRowParityAt, DataCellsAt
    <3> QED
      BY <3>1 DEF DataRows
  <2>3. ParityBits(w, 9) \subseteq 9..12
    <3>1. ParityBits(w, 9) \subseteq 9..(9 + 3)
      BY ParityBitsPlace
    <3> QED
      BY <3>1
  <2>4. ASSUME NEW r \in Rows
        PROVE  r \in Col(EncodeMatrix(message), c) <=> r \in w \/ r \in ParityBits(w, 9)
    BY <2>1, EncodeMatrixAt DEF Col
  <2>5. Col(EncodeMatrix(message), c) = w \cup ParityBits(w, 9)
    <3>1. w \subseteq Rows /\ ParityBits(w, 9) \subseteq Rows
      BY <2>2, <2>3 DEF Rows
    <3>2. Col(EncodeMatrix(message), c) \subseteq Rows
      BY RowColType
    <3> QED
      BY <2>4, <3>1, <3>2
  <2>6. w \in SUBSET (0..(9 - 1))
    BY <2>2
  <2> QED
    BY <2>5, <2>6, WordWithParity
<1> QED
  BY <1>2, <1>3, EncodeMatrixType DEF Codeword

(* The message is read back from its matrix, whatever errors are outside   *)
(* the data rows.                                                          *)
LEMMA EncodedData ==
  ASSUME NEW message \in Messages, NEW f, Spares(f)
  PROVE  DataBits(SymDiff(EncodeMatrix(message), f)) = message
<1>1. ASSUME NEW b \in 0..95
      PROVE  (b \div 11) * 15 + (b % 11) \in SymDiff(EncodeMatrix(message), f) <=> b \in message
  <2>1. PICK r \in DataRows, c \in Cols : /\ r = b \div 11 /\ c = b % 11
                                          /\ c \in 0..10 /\ b = 11 * r + c
    BY DataPlace
  <2>2. r \in Rows /\ r * 15 + c \notin f
    BY DEF DataRows, Rows, Spares
  <2>3. r \notin ParityBits(Col(WithRowParity(message), c), 9)
    <3>1. ParityBits(Col(WithRowParity(message), c), 9) \subseteq 9..(9 + 3)
      BY ParityBitsPlace
    <3> QED
      BY <3>1 DEF DataRows
  <2>4. c \notin ParityBits(Row(DataCells(message), r), 11)
    <3>1. ParityBits(Row(DataCells(message), r), 11) \subseteq 11..(11 + 3)
      BY ParityBitsPlace
    <3> QED
      BY <2>1, <3>1
  <2>5. r * 15 + c \in EncodeMatrix(message) <=> b \in message
    <3>1. r * 15 + c \in EncodeMatrix(message) <=> r * 15 + c \in WithRowParity(message)
      BY <2>2, <2>3, EncodeMatrixAt
    <3>2. r * 15 + c \in WithRowParity(message) <=> r * 15 + c \in DataCells(message)
      BY <2>2, <2>4, WithRowParityAt
    <3>3. c <= 10
      BY <2>1
    <3>4. r * 15 + c \in DataCells(message) <=> 11 * r + c \in message
      BY <2>2, <3>3, DataCellsAt
    <3> QED
      BY <2>1, <3>1, <3>2, <3>4
  <2> QED
    BY <2>1, <2>2, <2>5 DEF SymDiff
<1> QED
  BY <1>1 DEF DataBits, Messages

(* BPTC19696::decode (bptc19696.cpp): any message of 96 bits, encoded,     *)
(* interleaved, and received with at most two bit errors anywhere in the   *)
(* burst, is decoded to that message and reported correct.                 *)
THEOREM TwoErrorsCorrected ==
  ASSUME NEW message \in Messages, NEW e \in Matrices, AtMostTwo(e)
  PROVE  decode(ToDibits(Interleave(SymDiff(EncodeMatrix(message), e))))
           = [ok |-> TRUE, bits |-> message]
<1>1. PICK m : m = EncodeMatrix(message) /\ Codeword(m) /\ m \in Matrices
  BY EncodeIsCodeword DEF Codeword
<1>2. PICK dibits : dibits = ToDibits(Interleave(SymDiff(m, e)))
  OBVIOUS
<1>3. deinterleave(FromDibits(dibits)) = SymDiff(m, e)
  BY <1>1, <1>2, SymDiffMatrix, InterleaveBack, DibitsBack
<1>4. Harmless(e)
  BY TwoErrorsHarmless
<1>5. RowPass(e) \in Matrices /\ ColPass(RowPass(e)) \in Matrices
  BY RowPassAt, ColPassAt
<1>6. RowPass(SymDiff(m, e)) = SymDiff(m, RowPass(e))
  BY <1>1, RowPassLinear
<1>7. ColPass(SymDiff(m, RowPass(e))) = SymDiff(m, ColPass(RowPass(e)))
  BY <1>1, <1>5, ColPassLinear
<1>8. RowPass(SymDiff(m, ColPass(RowPass(e)))) = SymDiff(m, RowPass(ColPass(RowPass(e))))
  BY <1>1, <1>5, RowPassLinear
<1>9. /\ \A r \in DataRows : correct_row(Row(SymDiff(m, e), r)).ok = TRUE
      /\ \A c \in Cols : correct_col(Col(SymDiff(m, RowPass(e)), c)).ok = TRUE
  BY <1>1, <1>4, <1>5, RowPassLinear, ColPassLinear DEF Harmless
<1>10. DataBits(SymDiff(m, RowPass(ColPass(RowPass(e))))) = message
  BY <1>1, <1>4, EncodedData DEF Harmless
<1>11. decode(dibits)
         = [ok |-> /\ \A r \in DataRows : correct_row(Row(SymDiff(m, e), r)).ok
                   /\ \A c \in Cols : correct_col(Col(SymDiff(m, RowPass(e)), c)).ok,
            bits |-> DataBits(SymDiff(m, RowPass(ColPass(RowPass(e)))))]
  BY <1>3, <1>6, <1>7, <1>8 DEF decode
<1> QED
  BY <1>1, <1>2, <1>9, <1>10, <1>11

-----------------------------------------------------------------------------
(* The fields of a message. *)

(* The powers of two the fields are made of. *)
LEMMA Powers ==
  /\ 2^0 = 1 /\ 2^1 = 2 /\ 2^2 = 4 /\ 2^3 = 8 /\ 2^4 = 16 /\ 2^5 = 32 /\ 2^6 = 64
  /\ 2^7 = 128 /\ 2^8 = 256 /\ 2^9 = 512 /\ 2^10 = 1024 /\ 2^11 = 2048
  /\ 2^12 = 4096 /\ 2^13 = 8192 /\ 2^14 = 16384 /\ 2^15 = 32768 /\ 2^16 = 65536
  /\ 2^17 = 131072 /\ 2^18 = 262144 /\ 2^19 = 524288 /\ 2^20 = 1048576
  /\ 2^21 = 2097152 /\ 2^22 = 4194304 /\ 2^23 = 8388608 /\ 2^24 = 16777216
BY SMT

(* Dividing twice is dividing by the product. *)
LEMMA DivDiv ==
  ASSUME NEW v \in Int, NEW a \in Nat \ {0}, NEW b \in Nat \ {0}
  PROVE  (v \div a) \div b = v \div (a * b)
<1>1. PICK q \in Int, r \in 0..(a - 1) : q = v \div a /\ v = a * q + r
  BY Quotient
<1>2. PICK p \in Int, s \in 0..(b - 1) : p = q \div b /\ q = b * p + s
  BY Quotient
<1>3. PICK c \in Nat \ {0} : c = a * b
  BY SMT
<1>4. PICK t \in Int : t = a * s + r
  <2>1. s \in Int /\ r \in Int /\ a \in Int
    OBVIOUS
  <2>2. a * s + r \in Int
    BY <2>1
  <2> QED
    BY <2>2
<1>5. v = c * p + t
  <2>1. PICK h \in Int : h = b * p
    OBVIOUS
  <2>2. a * (h + s) = a * h + a * s
    BY SMT
  <2>3. a * (b * p) = (a * b) * p
    BY SMT
  <2>4. PICK x \in Int, y \in Int : x = a * h /\ y = a * s
    BY SMT
  <2>5. c * p = x
    BY <1>3, <2>1, <2>3, <2>4, Zenon
  <2>6. v = (x + y) + r
    BY <1>1, <1>2, <2>1, <2>2, <2>4, Zenon
  <2>7. t = y + r
    BY <1>4, <2>4, Zenon
  <2> QED
    BY <2>5, <2>6, <2>7, SMT
<1>6. t \in 0..(c - 1)
  <2>1. a * s <= a * (b - 1) /\ 0 <= a * s
    BY SMT
  <2>2. a * (b - 1) = c - a
    BY <1>3, SMT
  <2> QED
    BY <1>1, <1>4, <2>1, <2>2
<1>7. v \div c = p
  <2>1. PICK g \in Int, h \in 0..(c - 1) : h = v % c /\ g = v \div c /\ v = c * g + h
    BY Quotient
  <2>2. h = t
    BY <1>5, <1>6, <2>1, ModUnique
  <2>3. c * g = c * p
    BY <1>5, <2>1, <2>2
  <2>4. g = p
    BY <2>3, SMT
  <2> QED
    BY <2>1, <2>4
<1> QED
  BY <1>1, <1>2, <1>3, <1>7

(* A number without its last bits, by the one with one bit more. *)
LEMMA Halves ==
  ASSUME NEW u \in Int, NEW k \in Nat \ {0}, NEW m \in Nat \ {0}, m = k * 2
  PROVE  /\ u \div k = 2 * (u \div m) + ((u \div k) % 2)
         /\ u \div k \in Int /\ (u \div k) % 2 \in {0, 1}
<1>1. (u \div k) \div 2 = u \div m
  <2>1. 2 \in Nat \ {0}
    OBVIOUS
  <2> QED
    BY <2>1, DivDiv
<1>2. PICK q \in Int : q = u \div k
  BY DivMod
<1>3. q = 2 * (q \div 2) + (q % 2) /\ q % 2 \in {0, 1}
  BY <1>2
<1> QED
  BY <1>1, <1>2, <1>3

(* Halving a number eight times, a bit at a time. *)
LEMMA ByteHalves ==
  ASSUME NEW u \in Int
  PROVE  /\ u = 2 * (u \div 2) + (u % 2) /\ u % 2 \in {0, 1}
         /\ u \div 2 = 2 * (u \div 4) + ((u \div 2) % 2)
         /\ u \div 2 \in Int /\ (u \div 2) % 2 \in {0, 1}
         /\ u \div 4 = 2 * (u \div 8) + ((u \div 4) % 2)
         /\ u \div 4 \in Int /\ (u \div 4) % 2 \in {0, 1}
         /\ u \div 8 = 2 * (u \div 16) + ((u \div 8) % 2)
         /\ u \div 8 \in Int /\ (u \div 8) % 2 \in {0, 1}
         /\ u \div 16 = 2 * (u \div 32) + ((u \div 16) % 2)
         /\ u \div 16 \in Int /\ (u \div 16) % 2 \in {0, 1}
         /\ u \div 32 = 2 * (u \div 64) + ((u \div 32) % 2)
         /\ u \div 32 \in Int /\ (u \div 32) % 2 \in {0, 1}
         /\ u \div 64 = 2 * (u \div 128) + ((u \div 64) % 2)
         /\ u \div 64 \in Int /\ (u \div 64) % 2 \in {0, 1}
         /\ u \div 128 = 2 * (u \div 256) + ((u \div 128) % 2)
         /\ u \div 128 \in Int /\ (u \div 128) % 2 \in {0, 1}
         /\ u \div 256 \in Int
<1>1. u = 2 * (u \div 2) + (u % 2) /\ u % 2 \in {0, 1} /\ u \div 256 \in Int
  OBVIOUS
<1>2. /\ u \div 2 = 2 * (u \div 4) + ((u \div 2) % 2)
      /\ u \div 2 \in Int /\ (u \div 2) % 2 \in {0, 1}
  <2>1. 2 \in Nat \ {0} /\ 4 \in Nat \ {0} /\ 4 = 2 * 2
    OBVIOUS
  <2> QED
    BY <2>1, Halves
<1>3. /\ u \div 4 = 2 * (u \div 8) + ((u \div 4) % 2)
      /\ u \div 4 \in Int /\ (u \div 4) % 2 \in {0, 1}
  <2>1. 4 \in Nat \ {0} /\ 8 \in Nat \ {0} /\ 8 = 4 * 2
    OBVIOUS
  <2> QED
    BY <2>1, Halves
<1>4. /\ u \div 8 = 2 * (u \div 16) + ((u \div 8) % 2)
      /\ u \div 8 \in Int /\ (u \div 8) % 2 \in {0, 1}
  <2>1. 8 \in Nat \ {0} /\ 16 \in Nat \ {0} /\ 16 = 8 * 2
    OBVIOUS
  <2> QED
    BY <2>1, Halves
<1>5. /\ u \div 16 = 2 * (u \div 32) + ((u \div 16) % 2)
      /\ u \div 16 \in Int /\ (u \div 16) % 2 \in {0, 1}
  <2>1. 16 \in Nat \ {0} /\ 32 \in Nat \ {0} /\ 32 = 16 * 2
    OBVIOUS
  <2> QED
    BY <2>1, Halves
<1>6. /\ u \div 32 = 2 * (u \div 64) + ((u \div 32) % 2)
      /\ u \div 32 \in Int /\ (u \div 32) % 2 \in {0, 1}
  <2>1. 32 \in Nat \ {0} /\ 64 \in Nat \ {0} /\ 64 = 32 * 2
    OBVIOUS
  <2> QED
    BY <2>1, Halves
<1>7. /\ u \div 64 = 2 * (u \div 128) + ((u \div 64) % 2)
      /\ u \div 64 \in Int /\ (u \div 64) % 2 \in {0, 1}
  <2>1. 64 \in Nat \ {0} /\ 128 \in Nat \ {0} /\ 128 = 64 * 2
    OBVIOUS
  <2> QED
    BY <2>1, Halves
<1>8. /\ u \div 128 = 2 * (u \div 256) + ((u \div 128) % 2)
      /\ u \div 128 \in Int /\ (u \div 128) % 2 \in {0, 1}
  <2>1. 128 \in Nat \ {0} /\ 256 \in Nat \ {0} /\ 256 = 128 * 2
    OBVIOUS
  <2> QED
    BY <2>1, Halves
<1> QED
  BY <1>1, <1>2, <1>3, <1>4, <1>5, <1>6, <1>7, <1>8, Zenon

(* extract_u8 puts eight bits of a number together again ... *)
LEMMA ByteIs ==
  ASSUME NEW bits, NEW o \in Nat, NEW u \in Int,
         o \in bits <=> (u \div 128) % 2 = 1,
         o + 1 \in bits <=> (u \div 64) % 2 = 1,
         o + 2 \in bits <=> (u \div 32) % 2 = 1,
         o + 3 \in bits <=> (u \div 16) % 2 = 1,
         o + 4 \in bits <=> (u \div 8) % 2 = 1,
         o + 5 \in bits <=> (u \div 4) % 2 = 1,
         o + 6 \in bits <=> (u \div 2) % 2 = 1,
         o + 7 \in bits <=> u % 2 = 1
  PROVE  extract_u8(bits, o) = u % 256
<1> DEFINE bit(i) == IF o + i \in bits THEN 1 ELSE 0
<1>1. /\ bit(0) = (u \div 128) % 2 /\ bit(1) = (u \div 64) % 2
      /\ bit(2) = (u \div 32) % 2 /\ bit(3) = (u \div 16) % 2
      /\ bit(4) = (u \div 8) % 2 /\ bit(5) = (u \div 4) % 2
      /\ bit(6) = (u \div 2) % 2 /\ bit(7) = u % 2
  <2>1. o + 0 = o
    OBVIOUS
  <2> QED
    BY <2>1, ByteHalves
<1>2. extract_u8(bits, o) = 128 * bit(0) + 64 * bit(1) + 32 * bit(2) + 16 * bit(3)
                              + 8 * bit(4) + 4 * bit(5) + 2 * bit(6) + bit(7)
  BY DEF extract_u8
<1> HIDE DEF bit
<1>3. PICK b0 \in {0, 1} : b0 = bit(0) /\ u \div 128 = 2 * (u \div 256) + b0
  BY <1>1, ByteHalves
<1>4. PICK b1 \in {0, 1} : b1 = bit(1) /\ u \div 64 = 2 * (u \div 128) + b1
  BY <1>1, ByteHalves
<1>5. PICK b2 \in {0, 1} : b2 = bit(2) /\ u \div 32 = 2 * (u \div 64) + b2
  BY <1>1, ByteHalves
<1>6. PICK b3 \in {0, 1} : b3 = bit(3) /\ u \div 16 = 2 * (u \div 32) + b3
  BY <1>1, ByteHalves
<1>7. PICK b4 \in {0, 1} : b4 = bit(4) /\ u \div 8 = 2 * (u \div 16) + b4
  BY <1>1, ByteHalves
<1>8. PICK b5 \in {0, 1} : b5 = bit(5) /\ u \div 4 = 2 * (u \div 8) + b5
  BY <1>1, ByteHalves
<1>9. PICK b6 \in {0, 1} : b6 = bit(6) /\ u \div 2 = 2 * (u \div 4) + b6
  BY <1>1, ByteHalves
<1>10. PICK b7 \in {0, 1} : b7 = bit(7) /\ u = 2 * (u \div 2) + b7
  BY <1>1, ByteHalves
<1>11. extract_u8(bits, o) = 128 * b0 + 64 * b1 + 32 * b2 + 16 * b3
                              + 8 * b4 + 4 * b5 + 2 * b6 + b7
  BY <1>2, <1>3, <1>4, <1>5, <1>6, <1>7, <1>8, <1>9, <1>10
<1>12. PICK t \in 0..255 : t = 128 * b0 + 64 * b1 + 32 * b2 + 16 * b3
                              + 8 * b4 + 4 * b5 + 2 * b6 + b7
  OBVIOUS
<1>13. u = 256 * (u \div 256) + t
  <2>1. PICK u1 \in Int, u2 \in Int, u3 \in Int, u4 \in Int :
          u1 = u \div 2 /\ u2 = u \div 4 /\ u3 = u \div 8 /\ u4 = u \div 16
    BY ByteHalves
  <2>2. PICK u5 \in Int, u6 \in Int, u7 \in Int, u8 \in Int :
          u5 = u \div 32 /\ u6 = u \div 64 /\ u7 = u \div 128 /\ u8 = u \div 256
    BY ByteHalves
  <2>3. /\ u = 2 * u1 + b7 /\ u1 = 2 * u2 + b6 /\ u2 = 2 * u3 + b5 /\ u3 = 2 * u4 + b4
    BY <1>7, <1>8, <1>9, <1>10, <2>1
  <2>4. u4 = 2 * u5 + b3 /\ u5 = 2 * u6 + b2 /\ u6 = 2 * u7 + b1 /\ u7 = 2 * u8 + b0
    BY <1>3, <1>4, <1>5, <1>6, <2>1, <2>2
  <2>5. u = 256 * u8 + t
    BY <1>12, <2>3, <2>4
  <2> QED
    BY <2>2, <2>5
<1>14. u % 256 = t
  BY <1>12, <1>13, ByteHalves
<1> QED
  BY <1>11, <1>12, <1>14

(* The powers of two multiply, where a field of 24 bits is three of 8. *)
LEMMA PowerSum ==
  ASSUME NEW m \in {0, 8, 16}, NEW i \in 0..7
  PROVE  2^(m + i) = 2^m * 2^i /\ 2^m \in Nat \ {0}
<1>1. 2^(0 + i) = 1 * 2^i /\ 2^(8 + i) = 256 * 2^i /\ 2^(16 + i) = 65536 * 2^i
  <2>0. CASE i = 0
    BY <2>0, Powers, SMT
  <2>1. CASE i = 1
    BY <2>1, Powers, SMT
  <2>2. CASE i = 2
    BY <2>2, Powers, SMT
  <2>3. CASE i = 3
    BY <2>3, Powers, SMT
  <2>4. CASE i = 4
    BY <2>4, Powers, SMT
  <2>5. CASE i = 5
    BY <2>5, Powers, SMT
  <2>6. CASE i = 6
    BY <2>6, Powers, SMT
  <2>7. CASE i = 7
    BY <2>7, Powers, SMT
  <2> QED
    BY <2>0, <2>1, <2>2, <2>3, <2>4, <2>5, <2>6, <2>7, SMT
<1>2. CASE m = 0
  BY <1>1, <1>2, Powers, SMT
<1>3. CASE m = 8
  BY <1>1, <1>3, Powers, SMT
<1>4. CASE m = 16
  BY <1>1, <1>4, Powers, SMT
<1> QED
  BY <1>2, <1>3, <1>4

(* The powers of two are positive. *)
LEMMA PowerType ==
  ASSUME NEW i \in 0..7
  PROVE  2^i \in Nat \ {0}
<1>1. CASE i = 0
  BY <1>1, Powers, SMT
<1>2. CASE i = 1
  BY <1>2, Powers, SMT
<1>3. CASE i = 2
  BY <1>3, Powers, SMT
<1>4. CASE i = 3
  BY <1>4, Powers, SMT
<1>5. CASE i = 4
  BY <1>5, Powers, SMT
<1>6. CASE i = 5
  BY <1>6, Powers, SMT
<1>7. CASE i = 6
  BY <1>7, Powers, SMT
<1>8. CASE i = 7
  BY <1>8, Powers, SMT
<1> QED
  BY <1>1, <1>2, <1>3, <1>4, <1>5, <1>6, <1>7, <1>8, SMT

(* Shifting right by whole bytes and then by bits is one shift. *)
LEMMA DivPowers ==
  ASSUME NEW v \in Int, NEW m \in {0, 8, 16}, NEW k \in 0..7
  PROVE  (v \div 2^m) \div 2^k = v \div 2^(m + k)
<1>1. PICK b \in Nat \ {0} : b = 2^k
  BY PowerType
<1>2. PICK a \in Nat \ {0} : a = 2^m
  BY PowerSum
<1>3. (v \div a) \div b = v \div (a * b)
  BY DivDiv
<1>4. 2^(m + k) = a * b
  BY <1>1, <1>2, PowerSum, Zenon
<1> QED
  BY <1>1, <1>2, <1>3, <1>4, Zenon

(* ... which are the number's last byte. *)
LEMMA Byte ==
  ASSUME NEW bits, NEW o \in Nat, NEW u \in Int,
         \A j \in 0..7 : o + j \in bits <=> (u \div 2^(7 - j)) % 2 = 1
  PROVE  extract_u8(bits, o) = u % 256
<1>1. /\ o + 0 \in bits <=> (u \div 2^7) % 2 = 1
      /\ o + 1 \in bits <=> (u \div 2^6) % 2 = 1
      /\ o + 2 \in bits <=> (u \div 2^5) % 2 = 1
      /\ o + 3 \in bits <=> (u \div 2^4) % 2 = 1
      /\ o + 4 \in bits <=> (u \div 2^3) % 2 = 1
      /\ o + 5 \in bits <=> (u \div 2^2) % 2 = 1
      /\ o + 6 \in bits <=> (u \div 2^1) % 2 = 1
      /\ o + 7 \in bits <=> (u \div 2^0) % 2 = 1
  OBVIOUS
<1>2. o + 0 = o /\ u \div 1 = u
  OBVIOUS
<1>3. /\ o \in bits <=> (u \div 128) % 2 = 1
      /\ o + 1 \in bits <=> (u \div 64) % 2 = 1
      /\ o + 2 \in bits <=> (u \div 32) % 2 = 1
      /\ o + 3 \in bits <=> (u \div 16) % 2 = 1
      /\ o + 4 \in bits <=> (u \div 8) % 2 = 1
      /\ o + 5 \in bits <=> (u \div 4) % 2 = 1
      /\ o + 6 \in bits <=> (u \div 2) % 2 = 1
      /\ o + 7 \in bits <=> u % 2 = 1
  BY <1>1, <1>2, Powers
<1> QED
  BY <1>3, ByteIs

(* What a number puts into the bits of its field, and nowhere else. *)
LEMMA PutAt ==
  ASSUME NEW v \in Int, NEW o \in Nat, NEW n \in Nat
  PROVE  /\ Put(v, o, n) \subseteq o..(o + n - 1)
         /\ \A j \in 0..(n - 1) : o + j \in Put(v, o, n) <=> (v \div 2^(n - 1 - j)) % 2 = 1
<1>1. ASSUME NEW j \in 0..(n - 1)
      PROVE  o + j \in Put(v, o, n) <=> (v \div 2^(n - 1 - j)) % 2 = 1
  <2>1. o + j \in o..(o + n - 1) /\ o + n - 1 - (o + j) = n - 1 - j
    OBVIOUS
  <2>2. o + j \in Put(v, o, n) <=> (v \div 2^(o + n - 1 - (o + j))) % 2 = 1
    BY <2>1, Zenon DEF Put
  <2> QED
    BY <2>1, <2>2, Zenon
<1>2. Put(v, o, n) \subseteq o..(o + n - 1)
  BY Zenon DEF Put
<1> QED
  BY <1>1, <1>2

(* A field of 24 bits is read back up to a multiple of 2^24 ... *)
LEMMA Field24 ==
  ASSUME NEW bits, NEW v \in Int, NEW o \in Nat,
         \A i \in o..(o + 23) : i \in bits <=> i \in Put(v, o, 24)
  PROVE  extract_u24(bits, o) = v % 2^24
<1>1. ASSUME NEW j \in 0..23
      PROVE  o + j \in bits <=> (v \div 2^(23 - j)) % 2 = 1
  <2>1. o + j \in o..(o + 23) /\ 24 \in Nat /\ j \in 0..(24 - 1) /\ 24 - 1 - j = 23 - j
    OBVIOUS
  <2>2. o + j \in Put(v, o, 24) <=> (v \div 2^(24 - 1 - j)) % 2 = 1
    BY <2>1, PutAt
  <2> QED
    BY <2>1, <2>2
<1>2. ASSUME NEW m \in {0, 8, 16}, NEW p \in Nat, p = o + (16 - m), NEW u \in Int, u = v \div 2^m
      PROVE  extract_u8(bits, p) = u % 256
  <2>1. ASSUME NEW j \in 0..7
        PROVE  p + j \in bits <=> (u \div 2^(7 - j)) % 2 = 1
    <3>1. PICK i \in 0..23 : i = (16 - m) + j
      OBVIOUS
    <3>2. p + j = o + i /\ 23 - i = m + (7 - j)
      BY <1>2, <3>1
    <3>3. PICK k \in 0..7 : k = 7 - j
      OBVIOUS
    <3>4. (v \div 2^m) \div 2^k = v \div 2^(m + k)
      BY DivPowers
    <3>5. u \div 2^(7 - j) = v \div 2^(23 - i)
      BY <1>2, <3>2, <3>3, <3>4, Zenon
    <3>6. o + i \in bits <=> (v \div 2^(23 - i)) % 2 = 1
      BY <1>1
    <3> QED
      BY <3>2, <3>5, <3>6, Zenon
  <2> QED
    BY <2>1, Byte
<1>3. PICK u0 \in Int, u1 \in Int : u0 = v \div 65536 /\ u1 = v \div 256
  BY SMT
<1>4. extract_u8(bits, o) = u0 % 256
  <2>1. o = o + (16 - 16) /\ u0 = v \div 2^16 /\ 16 \in {0, 8, 16}
    BY <1>3, Powers, SMT
  <2> QED
    BY <1>2, <2>1
<1>5. extract_u8(bits, o + 8) = u1 % 256
  <2>1. o + 8 = o + (16 - 8) /\ u1 = v \div 2^8 /\ 8 \in {0, 8, 16} /\ o + 8 \in Nat
    BY <1>3, Powers, SMT
  <2> QED
    BY <1>2, <2>1
<1>6. extract_u8(bits, o + 16) = v % 256
  <2>1. o + 16 = o + (16 - 0) /\ v = v \div 2^0 /\ 0 \in {0, 8, 16} /\ o + 16 \in Nat
    BY Powers, SMT
  <2> QED
    BY <1>2, <2>1
<1>7. u0 = u1 \div 256
  <2>1. PICK a \in Nat \ {0} : a = 256
    OBVIOUS
  <2>2. (v \div a) \div a = v \div (a * a)
    BY DivDiv
  <2> QED
    BY <1>3, <2>1, <2>2, SMT
<1>8. PICK x0 \in Int, w \in Int :
        x0 = u0 % 256 /\ u0 = 256 * w + x0 /\ 0 <= x0 /\ x0 < 256
  <2>1. /\ u0 % 256 \in Int /\ u0 \div 256 \in Int /\ u0 = 256 * (u0 \div 256) + (u0 % 256)
        /\ 0 <= u0 % 256 /\ u0 % 256 < 256
    BY SMT
  <2> QED
    BY <2>1
<1>9. PICK x1 \in Int : x1 = u1 % 256 /\ u1 = 256 * u0 + x1 /\ 0 <= x1 /\ x1 < 256
  BY <1>7, SMT
<1>10. PICK x2 \in Int : x2 = v % 256 /\ v = 256 * u1 + x2 /\ 0 <= x2 /\ x2 < 256
  BY <1>3, SMT
<1>11. PICK t \in Int : t = 65536 * x0 + 256 * x1 + x2
  BY SMT
<1>12. 0 <= t /\ t < 16777216
  BY <1>8, <1>9, <1>10, <1>11, SMT
<1>13. v = 16777216 * w + t
  BY <1>8, <1>9, <1>10, <1>11, SMT
<1>14. v % 16777216 = t
  BY <1>12, <1>13, SMT
<1> QED
  BY <1>4, <1>5, <1>6, <1>8, <1>9, <1>10, <1>11, <1>14, Powers, SMT DEF extract_u24

(* extract_u8 is a number. *)
LEMMA ByteType ==
  ASSUME NEW bits, NEW o
  PROVE  extract_u8(bits, o) \in Int
<1> DEFINE bit(i) == IF o + i \in bits THEN 1 ELSE 0
<1>1. \A i : bit(i) \in Int
  OBVIOUS
<1>2. extract_u8(bits, o) = 128 * bit(0) + 64 * bit(1) + 32 * bit(2) + 16 * bit(3)
                              + 8 * bit(4) + 4 * bit(5) + 2 * bit(6) + bit(7)
  BY DEF extract_u8
<1> HIDE DEF bit
<1> QED
  BY <1>1, <1>2

(* ... which sign_extend corrects for numbers in two's complement ... *)
LEMMA SignExtendBack ==
  ASSUME NEW v \in Signed24
  PROVE  v \in Int /\ sign_extend(v % 2^24, 24) = v
<1>1. v \in Int /\ -8388608 <= v /\ v <= 8388607
  BY Powers, SMT DEF Signed24
<1>2. v % 16777216 = IF v < 0 THEN v + 16777216 ELSE v
  BY <1>1, SMT
<1>3. 2^(24 - 1) = 8388608 /\ 2^24 = 16777216
  BY SMT
<1> QED
  BY <1>1, <1>2, <1>3, SMT DEF sign_extend

(* ... and which unsigned numbers do not have. *)
LEMMA UnsignedBack ==
  ASSUME NEW v \in Unsigned24
  PROVE  v \in Int /\ v % 2^24 = v
<1>1. v \in Int /\ 0 <= v /\ v < 16777216
  BY Powers, SMT DEF Unsigned24
<1>2. v % 16777216 = v
  BY <1>1, SMT
<1> QED
  BY <1>1, <1>2, Powers, SMT

(* An unsigned field is read as it was written ... *)
LEMMA UnsignedField ==
  ASSUME NEW bits, NEW v \in Unsigned24, NEW o \in Nat,
         \A i \in o..(o + 23) : i \in bits <=> i \in Put(v, o, 24)
  PROVE  extract_u24(bits, o) = v
<1>1. v \in Int /\ v % 2^24 = v
  BY UnsignedBack
<1>2. extract_u24(bits, o) = v % 2^24
  BY <1>1, Field24, Zenon
<1> QED
  BY <1>1, <1>2, Zenon

(* ... and so is a signed one, once its sign is extended. *)
LEMMA SignedField ==
  ASSUME NEW bits, NEW v \in Signed24, NEW o \in Nat,
         \A i \in o..(o + 23) : i \in bits <=> i \in Put(v, o, 24)
  PROVE  sign_extend(extract_u24(bits, o), 24) = v
<1>1. v \in Int /\ sign_extend(v % 2^24, 24) = v
  BY SignExtendBack
<1>2. extract_u24(bits, o) = v % 2^24
  BY <1>1, Field24, Zenon
<1> QED
  BY <1>1, <1>2, Zenon

(* The fields of a link control message do not overlap, and each is read   *)
(* back as it was put there.                                               *)
LEMMA VoiceLcFields ==
  ASSUME NEW x \in VoiceLc, NEW bits,
         bits = Put(x.flco, 2, 6) \cup Put(x.dst, 24, 24) \cup Put(x.src, 48, 24)
  PROVE  /\ bits \in Messages
         /\ extract_u8(bits, 0) % 64 = x.flco
         /\ extract_u24(bits, 24) = x.dst
         /\ extract_u24(bits, 48) = x.src
<1>1. PICK f \in 0..63 : f = x.flco
  BY DEF VoiceLc
<1>2. PICK d \in Unsigned24 : d = x.dst
  BY Zenon DEF VoiceLc
<1>3. PICK s \in Unsigned24 : s = x.src
  BY Zenon DEF VoiceLc
<1>4. d \in Int /\ s \in Int
  BY UnsignedBack, Zenon
<1>5. /\ Put(f, 2, 6) \subseteq 2..7
      /\ Put(d, 24, 24) \subseteq 24..47
      /\ Put(s, 48, 24) \subseteq 48..71
  <2>1. /\ Put(f, 2, 6) \subseteq 2..(2 + 6 - 1)
        /\ Put(d, 24, 24) \subseteq 24..(24 + 24 - 1)
        /\ Put(s, 48, 24) \subseteq 48..(48 + 24 - 1)
    BY Zenon DEF Put
  <2> QED
    BY <2>1
<1>6. PICK pf, pd, ps : pf = Put(f, 2, 6) /\ pd = Put(d, 24, 24) /\ ps = Put(s, 48, 24)
  OBVIOUS
<1>7. bits = pf \cup pd \cup ps /\ pf \subseteq 2..7 /\ pd \subseteq 24..47 /\ ps \subseteq 48..71
  BY <1>1, <1>2, <1>3, <1>5, <1>6, Zenon
<1>8. bits \in Messages
  <2>1. ASSUME NEW i \in bits
        PROVE  i \in 0..95
    BY <1>7, <2>1
  <2> QED
    BY <2>1, Zenon DEF Messages
<1>9. extract_u24(bits, 24) = d
  <2>1. \A i \in 24..(24 + 23) : i \in bits <=> i \in pd
    BY <1>7
  <2> QED
    BY <1>6, <2>1, UnsignedField
<1>10. extract_u24(bits, 48) = s
  <2>1. \A i \in 48..(48 + 23) : i \in bits <=> i \in ps
    BY <1>7
  <2> QED
    BY <1>6, <2>1, UnsignedField
<1>11. extract_u8(bits, 0) = f
  <2>1. ASSUME NEW j \in 0..7
        PROVE  0 + j \in bits <=> (f \div 2^(7 - j)) % 2 = 1
    <3>1. CASE j = 0
      <4>1. f \div 128 = 0
        OBVIOUS
      <4>2. 0 + j \notin bits
        BY <1>7, <3>1
      <4> QED
        BY <3>1, <4>1, <4>2, Powers, SMT
    <3>2. CASE j = 1
      <4>1. f \div 64 = 0
        OBVIOUS
      <4>2. 0 + j \notin bits
        BY <1>7, <3>2
      <4> QED
        BY <3>2, <4>1, <4>2, Powers, SMT
    <3>3. CASE j >= 2
      <4>1. PICK i \in 0..(6 - 1) : j = 2 + i /\ 6 - 1 - i = 7 - j
        BY <3>3
      <4>2. 2 + i \in pf <=> (f \div 2^(6 - 1 - i)) % 2 = 1
        BY <1>6, PutAt
      <4>3. 0 + j \in bits <=> 2 + i \in pf
        BY <1>7, <4>1
      <4> QED
        BY <4>1, <4>2, <4>3, Zenon
    <3> QED
      BY <3>1, <3>2, <3>3
  <2>2. 0 \in Nat /\ f \in Int
    OBVIOUS
  <2>3. \A j \in 0..7 : 0 + j \in bits <=> (f \div 2^(7 - j)) % 2 = 1
    BY <2>1, Zenon
  <2>4. extract_u8(bits, 0) = f % 256
    BY <2>2, <2>3, Byte, SMTT(30)
  <2> QED
    BY <2>4
<1>12. extract_u8(bits, 0) % 64 = f
  BY <1>11
<1> QED
  BY <1>1, <1>2, <1>3, <1>8, <1>9, <1>10, <1>12

(* parse_voice_lc returns the IDs that were sent, and says of just the     *)
(* calls with IDs that they are valid.                                     *)
LEMMA VoiceLcBack ==
  ASSUME NEW x \in VoiceLc, NEW bits,
         bits = Put(x.flco, 2, 6) \cup Put(x.dst, 24, 24) \cup Put(x.src, 48, 24)
  PROVE  parse_voice_lc(bits)
           = [valid |-> x.flco \in {0, 3} /\ ~(x.src = 0 /\ x.dst = 0),
              group |-> x.flco = 0, src_id |-> x.src, dst_id |-> x.dst]
<1>1. /\ extract_u8(bits, 0) % 64 = x.flco
      /\ extract_u24(bits, 24) = x.dst
      /\ extract_u24(bits, 48) = x.src
  BY VoiceLcFields, Zenon
<1> DEFINE parsed(flco, src, dst) ==
             [valid |-> flco \in {0, 3} /\ ~(src = 0 /\ dst = 0),
              group |-> flco = 0, src_id |-> src, dst_id |-> dst]
<1>2. parse_voice_lc(bits)
        = parsed(extract_u8(bits, 0) % 64, extract_u24(bits, 48), extract_u24(bits, 24))
  BY Zenon DEF parse_voice_lc
<1>3. parse_voice_lc(bits) = parsed(x.flco, x.src, x.dst)
  <2> HIDE DEF parsed
  <2> QED
    BY <1>1, <1>2, Zenon
<1> QED
  BY <1>3, Zenon

(* The fields of a position report do not overlap, and each is read back   *)
(* as it was put there.                                                    *)
LEMMA PositionFields ==
  ASSUME NEW x \in Position, NEW bits,
         bits = Put(x.pkt, 0, 8) \cup Put(x.lat, 8, 24) \cup Put(x.lon, 32, 24)
  PROVE  /\ bits \in Messages
         /\ extract_u8(bits, 0) = x.pkt
         /\ sign_extend(extract_u24(bits, 8), 24) = x.lat
         /\ sign_extend(extract_u24(bits, 32), 24) = x.lon
<1>1. PICK f \in 0..255 : f = x.pkt
  BY DEF Position
<1>2. PICK d \in Signed24 : d = x.lat
  BY DEF Position
<1>3. PICK s \in Signed24 : s = x.lon
  BY DEF Position
<1>4. d \in Int /\ s \in Int
  BY SignExtendBack, Zenon
<1>5. /\ Put(f, 0, 8) \subseteq 0..7
      /\ Put(d, 8, 24) \subseteq 8..31
      /\ Put(s, 32, 24) \subseteq 32..55
  <2>1. /\ Put(f, 0, 8) \subseteq 0..(0 + 8 - 1)
        /\ Put(d, 8, 24) \subseteq 8..(8 + 24 - 1)
        /\ Put(s, 32, 24) \subseteq 32..(32 + 24 - 1)
    BY Zenon DEF Put
  <2> QED
    BY <2>1
<1>6. PICK pf, pd, ps : pf = Put(f, 0, 8) /\ pd = Put(d, 8, 24) /\ ps = Put(s, 32, 24)
  OBVIOUS
<1>7. bits = pf \cup pd \cup ps /\ pf \subseteq 0..7 /\ pd \subseteq 8..31 /\ ps \subseteq 32..55
  BY <1>1, <1>2, <1>3, <1>5, <1>6, Zenon
<1>8. bits \in Messages
  <2>1. ASSUME NEW i \in bits
        PROVE  i \in 0..95
    BY <1>7, <2>1
  <2> QED
    BY <2>1, Zenon DEF Messages
<1>9. sign_extend(extract_u24(bits, 8), 24) = d
  <2>1. \A i \in 8..(8 + 23) : i \in bits <=> i \in pd
    BY <1>7
  <2> QED
    BY <1>6, <2>1, SignedField
<1>10. sign_extend(extract_u24(bits, 32), 24) = s
  <2>1. \A i \in 32..(32 + 23) : i \in bits <=> i \in ps
    BY <1>7
  <2> QED
    BY <1>6, <2>1, SignedField
<1>11. extract_u8(bits, 0) = f
  <2>1. ASSUME NEW j \in 0..7
        PROVE  0 + j \in bits <=> (f \div 2^(7 - j)) % 2 = 1
    <3>1. j \in 0..(8 - 1) /\ 8 - 1 - j = 7 - j
      OBVIOUS
    <3>2. 0 + j \in pf <=> (f \div 2^(8 - 1 - j)) % 2 = 1
      BY <1>6, <3>1, PutAt
    <3>3. 0 + j \in bits <=> 0 + j \in pf
      BY <1>7
    <3> QED
      BY <3>1, <3>2, <3>3, Zenon
  <2>2. 0 \in Nat /\ f \in Int
    OBVIOUS
  <2>3. \A j \in 0..7 : 0 + j \in bits <=> (f \div 2^(7 - j)) % 2 = 1
    BY <2>1, Zenon
  <2>4. extract_u8(bits, 0) = f % 256
    BY <2>2, <2>3, Byte, SMTT(30)
  <2> QED
    BY <2>4
<1> QED
  BY <1>1, <1>2, <1>3, <1>8, <1>9, <1>10, <1>11

(* parse_gps returns the position that was sent, and says of just those on *)
(* the globe, but for 0N 0E, that they are valid.                          *)
LEMMA PositionBack ==
  ASSUME NEW x \in Position, NEW bits,
         bits = Put(x.pkt, 0, 8) \cup Put(x.lat, 8, 24) \cup Put(x.lon, 32, 24)
  PROVE  parse_gps(bits)
           = [valid |-> /\ x.pkt \in {0, 32}
                        /\ x.lat \in (-kPole)..kPole /\ x.lon \in (-kPole)..kPole
                        /\ ~(x.lat = 0 /\ x.lon = 0),
              lat |-> x.lat, lon |-> x.lon]
<1>1. /\ extract_u8(bits, 0) = x.pkt
      /\ sign_extend(extract_u24(bits, 8), 24) = x.lat
      /\ sign_extend(extract_u24(bits, 32), 24) = x.lon
  BY PositionFields
<1>2. /\ 8 * 0 = 0 /\ 8 * 1 = 8 /\ 8 * 2 = 8 + 8 /\ 8 * 3 = 8 + 16
      /\ 8 * 4 = 32 /\ 8 * 5 = 32 + 8 /\ 8 * 6 = 32 + 16 /\ 8 \in Nat /\ 32 \in Nat
  OBVIOUS
<1>3. ASSUME NEW o \in Nat
      PROVE  extract_u8(bits, o) * 2^16 + extract_u8(bits, o + 8) * 2^8 + extract_u8(bits, o + 16)
               = extract_u24(bits, o)
  <2>1. PICK a \in Int, b \in Int, c \in Int :
          a = extract_u8(bits, o) /\ b = extract_u8(bits, o + 8) /\ c = extract_u8(bits, o + 16)
    BY ByteType
  <2>2. a * 2^16 + b * 2^8 + c = 65536 * a + 256 * b + c
    BY Powers, SMT
  <2> QED
    BY <2>1, <2>2, SMT DEF extract_u24
<1>4. extract_u8(bits, 8 * 1) * 2^16 + extract_u8(bits, 8 * 2) * 2^8 + extract_u8(bits, 8 * 3)
        = extract_u24(bits, 8)
  BY <1>2, <1>3, Zenon
<1>5. extract_u8(bits, 8 * 4) * 2^16 + extract_u8(bits, 8 * 5) * 2^8 + extract_u8(bits, 8 * 6)
        = extract_u24(bits, 32)
  BY <1>2, <1>3, Zenon
<1>6. extract_u8(bits, 8 * 0) = x.pkt
  BY <1>1, <1>2, SMT
<1>7. /\ sign_extend(extract_u8(bits, 8 * 1) * 2^16 + extract_u8(bits, 8 * 2) * 2^8
                       + extract_u8(bits, 8 * 3), 24) = x.lat
      /\ sign_extend(extract_u8(bits, 8 * 4) * 2^16 + extract_u8(bits, 8 * 5) * 2^8
                       + extract_u8(bits, 8 * 6), 24) = x.lon
  BY <1>1, <1>4, <1>5, Zenon
<1> DEFINE parsed(pkt, lat, lon) ==
             [valid |-> /\ pkt \in {0, 32}
                        /\ lat \in (-kPole)..kPole /\ lon \in (-kPole)..kPole
                        /\ ~(lat = 0 /\ lon = 0),
              lat |-> lat, lon |-> lon]
<1>8. parse_gps(bits)
        = parsed(extract_u8(bits, 8 * 0),
                 sign_extend(extract_u8(bits, 8 * 1) * 2^16 + extract_u8(bits, 8 * 2) * 2^8
                               + extract_u8(bits, 8 * 3), 24),
                 sign_extend(extract_u8(bits, 8 * 4) * 2^16 + extract_u8(bits, 8 * 5) * 2^8
                               + extract_u8(bits, 8 * 6), 24))
  BY Zenon DEF parse_gps
<1>9. parse_gps(bits) = parsed(x.pkt, x.lat, x.lon)
  <2> HIDE DEF parsed
  <2> QED
    BY <1>6, <1>7, <1>8, Zenon
<1> QED
  BY <1>9, Zenon

-----------------------------------------------------------------------------
(* The burst on the air and the callback. *)

(* A transmission is one of the two messages ... *)
LEMMA TransmissionKinds ==
  ASSUME NEW x \in Transmissions
  PROVE  \/ x.kind = "voice_lc" /\ x.body \in VoiceLc
         \/ x.kind = "position" /\ x.body \in Position
<1>1. x \in Transmission("voice_lc", VoiceLc) \/ x \in Transmission("position", Position)
  BY Layer2Constants, Zenon DEF Layer2Constants
<1> QED
  BY <1>1 DEF Transmission

(* ... and its bits are one of 96. *)
LEMMA BitsType ==
  ASSUME NEW x \in Transmissions
  PROVE  Bits(x) \in Messages
<1>1. CASE x.kind = "voice_lc" /\ x.body \in VoiceLc
  BY <1>1, VoiceLcFields, Zenon DEF Bits
<1>2. CASE x.kind = "position" /\ x.body \in Position
  <2>1. "position" # "voice_lc"
    OBVIOUS
  <2> QED
    BY <1>2, <2>1, PositionFields, Zenon DEF Bits
<1> QED
  BY <1>1, <1>2, TransmissionKinds

(* A burst with at most two bit errors is decoded to what was sent. *)
LEMMA DecodesReceived ==
  ASSUME sent \in Transmissions, errors \in Matrices, Cardinality(errors) <= 2
  PROVE  decode(Received) = [ok |-> TRUE, bits |-> Bits(sent)]
<1>1. AtMostTwo(errors)
  BY WordsFinite, CardinalityTwo, Zenon
<1>2. Bits(sent) \in Messages
  BY BitsType
<1> QED
  BY <1>1, <1>2, TwoErrorsCorrected, Zenon DEF Received

(* The inductive invariant: one of the transmissions is on the air, the    *)
(* errors are bits of its matrix, and what was reported is the callback's  *)
(* answer to the burst as it is now. Flip keeps the last because it needs  *)
(* the report to be pending: no bit of a burst changes once it was         *)
(* reported.                                                               *)
L2Inv ==
  /\ sent \in Transmissions
  /\ errors \in Matrices
  /\ report # NotYet =>
       report = layer2([type |-> sent.sync, timeslot |-> sent.timeslot,
                        dibits |-> Received])

(* L2Inv is inductive. *)
THEOREM L2Invariance == L2Spec => []L2Inv
<1>1. L2Init => L2Inv
  BY Zenon DEF L2Init, L2Inv, Matrices
<1>2. L2Inv /\ [L2Next]_l2Vars => L2Inv'
  <2> SUFFICES ASSUME L2Inv, [L2Next]_l2Vars
               PROVE  L2Inv'
    OBVIOUS
  <2>1. CASE Flip
    <3>1. PICK k \in FlipAt : errors' = errors \cup {k}
      BY <2>1 DEF Flip
    <3>2. k \in 0..195
      BY Layer2Constants DEF Layer2Constants
    <3>3. errors' \in Matrices
      BY <3>1, <3>2, Zenon DEF L2Inv, Matrices
    <3>4. report' = NotYet /\ sent' \in Transmissions
      BY <2>1, Zenon DEF Flip, L2Inv
    <3> QED
      BY <3>3, <3>4, Zenon DEF L2Inv, NotYet
  <2>2. CASE Receive
    <3>1. Received' = Received /\ sent' = sent /\ errors' = errors
      BY <2>2, Zenon DEF Receive, Received
    <3>2. report' = layer2([type |-> sent.sync, timeslot |-> sent.timeslot,
                            dibits |-> Received])
      BY <2>2, Zenon DEF Receive
    <3> QED
      BY <3>1, <3>2, Zenon DEF L2Inv
  <2>3. CASE UNCHANGED l2Vars
    BY <2>3, Zenon DEF l2Vars, L2Inv, Received, NotYet
  <2> QED
    BY <2>1, <2>2, <2>3, Zenon DEF L2Next
<1> QED
  BY <1>1, <1>2, PTL DEF L2Spec

(* A burst with at most two bit errors is decoded to the message that was  *)
(* sent (BPTC19696::decode), whatever is sent and wherever the errors are. *)
THEOREM L2CorrectsErrors == L2Spec => []CorrectsErrors
<1>1. L2Inv => CorrectsErrors
  BY DecodesReceived, Zenon DEF L2Inv, CorrectsErrors
<1> QED
  BY <1>1, L2Invariance, PTL

(* The callback on a burst of voice with link control that is decoded to   *)
(* what was sent ...                                                       *)
LEMMA VoiceReport ==
  ASSUME sent \in Transmissions, sent.kind = "voice_lc", sent.body \in VoiceLc,
         sent.sync \in Voice, decode(Received) = [ok |-> TRUE, bits |-> Bits(sent)]
  PROVE  layer2([type |-> sent.sync, timeslot |-> sent.timeslot, dibits |-> Received])
           = Expected
<1> DEFINE x == sent.body
           b == [type |-> sent.sync, timeslot |-> sent.timeslot, dibits |-> Received]
           lc == parse_voice_lc(Bits(sent))
<1>1. lc = [valid |-> x.flco \in {0, 3} /\ ~(x.src = 0 /\ x.dst = 0),
            group |-> x.flco = 0, src_id |-> x.src, dst_id |-> x.dst]
  <2>1. Bits(sent) = Put(x.flco, 2, 6) \cup Put(x.dst, 24, 24) \cup Put(x.src, 48, 24)
    BY Zenon DEF Bits
  <2> QED
    BY <2>1, VoiceLcBack, Zenon
<1>2. /\ decode(b.dibits).ok = TRUE /\ decode(b.dibits).bits = Bits(sent)
      /\ b.type = sent.sync /\ b.timeslot = sent.timeslot
  OBVIOUS
<1>3. b.type \in Voice /\ b.type \notin Data
  BY <1>2 DEF Voice, Data
<1>4. PICK valid, group : /\ valid = (x.flco \in {0, 3} /\ ~(x.src = 0 /\ x.dst = 0))
                          /\ group = (x.flco = 0)
  OBVIOUS
<1>5. lc = [valid |-> valid, group |-> group, src_id |-> x.src, dst_id |-> x.dst]
  BY <1>1, <1>4, Zenon
<1>6. /\ lc.valid <=> x.flco \in {0, 3} /\ {x.src, x.dst} # {0}
      /\ lc.src_id = x.src /\ lc.dst_id = x.dst /\ lc.group = (x.flco = 0)
  <2>1. {x.src, x.dst} # {0} <=> ~(x.src = 0 /\ x.dst = 0)
    OBVIOUS
  <2>2. lc.valid = valid /\ lc.group = group /\ lc.src_id = x.src /\ lc.dst_id = x.dst
    BY <1>5
  <2> QED
    BY <1>4, <2>1, <2>2, Zenon
<1> HIDE DEF b, lc
<1>7. CASE lc.valid
  <2>1. layer2(b) = [type |-> "voice", slot |-> b.timeslot,
                     src |-> lc.src_id, dst |-> lc.dst_id, group |-> lc.group]
    BY <1>2, <1>3, <1>7 DEF layer2, lc
  <2> QED
    BY <1>2, <1>6, <1>7, <2>1 DEF Expected, b
<1>8. CASE ~lc.valid
  <2>1. layer2(b) = Nothing
    BY <1>2, <1>3, <1>8 DEF layer2, lc
  <2> QED
    BY <1>6, <1>8, <2>1 DEF Expected, b
<1> QED
  BY <1>7, <1>8

(* ... and on a burst of data with a position report. *)
LEMMA PositionReport ==
  ASSUME sent \in Transmissions, sent.kind = "position", sent.body \in Position,
         sent.sync \in Data, decode(Received) = [ok |-> TRUE, bits |-> Bits(sent)]
  PROVE  layer2([type |-> sent.sync, timeslot |-> sent.timeslot, dibits |-> Received])
           = Expected
<1> DEFINE x == sent.body
           b == [type |-> sent.sync, timeslot |-> sent.timeslot, dibits |-> Received]
           gps == parse_gps(Bits(sent))
<1>1. "position" # "voice_lc"
  OBVIOUS
<1>2. gps = [valid |-> /\ x.pkt \in {0, 32}
                       /\ x.lat \in (-kPole)..kPole /\ x.lon \in (-kPole)..kPole
                       /\ ~(x.lat = 0 /\ x.lon = 0),
             lat |-> x.lat, lon |-> x.lon]
  <2>1. Bits(sent) = Put(x.pkt, 0, 8) \cup Put(x.lat, 8, 24) \cup Put(x.lon, 32, 24)
    BY <1>1, Zenon DEF Bits
  <2> QED
    BY <2>1, PositionBack, Zenon
<1>3. /\ decode(b.dibits).ok = TRUE /\ decode(b.dibits).bits = Bits(sent)
      /\ b.type = sent.sync /\ b.timeslot = sent.timeslot
  OBVIOUS
<1>4. b.type \notin Voice /\ b.type \in Data
  BY <1>3 DEF Voice, Data
<1>5. /\ gps.valid <=> /\ x.pkt \in {0, 32}
                       /\ (-8388608) \notin {x.lat, x.lon}
                       /\ {x.lat, x.lon} # {0}
      /\ gps.lat = x.lat /\ gps.lon = x.lon
  <2>1. {x.lat, x.lon} # {0} <=> ~(x.lat = 0 /\ x.lon = 0)
    OBVIOUS
  <2>2. x.lat \in Signed24 /\ x.lon \in Signed24
    BY Zenon DEF Position
  <2>3. (-8388608) \notin {x.lat, x.lon}
          <=> x.lat \in (-kPole)..kPole /\ x.lon \in (-kPole)..kPole
    BY <2>2, Powers, SMT DEF Signed24, kPole
  <2> QED
    BY <1>2, <2>1, <2>3, SMT
<1> HIDE DEF b, gps
<1>6. CASE gps.valid
  <2>1. layer2(b) = [type |-> "gps", slot |-> b.timeslot,
                     src |-> 0, lat |-> gps.lat, lon |-> gps.lon]
    BY <1>3, <1>4, <1>6 DEF layer2, gps
  <2> QED
    BY <1>1, <1>3, <1>5, <1>6, <2>1, SMT DEF Expected, b
<1>7. CASE ~gps.valid
  <2>1. layer2(b) = Nothing
    BY <1>3, <1>4, <1>7 DEF layer2, gps
  <2> QED
    BY <1>1, <1>5, <1>7, <2>1, SMT DEF Expected, b
<1> QED
  BY <1>6, <1>7

(* make_layer2_cb (main.cpp): with at most two bit errors, the event       *)
(* reported is the call or the position that was sent, in the sender's     *)
(* timeslot, and messages that are no events are passed over.              *)
THEOREM L2ReportsWhatWasSent == L2Spec => []ReportsWhatWasSent
<1>1. L2Inv => ReportsWhatWasSent
  <2> SUFFICES ASSUME L2Inv, report # NotYet, Fits, Cardinality(errors) <= 2
               PROVE  report = Expected
    BY Zenon DEF ReportsWhatWasSent
  <2>1. decode(Received) = [ok |-> TRUE, bits |-> Bits(sent)]
    BY DecodesReceived, Zenon DEF L2Inv
  <2>2. report = layer2([type |-> sent.sync, timeslot |-> sent.timeslot,
                         dibits |-> Received])
    BY Zenon DEF L2Inv
  <2>3. sent \in Transmissions
    BY Zenon DEF L2Inv
  <2>4. CASE sent.kind = "voice_lc" /\ sent.body \in VoiceLc
    BY <2>1, <2>2, <2>3, <2>4, VoiceReport, Zenon DEF Fits
  <2>5. CASE sent.kind = "position" /\ sent.body \in Position
    <3>1. sent.sync \in Data
      BY <2>5 DEF Fits
    <3> QED
      BY <2>1, <2>2, <2>3, <2>5, <3>1, PositionReport, Zenon
  <2> QED
    BY <2>3, <2>4, <2>5, TransmissionKinds
<1> QED
  BY <1>1, L2Invariance, PTL

=============================================================================
