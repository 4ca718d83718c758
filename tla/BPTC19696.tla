----------------------------- MODULE BPTC19696 -----------------------------
(***************************************************************************)
(* The block product turbo code decoder of bptc19696.h/.cpp, and the code  *)
(* itself, as the header draws it: a 13 x 15 matrix whose first nine rows  *)
(* are Hamming(15,11) words and whose columns are Hamming(13,9) words.     *)
(*                                                                         *)
(* A word of bits is the set of the positions that hold a 1, so that the   *)
(* exclusive or of two words is their symmetric difference.                *)
(***************************************************************************)
EXTENDS Integers, FiniteSetsExt

Rows == 0..12
Cols == 0..14
DataRows == 0..8

(* The parity of the bits of a word at some positions. *)
Parity(word, positions) == Cardinality(word \cap positions) % 2

(* The data bits each parity bit of a row covers, and where it is; the     *)
(* columns use the same equations without d9 and d10.                      *)
Covers == [p \in 0..3 |-> CASE p = 0 -> {0, 1, 3, 4, 6, 8, 10}
                            [] p = 1 -> {0, 2, 3, 5, 6, 9, 10}
                            [] p = 2 -> {1, 2, 3, 7, 8, 9, 10}
                            [] p = 3 -> {4, 5, 6, 7, 8, 9, 10}]

Syndrome(word, dataLen) ==
  LET s(p) == Parity(word, {i \in Covers[p] : i < dataLen} \cup {dataLen + p})
  IN  s(0) + 2 * s(1) + 4 * s(2) + 8 * s(3)

(* The bit a syndrome points at, -1 for none. *)
kRow15ErrPos == <<11, 12, 0, 13, 1, 2, 3, 14, 4, 5, 6, 7, 8, 9, 10>>
kCol13ErrPos == <<9, 10, 0, 11, 1, 2, 3, 12, 4, 5, 6, 7, 8, -1, -1>>

(* A word after correction, and whether the code found it correctable. *)
Correct(word, dataLen, errPos) ==
  LET s == Syndrome(word, dataLen)
  IN  IF s = 0 THEN [ok |-> TRUE, word |-> word]
      ELSE IF errPos[s] < 0 THEN [ok |-> FALSE, word |-> word]
      ELSE [ok |-> TRUE, word |-> SymDiff(word, {errPos[s]})]

correct_row(row) == Correct(row, 11, kRow15ErrPos)
correct_col(col) == Correct(col, 9, kCol13ErrPos)

-----------------------------------------------------------------------------
(* decode() *)

(* 98 dibits to 196 bits, high bit first. *)
FromDibits(dibits) ==
  {n \in 0..195 : LET d == dibits[n \div 2 + 1]
                  IN  (IF n % 2 = 0 THEN d \div 2 ELSE d) % 2 = 1}

deinterleave(in) == {k \in 0..195 : (k * 13) % 196 \in in}

Row(m, r) == {c \in Cols : r * 15 + c \in m}
Col(m, c) == {r \in Rows : r * 15 + c \in m}

(* One correction of all data rows, and one of all columns.  The rows are  *)
(* disjoint, and so are the columns; what is in no data row stays.         *)
RowPass(m) ==
  {k \in m : k >= 135}
    \cup UNION {{r * 15 + c : c \in correct_row(Row(m, r)).word} : r \in DataRows}
ColPass(m) ==
  (m \cap {195})
    \cup UNION {{r * 15 + c : r \in correct_col(Col(m, c)).word} : c \in Cols}

(* The 96 bits of the message: the data columns of the data rows but for   *)
(* the last three.                                                         *)
DataBits(m) == {b \in 0..95 : (b \div 11) * 15 + (b % 11) \in m}

decode_single_pass(dibits) ==        \* mutant: no second correction of rows
  LET m0 == deinterleave(FromDibits(dibits))
      m1 == RowPass(m0)
  IN  [ok |-> /\ \A r \in DataRows : correct_row(Row(m0, r)).ok
              /\ \A c \in Cols : correct_col(Col(m1, c)).ok,
       bits |-> DataBits(ColPass(m1))]
decode(dibits) ==
  LET m0 == deinterleave(FromDibits(dibits))
      m1 == RowPass(m0)
      m2 == RowPass(ColPass(m1))
  IN  [ok |-> /\ \A r \in DataRows : correct_row(Row(m0, r)).ok
              /\ \A c \in Cols : correct_col(Col(m1, c)).ok,
       bits |-> DataBits(m2)]

-----------------------------------------------------------------------------
(* The code, independently of the decoder: a transmitter fills the data    *)
(* positions, adds the parity of the rows and then of the columns, and     *)
(* interleaves by the inverse of the receiver's permutation.               *)
ParityBits(data, dataLen) ==
  {dataLen + p : p \in {q \in 0..3 :
     Parity(data, {i \in Covers[q] : i < dataLen}) = 1}}

EncodeMatrix(message) ==
  LET data == {(b \div 11) * 15 + (b % 11) : b \in message}
      rows == data \cup UNION {{r * 15 + c : c \in ParityBits(Row(data, r), 11)}
                               : r \in DataRows}
  IN  rows \cup UNION {{r * 15 + c : r \in ParityBits(Col(rows, c), 9)} : c \in Cols}

(* Bit k of the matrix is sent as bit 13 * k. *)
Interleave(m) == {(k * 13) % 196 : k \in m}

ToDibits(bits) ==
  [n \in 1..98 |-> (IF 2 * n - 2 \in bits THEN 2 ELSE 0)
                     + (IF 2 * n - 1 \in bits THEN 1 ELSE 0)]

Encode(message) == ToDibits(Interleave(EncodeMatrix(message)))
=============================================================================
