---------------------------- MODULE FramingProofs ----------------------------
(***************************************************************************)
(* Sync search, burst assembly and timeslot states of one channel, for     *)
(* every length of the fields of a burst, every set of sync words and      *)
(* number of bit errors forgiven, and every length of the history buffer.  *)
(***************************************************************************)
EXTENDS Framing, ModArith, FiniteSetTheorems, SequenceTheorems, WellFoundedInduction,
        TLAPS

-----------------------------------------------------------------------------
(* The stream. *)

(* The types a sync word may stand for. *)
SyncTypes == {"BS_VOICE", "MS_VOICE", "BS_DATA", "MS_DATA"}

(* The assumptions about the fields of a burst, for the provers. *)
LEMMA BurstBounds ==
  /\ Half \in Nat \ {0} /\ SyncLen \in Nat \ {0} /\ Guard \in Nat \ {0}
  /\ HistLen \in Nat \ {0} /\ HistLen >= SyncLen + Half
  /\ Dibits \subseteq 0..3
BY BurstConstants DEF BurstConstants

(* The sync search takes the same decision as the abstract one. *)
LEMMA SameMatch ==
  ASSUME NEW w
  PROVE  match_sync(w) = Abstract!TypeOf(w)
<1>1. ASSUME NEW u, NEW v
      PROVE  hamming48(u, v) = Abstract!Hamming(u, v)
  <2>1. ASSUME NEW e, NEW b
        PROVE  Bit(e, b) = Abstract!Bit(e, b)
    BY Zenon DEF Bit, Abstract!Bit
  <2>2. {x \in (1..SyncLen) \X {0, 1} : Bit(u[x[1]], x[2]) # Bit(v[x[1]], x[2])}
          = {x \in (1..SyncLen) \X {0, 1} :
               Abstract!Bit(u[x[1]], x[2]) # Abstract!Bit(v[x[1]], x[2])}
    BY <2>1
  <2> QED
    BY <2>2 DEF hamming48, Abstract!Hamming, Cardinality, Abstract!Cardinality
<1>2. Near(w) = Abstract!Matches(w)
  BY <1>1 DEF Near, Abstract!Matches
<1> QED
  BY <1>2 DEF match_sync, Abstract!TypeOf

(* match_sync() returns the type of a sync word or UNKNOWN. *)
LEMMA MatchType ==
  ASSUME NEW w
  PROVE  match_sync(w) \in SyncTypes \cup {"UNKNOWN"}
<1>1. CASE Near(w) = {}
  BY <1>1 DEF match_sync
<1>2. CASE Near(w) # {}
  <2>1. SyncWords \in Seq([type : SyncTypes, word : [1..SyncLen -> 0..3]])
    BY BurstConstants DEF BurstConstants, SyncTypes
  <2>2. Near(w) \subseteq 1..Len(SyncWords) /\ Near(w) \subseteq Nat
    BY <2>1 DEF Near
  <2>3. \E k \in Near(w) : \A j \in Near(w) : k <= j
    <3>1. PICK k \in Near(w) : \A j \in Near(w) : ~(<<j, k>> \in OpToRel(<, Nat))
      BY <1>2, <2>2, NatLessThanWellFounded, WFMin
    <3>2. ASSUME NEW j \in Near(w) PROVE k <= j
      <4>1. k \in Nat /\ j \in Nat
        BY <2>2
      <4>2. ~(<<j, k>> \in OpToRel(<, Nat))
        BY <3>1
      <4>3. ~(j < k)
        BY <4>1, <4>2 DEF OpToRel
      <4> QED
        BY <4>1, <4>3
    <3> QED
      BY <3>2
  <2>4. (CHOOSE k \in Near(w) : \A j \in Near(w) : k <= j) \in 1..Len(SyncWords)
    BY <2>2, <2>3
  <2>5. match_sync(w)
          = SyncWords[CHOOSE k \in Near(w) : \A j \in Near(w) : k <= j].type
    BY <1>2 DEF match_sync
  <2>6. ASSUME NEW i \in 1..Len(SyncWords) PROVE SyncWords[i].type \in SyncTypes
    <3>1. SyncWords[i] \in [type : SyncTypes, word : [1..SyncLen -> 0..3]]
      BY <2>1, ElementOfSeq
    <3> QED
      BY <3>1
  <2> QED
    BY <2>4, <2>5, <2>6
<1> QED
  BY <1>1, <1>2

(* The distance of two words is symmetric and keeps the triangle           *)
(* inequality: where two words differ, a third differs from one of them.   *)
LEMMA Distance ==
  ASSUME NEW u, NEW v, NEW w
  PROVE  /\ hamming48(u, v) \in Nat /\ hamming48(u, v) = hamming48(v, u)
         /\ hamming48(u, v) <= hamming48(w, u) + hamming48(w, v)
<1> DEFINE places == (1..SyncLen) \X {0, 1}
           differ(x, y) == {p \in places : Bit(x[p[1]], p[2]) # Bit(y[p[1]], p[2])}
<1>1. IsFiniteSet(places)
  <2>1. IsFiniteSet(1..SyncLen)
    BY BurstBounds, FS_Interval
  <2>2. IsFiniteSet({0, 1})
    <3>1. IsFiniteSet({0}) /\ {0} \cup {1} = {0, 1}
      BY FS_Singleton
    <3> QED
      BY <3>1, FS_AddElement, Zenon
  <2> QED
    BY <2>1, <2>2, FS_Product
<1>2. ASSUME NEW x, NEW y
      PROVE  /\ IsFiniteSet(differ(x, y)) /\ Cardinality(differ(x, y)) \in Nat
             /\ hamming48(x, y) = Cardinality(differ(x, y))
  <2>1. differ(x, y) \in SUBSET places
    OBVIOUS
  <2> HIDE DEF places
  <2>2. IsFiniteSet(differ(x, y))
    BY <1>1, <2>1, FS_Subset, Zenon
  <2>3. Cardinality(differ(x, y)) \in Nat
    BY <2>2, FS_CardinalityType
  <2> QED
    BY <2>2, <2>3, Zenon DEF hamming48, places
<1>3. differ(u, v) = differ(v, u)
  BY Zenon
<1>4. differ(u, v) \in SUBSET (differ(w, u) \cup differ(w, v))
  BY Zenon
<1> HIDE DEF differ
<1>5. /\ IsFiniteSet(differ(w, u) \cup differ(w, v))
      /\ Cardinality(differ(w, u) \cup differ(w, v))
           = Cardinality(differ(w, u)) + Cardinality(differ(w, v))
               - Cardinality(differ(w, u) \cap differ(w, v))
  BY <1>2, FS_Union
<1>6. PICK c \in Nat : c = Cardinality(differ(w, u) \cap differ(w, v))
  <2>1. IsFiniteSet(differ(w, u) \cap differ(w, v))
    BY <1>2, FS_Intersection
  <2> QED
    BY <2>1, FS_CardinalityType
<1>7. Cardinality(differ(u, v)) <= Cardinality(differ(w, u) \cup differ(w, v))
  BY <1>4, <1>5, FS_Subset, Zenon
<1>8. PICK a \in Nat, b \in Nat, d \in Nat :
        /\ a = Cardinality(differ(w, u)) /\ b = Cardinality(differ(w, v))
        /\ d = Cardinality(differ(u, v))
  BY <1>2
<1>9. d <= a + b
  BY <1>5, <1>6, <1>7, <1>8
<1> QED
  BY <1>2, <1>3, <1>8, <1>9, Zenon

(* A sync word with no more errors than match_sync() forgives is taken for *)
(* what it was sent as, since no word is that near to two patterns.        *)
LEMMA ForgivenWord ==
  ASSUME NEW k \in 1..Len(SyncWords), NEW w,
         hamming48(w, SyncWords[k].word) <= MaxErrors
  PROVE  match_sync(w) = SyncWords[k].type
<1>1. k \in Near(w)
  BY DEF Near
<1>2. ASSUME NEW j \in Near(w)
      PROVE  j = k
  <2>1. j \in 1..Len(SyncWords) /\ hamming48(w, SyncWords[j].word) <= MaxErrors
    BY DEF Near
  <2>2. PICK a \in Nat, b \in Nat, d \in Nat :
          /\ a = hamming48(w, SyncWords[k].word) /\ b = hamming48(w, SyncWords[j].word)
          /\ d = hamming48(SyncWords[k].word, SyncWords[j].word)
    BY Distance, Zenon
  <2>3. MaxErrors \in Nat
    BY BurstConstants DEF BurstConstants
  <2>4. d <= a + b
    BY <2>2, Distance, Zenon
  <2>5. ~(d > 2 * MaxErrors)
    BY <2>1, <2>2, <2>3, <2>4
  <2> QED
    BY <2>1, <2>2, <2>5, SyncWordsApart, Zenon DEF SyncWordsApart
<1>3. Near(w) = {k}
  BY <1>1, <1>2
<1>4. k <= k
  <2>1. k \in Int
    OBVIOUS
  <2> QED
    BY <2>1
<1>5. (CHOOSE n \in Near(w) : \A j \in Near(w) : n <= j) = k
  BY <1>3, <1>4, Zenon
<1> QED
  BY <1>1, <1>5, Zenon DEF match_sync

(* The dibits up to now do not change when another one arrives. *)
LEMMA AtAppend ==
  ASSUME NEW s \in Seq(0..3), NEW d \in 0..3, NEW i \in Int
  PROVE  /\ Abstract!At(s, i) \in 0..3
         /\ i <= Len(s) => Abstract!At(Append(s, d), i) = Abstract!At(s, i)
         /\ i = Len(s) + 1 => Abstract!At(Append(s, d), i) = d
         /\ Append(s, d) \in Seq(0..3) /\ Len(Append(s, d)) = Len(s) + 1
<1>1. /\ Append(s, d) \in Seq(0..3) /\ Len(Append(s, d)) = Len(s) + 1
      /\ \A j \in 1..Len(s) : Append(s, d)[j] = s[j]
      /\ Append(s, d)[Len(s) + 1] = d
  BY AppendProperties
<1>2. Len(s) \in Nat /\ \A j \in 1..Len(s) : s[j] \in 0..3
  BY LenProperties, ElementOfSeq
<1>3. Abstract!At(s, i) \in 0..3
  BY <1>2 DEF Abstract!At
<1>4. i <= Len(s) => Abstract!At(Append(s, d), i) = Abstract!At(s, i)
  BY <1>1, <1>2 DEF Abstract!At
<1>5. i = Len(s) + 1 => Abstract!At(Append(s, d), i) = d
  BY <1>1, <1>2 DEF Abstract!At
<1> QED
  BY <1>1, <1>3, <1>4, <1>5

(* A slice of the stream does not change when a dibit arrives. *)
LEMMA SliceAppend ==
  ASSUME NEW s \in Seq(0..3), NEW d \in 0..3, NEW first \in Int, NEW n \in Nat
  PROVE  /\ Abstract!Slice(s, first, n) \in [1..n -> 0..3]
         /\ first + n - 1 <= Len(s)
              => Abstract!Slice(Append(s, d), first, n) = Abstract!Slice(s, first, n)
<1>1. ASSUME NEW k \in 1..n
      PROVE  /\ first + k - 1 \in Int /\ Abstract!At(s, first + k - 1) \in 0..3
             /\ first + n - 1 <= Len(s) =>
                  Abstract!At(Append(s, d), first + k - 1)
                     = Abstract!At(s, first + k - 1)
  <2>1. PICK i \in Int : i = first + k - 1
    OBVIOUS
  <2>2. first + n - 1 <= Len(s) => i <= Len(s)
    BY <2>1, LenProperties
  <2> QED
    BY <2>1, <2>2, AtAppend
<1> QED
  BY <1>1 DEF Abstract!Slice

(* A word is a sequence. *)
LEMMA WordIsSeq ==
  ASSUME NEW S, NEW n \in Nat, NEW w \in [1..n -> S]
  PROVE  w \in Seq(S) /\ Len(w) = n
<1>1. w \in Seq(S)
  BY SeqDef
<1>2. DOMAIN w = 1..n /\ DOMAIN w = 1..Len(w) /\ Len(w) \in Nat
  BY <1>1, LenProperties
<1> QED
  BY <1>1, <1>2

(* Shifting a dibit in moves the window that a word is. *)
LEMMA SliceShift ==
  ASSUME NEW s \in Seq(0..3), NEW d \in 0..3, NEW n \in Nat \ {0}
  PROVE  Append(Tail(Abstract!Slice(s, Len(s) - n + 1, n)), d)
           = Abstract!Slice(Append(s, d), Len(s) + 1 - n + 1, n)
<1> DEFINE old == Abstract!Slice(s, Len(s) - n + 1, n)
           new == Abstract!Slice(Append(s, d), Len(s) + 1 - n + 1, n)
<1>1. PICK L \in Nat : L = Len(s)
  BY LenProperties
<1>2. Append(s, d) \in Seq(0..3)
  BY AtAppend
<1>3. old \in [1..n -> 0..3] /\ new \in [1..n -> 0..3]
  <2>1. Len(s) - n + 1 \in Int /\ Len(s) + 1 - n + 1 \in Int /\ n \in Nat
    BY <1>1
  <2> QED
    BY <1>2, <2>1, SliceAppend, Zenon
<1>4. old \in Seq(0..3) /\ Len(old) = n /\ new \in Seq(0..3) /\ Len(new) = n
  <2> HIDE DEF old, new
  <2> QED
    BY <1>3, WordIsSeq
<1>5. /\ \A k \in 1..n : old[k] = Abstract!At(s, L - n + 1 + k - 1)
      /\ \A k \in 1..n : new[k] = Abstract!At(Append(s, d), L + 1 - n + 1 + k - 1)
  BY <1>1 DEF Abstract!Slice
<1> HIDE DEF old, new
<1>6. /\ Tail(old) \in Seq(0..3) /\ Len(Tail(old)) = n - 1
      /\ \A k \in 1..(n - 1) : Tail(old)[k] = old[k + 1]
  <2>1. old # <<>>
    BY <1>4, EmptySeq
  <2> QED
    BY <1>4, <2>1, HeadTailProperties
<1> DEFINE t == Append(Tail(old), d)
<1>7. /\ t \in Seq(0..3) /\ Len(t) = n /\ t[n] = d
      /\ \A k \in 1..(n - 1) : t[k] = old[k + 1]
  <2>1. PICK u \in Seq(0..3) : u = Tail(old)
    BY <1>6
  <2>2. /\ Append(u, d) \in Seq(0..3) /\ Len(Append(u, d)) = Len(u) + 1
        /\ \A j \in 1..Len(u) : Append(u, d)[j] = u[j]
        /\ Append(u, d)[Len(u) + 1] = d
    BY AppendProperties
  <2> QED
    BY <1>6, <2>1, <2>2
<1> HIDE DEF t
<1>8. ASSUME NEW k \in 1..n PROVE t[k] = new[k]
  <2>1. PICK i \in Int : i = L - n + 1 + k
    OBVIOUS
  <2>2. new[k] = Abstract!At(Append(s, d), i)
    <3>1. L + 1 - n + 1 + k - 1 = i
      BY <2>1
    <3> QED
      BY <1>5, <3>1
  <2>3. CASE k = n
    <3>1. i = Len(s) + 1
      BY <1>1, <2>1, <2>3
    <3> QED
      BY <1>7, <2>2, <2>3, <3>1, AtAppend
  <2>4. CASE k # n
    <3>1. k \in 1..(n - 1) /\ k + 1 \in 1..n /\ i <= Len(s) /\ L - n + 1 + (k + 1) - 1 = i
      BY <1>1, <2>1, <2>4
    <3>2. t[k] = Abstract!At(s, i)
      BY <1>5, <1>7, <3>1
    <3> QED
      BY <2>2, <3>1, <3>2, AtAppend
  <2> QED
    BY <2>3, <2>4
<1>9. t = new
  <2>1. Len(t) = Len(new)
    BY <1>4, <1>7
  <2>2. \A k \in 1..Len(t) : t[k] = new[k]
    BY <1>7, <1>8
  <2> QED
    BY <1>4, <1>7, <2>1, <2>2, SeqEqual
<1> QED
  BY <1>9 DEF t, old, new

-----------------------------------------------------------------------------
(* The invariant. *)

(* The shift register and the history buffer hold the last dibits. *)
Window(stream, h) ==
  \A i \in (Len(stream) - HistLen + 1)..Len(stream) :
    h[(i - 1) % HistLen] = Abstract!At(stream, i)

Holds(stream, reg, h, head) ==
  /\ head = Len(stream) % HistLen
  /\ reg = Abstract!Slice(stream, Len(stream) - SyncLen + 1, SyncLen)
  /\ Window(stream, h)

LastDibits == Holds(air, sync_reg, hist, hist_head)

(* Storing a dibit at the head of the circular history keeps the last      *)
(* HistLen dibits in it, at the place the number of each gives it.         *)
LEMMA HistoryShift ==
  ASSUME NEW L \in Nat, NEW s \in Seq(0..3), Len(s) = L, NEW d \in 0..3,
         NEW h \in [0..(HistLen - 1) -> 0..3], Window(s, h),
         NEW g, g = [h EXCEPT ![L % HistLen] = d]
  PROVE  g \in [0..(HistLen - 1) -> 0..3] /\ Window(Append(s, d), g)
<1>0. HistLen \in Nat \ {0} /\ L \in Int
  BY BurstBounds
<1>1. L % HistLen \in 0..(HistLen - 1)
  BY <1>0, DivMod, Zenon
<1>2. /\ g \in [0..(HistLen - 1) -> 0..3] /\ g[L % HistLen] = d
      /\ \A j \in 0..(HistLen - 1) : j # L % HistLen => g[j] = h[j]
  <2>1. PICK x \in 0..(HistLen - 1) : x = L % HistLen
    BY <1>1
  <2>2. g = [h EXCEPT ![x] = d]
    BY <2>1
  <2> QED
    BY <2>1, <2>2
<1>3. ASSUME NEW i \in (L + 1 - HistLen + 1)..(L + 1)
      PROVE  g[(i - 1) % HistLen] = Abstract!At(Append(s, d), i)
  <2>1. i \in Int /\ i - 1 \in Int
    BY <1>0
  <2>2. CASE i = L + 1
    <3>1. i - 1 = L /\ i = Len(s) + 1
      BY <2>2
    <3>2. Abstract!At(Append(s, d), i) = d
      BY <2>1, <3>1, AtAppend
    <3> QED
      BY <1>2, <3>1, <3>2
  <2>3. CASE i # L + 1
    <3>1. i \in (L - HistLen + 1)..L /\ i <= Len(s)
      BY <1>0, <2>3
    <3>0. h[(i - 1) % HistLen] = Abstract!At(s, i)
      BY <3>1 DEF Window
    <3>2. (i - 1) % HistLen # L % HistLen
      <4>1. i - 1 # L /\ i - 1 < L + HistLen /\ L < (i - 1) + HistLen
        BY <1>0, <2>3
      <4> QED
        BY <1>0, <2>1, <4>1, ModInjective, Zenon
    <3>3. (i - 1) % HistLen \in 0..(HistLen - 1)
      BY <1>0, <2>1, DivMod, Zenon
    <3>4. g[(i - 1) % HistLen] = h[(i - 1) % HistLen]
      BY <1>2, <3>2, <3>3
    <3>5. Abstract!At(Append(s, d), i) = Abstract!At(s, i)
      BY <2>1, <3>1, AtAppend
    <3> QED
      BY <3>0, <3>4, <3>5
  <2> QED
    BY <2>2, <2>3
<1>4. Len(Append(s, d)) = L + 1
  BY AtAppend
<1> QED
  BY <1>0, <1>2, <1>3, <1>4 DEF Window

(* The beginning of push_dibit(): the shift register and the history take  *)
(* the dibit in.                                                           *)
LEMMA ShiftHolds ==
  ASSUME SyncTypeOK, LastDibits, NEW d \in Dibits, Shift(d)
  PROVE  /\ air' = Append(air, d) /\ air' \in Seq(0..3) /\ Len(air') = Len(air) + 1
         /\ sync_reg' \in Words
         /\ sync_reg' = Abstract!Slice(air', Len(air') - SyncLen + 1, SyncLen)
         /\ hist' \in [0..(HistLen - 1) -> 0..3]
         /\ hist_head' \in 0..(HistLen - 1)
         /\ LastDibits'
<1>0. /\ HistLen \in Nat \ {0} /\ SyncLen \in Nat \ {0} /\ d \in 0..3
      /\ air \in Seq(0..3) /\ hist \in [0..(HistLen - 1) -> 0..3]
  BY BurstBounds DEF SyncTypeOK
<1>1. PICK L \in Nat : L = Len(air)
  BY <1>0, LenProperties
<1>2. /\ air' = Append(air, d) /\ air' \in Seq(0..3) /\ Len(air') = L + 1
  BY <1>0, <1>1, AtAppend DEF Shift
<1>3. /\ hist_head = L % HistLen
      /\ sync_reg = Abstract!Slice(air, Len(air) - SyncLen + 1, SyncLen)
      /\ Window(air, hist)
  BY <1>1 DEF LastDibits, Holds
<1>4. /\ hist' = [hist EXCEPT ![L % HistLen] = d]
      /\ hist_head' = ((L % HistLen) + 1) % HistLen
      /\ sync_reg' = Append(Tail(sync_reg), d)
  BY <1>3 DEF Shift
<1>5. hist' \in [0..(HistLen - 1) -> 0..3] /\ Window(air', hist')
  <2>1. Len(air) = L
    BY <1>1
  <2>2. hist' \in [0..(HistLen - 1) -> 0..3] /\ Window(Append(air, d), hist')
    BY <1>0, <2>1, <1>3, <1>4, HistoryShift
  <2> QED
    BY <1>2, <2>2
<1>6. hist_head' = (L + 1) % HistLen /\ hist_head' \in 0..(HistLen - 1)
  <2>1. L \in Int /\ L + 1 \in Int
    OBVIOUS
  <2>2. ((L % HistLen) + 1) % HistLen = (L + 1) % HistLen
    BY <1>0, <2>1, ModNext, Zenon
  <2>3. (L + 1) % HistLen \in 0..(HistLen - 1)
    BY <1>0, <2>1, DivMod, Zenon
  <2> QED
    BY <1>4, <2>2, <2>3, Zenon
<1>7. sync_reg' = Abstract!Slice(air', Len(air) + 1 - SyncLen + 1, SyncLen)
  BY <1>0, <1>2, <1>3, <1>4, SliceShift, Zenon
<1>8. sync_reg' = Abstract!Slice(air', Len(air') - SyncLen + 1, SyncLen)
  BY <1>0, <1>1, <1>2, <1>7
<1>9. sync_reg' \in Words
  <2>1. Len(air') - SyncLen + 1 \in Int /\ SyncLen \in Nat
    BY <1>0, <1>2
  <2> QED
    BY <1>0, <1>2, <1>8, <2>1, SliceAppend, Zenon DEF Words
<1>10. LastDibits'
  <2>1. Holds(air', sync_reg', hist', hist_head')
    BY <1>2, <1>5, <1>6, <1>8, Zenon DEF Holds
  <2> QED
    BY <2>1 DEF LastDibits
<1> QED
  BY <1>1, <1>2, <1>5, <1>6, <1>8, <1>9, <1>10

(* The first half is what came before the sync word: the history buffer is *)
(* long enough, and counted back from its head at the right place.         *)
LEMMA FirstHalf ==
  ASSUME NEW s \in Seq(0..3), NEW reg, NEW h, NEW head, Holds(s, reg, h, head)
  PROVE  /\ extract_first_half(h, head) \in [1..Half -> 0..3]
         /\ \A j \in 1..Half :
              extract_first_half(h, head)[j]
                = Abstract!At(s, Len(s) - SyncLen - Half + j)
<1>0. HistLen \in Nat \ {0} /\ SyncLen \in Nat \ {0} /\ Half \in Nat \ {0}
      /\ HistLen >= SyncLen + Half
  BY BurstBounds
<1>1. PICK L \in Nat : L = Len(s)
  BY LenProperties
<1>2. PICK K \in Nat : K = SyncLen + Half
  BY <1>0
<1>3. /\ head = L % HistLen
      /\ \A i \in (L - HistLen + 1)..L : h[(i - 1) % HistLen] = Abstract!At(s, i)
  BY <1>1 DEF Holds, Window
<1>4. L \in Int /\ K \in Int /\ L - K \in Int
  OBVIOUS
<1>5. (head - (SyncLen + Half) + 2 * HistLen) % HistLen = (L - K) % HistLen
  BY <1>0, <1>2, <1>3, <1>4, ModBack, Zenon
<1>6. extract_first_half(h, head)
        = [i \in 1..Half |-> h[(((L - K) % HistLen) + i - 1) % HistLen]]
  BY <1>5, Zenon DEF extract_first_half
<1>7. ASSUME NEW j \in 1..Half
      PROVE  h[(((L - K) % HistLen) + j - 1) % HistLen]
               = Abstract!At(s, L - SyncLen - Half + j)
  <2>1. PICK a \in Int : a = j - 1
    OBVIOUS
  <2>2. ((L - K) % HistLen) + j - 1 = ((L - K) % HistLen) + a
    <3>1. (L - K) % HistLen \in Int
      <4>1. (L - K) % HistLen \in 0..(HistLen - 1)
        BY <1>0, <1>4, DivMod, Zenon
      <4> QED
        BY <4>1, <1>0
    <3>2. PICK m \in Int : m = (L - K) % HistLen
      BY <3>1
    <3> QED
      BY <2>1, <3>2
  <2>3. (((L - K) % HistLen) + a) % HistLen = (L - K + a) % HistLen
    BY <1>0, <1>4, <2>1, ModPlus, Zenon
  <2>4. PICK i \in Int : i = L - SyncLen - Half + j
    BY <1>0
  <2>5. L - K + a = i - 1 /\ i \in (L - HistLen + 1)..L
    BY <1>0, <1>2, <2>1, <2>4
  <2>6. h[(i - 1) % HistLen] = Abstract!At(s, i)
    BY <1>3, <2>5
  <2> QED
    BY <2>2, <2>3, <2>4, <2>5, <2>6, Zenon
<1>8. ASSUME NEW j \in 1..Half
      PROVE  Abstract!At(s, L - SyncLen - Half + j) \in 0..3
  <2>1. PICK i \in Int : i = L - SyncLen - Half + j
    BY <1>0
  <2> QED
    BY <2>1, AtAppend
<1> QED
  BY <1>1, <1>6, <1>7, <1>8

-----------------------------------------------------------------------------
(* Where the sync word of the burst in progress ended. *)
MatchAt == Len(air) - collect_idx

(* The burst in progress is a slice of the stream as far as it goes. *)
Collecting ==
  state = "COLLECTING" =>
    /\ collect_idx < Half + Guard /\ MatchAt \in 1..Len(air)
    /\ Len(matchedAt) > 0 /\ matchedAt[Len(matchedAt)] = MatchAt
    /\ current.type = Abstract!TypeOf(WordAt(MatchAt)) /\ current.type \in SyncTypes
    /\ current.timeslot = (IF Len(matchedAt) % 2 = 1 THEN 1 ELSE 2)
    /\ current.sync_bits = WordAt(MatchAt)
    /\ \A j \in 1..Half :
         current.dibits[j] = Abstract!At(air, MatchAt - SyncLen - Half + j)
    /\ \A j \in 1..Half :
         j <= collect_idx => current.dibits[Half + j] = Abstract!At(air, MatchAt + j)

(* Every match has become a burst, the slice of the stream around it, or   *)
(* is the burst in progress.                                               *)
Counted ==
  /\ ts_toggle = Len(matchedAt) /\ sync_matches = Len(matchedAt)
  /\ burst_count = Len(emitted)
  /\ Len(matchedAt) = Len(emitted) + (IF state = "COLLECTING" THEN 1 ELSE 0)
  /\ \A n \in 1..Len(emitted) :
       /\ matchedAt[n] + Half <= Len(air)
       /\ emitted[n].type \in SyncTypes
       /\ emitted[n] = Abstract!BurstAt(air, matchedAt[n], n)

SyncIInv == SyncTypeOK /\ LastDibits /\ Collecting /\ Counted

(* A BurstSync just constructed satisfies the invariant. *)
LEMMA SyncInitIInv ==
  ASSUME SyncInit
  PROVE  SyncIInv
<1>0. /\ HistLen \in Nat \ {0} /\ SyncLen \in Nat \ {0} /\ Half \in Nat \ {0}
      /\ Guard \in Nat \ {0}
  BY BurstBounds
<1>1. Zeroes(SyncLen) \in Words /\ Zeroes(2 * Half) \in [1..(2 * Half) -> 0..3]
  BY DEF Zeroes, Words
<1>2. NoBurst \in BurstSet
  BY <1>1, Zenon DEF NoBurst, BurstSet
<1>3. air = <<>> /\ air \in Seq(0..3) /\ Len(air) = 0
  BY DEF SyncInit
<1>4. SyncTypeOK
  <2>1. hist \in [0..(HistLen - 1) -> 0..3] /\ hist_head \in 0..(HistLen - 1)
        /\ collect_idx \in 0..(Half + Guard)
    BY <1>0 DEF SyncInit
  <2>2. matchedAt \in Seq(Nat) /\ emitted \in Seq(BurstSet)
    BY DEF SyncInit
  <2> QED
    BY <1>1, <1>2, <1>3, <2>1, <2>2 DEF SyncInit, SyncTypeOK
<1>5. ASSUME NEW i \in Int PROVE Abstract!At(air, i) = 0
  BY <1>3 DEF Abstract!At
<1>6. LastDibits
  <2>1. hist_head = Len(air) % HistLen
    <3>1. 0 \in 0..(HistLen - 1)
      BY <1>0
    <3>2. 0 % HistLen = 0
      BY <1>0, <3>1, ModSmall, Zenon
    <3> QED
      BY <1>3, <3>2 DEF SyncInit
  <2>2. sync_reg = Abstract!Slice(air, Len(air) - SyncLen + 1, SyncLen)
    <3>1. ASSUME NEW k \in 1..SyncLen
          PROVE  Abstract!At(air, Len(air) - SyncLen + 1 + k - 1) = 0
      BY <1>0, <1>3, <1>5
    <3> QED
      BY <3>1 DEF SyncInit, Zeroes, Abstract!Slice
  <2>3. ASSUME NEW i \in (Len(air) - HistLen + 1)..Len(air)
        PROVE  hist[(i - 1) % HistLen] = Abstract!At(air, i)
    <3>1. i \in Int /\ i - 1 \in Int
      BY <1>0, <1>3
    <3>2. (i - 1) % HistLen \in 0..(HistLen - 1)
      BY <1>0, <3>1, DivMod, Zenon
    <3> QED
      BY <1>5, <3>1, <3>2 DEF SyncInit
  <2> QED
    BY <2>1, <2>2, <2>3 DEF LastDibits, Holds, Window
<1>7. Collecting /\ Counted
  BY <1>3 DEF SyncInit, Collecting, Counted
<1> QED
  BY <1>4, <1>6, <1>7 DEF SyncIInv

-----------------------------------------------------------------------------
(* What a dibit adds. *)

(* A complete burst is a slice of what has been received. *)
LEMMA BurstAppend ==
  ASSUME NEW s \in Seq(0..3), NEW d \in 0..3, NEW n, NEW m \in Int,
         m + Half <= Len(s)
  PROVE  Abstract!BurstAt(Append(s, d), m, n) = Abstract!BurstAt(s, m, n)
<1>0. SyncLen \in Nat \ {0} /\ Half \in Nat \ {0}
  BY BurstBounds
<1>1. PICK a \in Int, b \in Int, c \in Int :
        a = m - SyncLen + 1 /\ b = m - SyncLen - Half + 1 /\ c = m + 1
  BY <1>0
<1>2. a + SyncLen - 1 <= Len(s) /\ b + Half - 1 <= Len(s) /\ c + Half - 1 <= Len(s)
  BY <1>0, <1>1, LenProperties
<1>3. /\ Abstract!Slice(Append(s, d), a, SyncLen) = Abstract!Slice(s, a, SyncLen)
      /\ Abstract!Slice(Append(s, d), b, Half) = Abstract!Slice(s, b, Half)
      /\ Abstract!Slice(Append(s, d), c, Half) = Abstract!Slice(s, c, Half)
  <2>1. SyncLen \in Nat /\ Half \in Nat
    BY <1>0
  <2> QED
    BY <1>2, <2>1, SliceAppend
<1> QED
  BY <1>1, <1>3, Zenon DEF Abstract!BurstAt

(* So is the word a burst in progress starts from. *)
LEMMA WordAppend ==
  ASSUME NEW s \in Seq(0..3), NEW d \in 0..3, NEW i \in Int, i <= Len(s)
  PROVE  Abstract!Slice(Append(s, d), i - SyncLen + 1, SyncLen)
           = Abstract!Slice(s, i - SyncLen + 1, SyncLen)
<1>1. SyncLen \in Nat
  BY BurstBounds
<1>2. PICK a \in Int : a = i - SyncLen + 1
  BY <1>1
<1>3. a + SyncLen - 1 <= Len(s)
  BY <1>1, <1>2, LenProperties
<1> QED
  BY <1>1, <1>2, <1>3, SliceAppend

(* The fields of a burst determine it. *)
LEMMA BurstIs ==
  ASSUME NEW b \in BurstSet, NEW s \in Seq(0..3), NEW m \in Int, NEW n,
         b.type = Abstract!TypeOf(Abstract!Slice(s, m - SyncLen + 1, SyncLen)),
         b.timeslot = (IF n % 2 = 1 THEN 1 ELSE 2),
         b.sync_bits = Abstract!Slice(s, m - SyncLen + 1, SyncLen),
         \A j \in 1..Half :
           /\ b.dibits[j] = Abstract!At(s, m - SyncLen - Half + j)
           /\ b.dibits[Half + j] = Abstract!At(s, m + j)
  PROVE  b = Abstract!BurstAt(s, m, n)
<1>0. SyncLen \in Nat \ {0} /\ Half \in Nat \ {0}
  BY BurstBounds
<1> DEFINE u == Abstract!Slice(s, m - SyncLen - Half + 1, Half)
           v == Abstract!Slice(s, m + 1, Half)
<1>1. /\ b.dibits \in [1..(2 * Half) -> 0..3]
      /\ b = [type |-> b.type, timeslot |-> b.timeslot, sync_bits |-> b.sync_bits,
              dibits |-> b.dibits]
  BY DEF BurstSet
<1>2. u \in [1..Half -> 0..3] /\ v \in [1..Half -> 0..3]
  <2>1. /\ m - SyncLen - Half + 1 \in Int /\ m + 1 \in Int /\ Half \in Nat
        /\ 0 \in 0..3
    BY <1>0
  <2> QED
    BY <2>1, SliceAppend, Zenon
<1>3. /\ \A j \in 1..Half : u[j] = Abstract!At(s, m - SyncLen - Half + j)
      /\ \A j \in 1..Half : v[j] = Abstract!At(s, m + j)
  <2>1. ASSUME NEW j \in 1..Half
        PROVE  /\ m - SyncLen - Half + 1 + j - 1 = m - SyncLen - Half + j
               /\ m + 1 + j - 1 = m + j
    BY <1>0
  <2> QED
    BY <2>1 DEF Abstract!Slice
<1> HIDE DEF u, v
<1>4. PICK w : w = b.dibits
  OBVIOUS
<1>5. w = u \o v
  <2>1. /\ u \in Seq(0..3) /\ Len(u) = Half /\ v \in Seq(0..3) /\ Len(v) = Half
    BY <1>0, <1>2, WordIsSeq
  <2>2. /\ u \o v \in Seq(0..3) /\ Len(u \o v) = Len(u) + Len(v)
        /\ \A j \in 1..(Len(u) + Len(v)) :
             (u \o v)[j] = IF j <= Len(u) THEN u[j] ELSE v[j - Len(u)]
    BY <2>1, ConcatProperties
  <2>3. w \in Seq(0..3) /\ Len(w) = 2 * Half
    BY <1>0, <1>1, <1>4, WordIsSeq
  <2>4. ASSUME NEW j \in 1..Len(w) PROVE w[j] = (u \o v)[j]
    <3>1. CASE j <= Half
      <4>1. j \in 1..Half /\ j \in 1..(Len(u) + Len(v))
        BY <1>0, <2>1, <2>3, <3>1
      <4> QED
        BY <1>3, <1>4, <2>1, <2>2, <3>1, <4>1
    <3>2. CASE ~(j <= Half)
      <4>1. PICK k \in 1..Half : j = Half + k
        <5>1. j - Half \in 1..Half /\ j = Half + (j - Half)
          BY <1>0, <2>3, <3>2
        <5> QED
          BY <5>1
      <4>2. j \in 1..(Len(u) + Len(v)) /\ j - Len(u) = k
        BY <1>0, <2>1, <2>3, <4>1
      <4>3. (u \o v)[j] = v[k]
        BY <2>1, <2>2, <3>2, <4>2
      <4> QED
        BY <1>3, <1>4, <4>1, <4>3
    <3> QED
      BY <3>1, <3>2
  <2>5. Len(w) = Len(u \o v)
    BY <1>0, <2>1, <2>2, <2>3
  <2> QED
    BY <2>2, <2>3, <2>4, <2>5, SeqEqual
<1> QED
  BY <1>1, <1>4, <1>5 DEF Abstract!BurstAt, u, v

(* A dibit of the second half changes its own place in the burst only. *)
LEMMA WithDibitHolds ==
  ASSUME NEW b \in BurstSet, NEW d \in 0..3, collect_idx \in Nat
  PROVE  /\ WithDibit(b, d) \in BurstSet
         /\ WithDibit(b, d).type = b.type /\ WithDibit(b, d).timeslot = b.timeslot
         /\ WithDibit(b, d).sync_bits = b.sync_bits
         /\ \A j \in 1..(2 * Half) :
              WithDibit(b, d).dibits[j]
                = IF collect_idx < Half /\ j = Half + collect_idx + 1
                  THEN d ELSE b.dibits[j]
<1>0. Half \in Nat \ {0}
  BY BurstBounds
<1>1. CASE collect_idx < Half
  <2>1. PICK k \in 1..(2 * Half) : k = Half + collect_idx + 1
    BY <1>0, <1>1
  <2>2. PICK f \in [1..(2 * Half) -> 0..3] : f = b.dibits
    BY DEF BurstSet
  <2>3. PICK g : g = [f EXCEPT ![k] = d]
    OBVIOUS
  <2>4. /\ g \in [1..(2 * Half) -> 0..3]
        /\ \A j \in 1..(2 * Half) : g[j] = IF j = k THEN d ELSE f[j]
    BY <2>2, <2>3
  <2>5. WithDibit(b, d) = [b EXCEPT !.dibits = g]
    BY <1>1, <2>1, <2>2, <2>3 DEF WithDibit
  <2>6. /\ WithDibit(b, d) \in BurstSet
        /\ WithDibit(b, d).type = b.type /\ WithDibit(b, d).timeslot = b.timeslot
        /\ WithDibit(b, d).sync_bits = b.sync_bits /\ WithDibit(b, d).dibits = g
    BY <2>4, <2>5 DEF BurstSet
  <2> QED
    BY <1>1, <2>1, <2>2, <2>4, <2>6
<1>2. CASE ~(collect_idx < Half)
  BY <1>2 DEF WithDibit
<1> QED
  BY <1>1, <1>2

(* The bursts completed before stay what they are. *)
LEMMA EmittedKept ==
  ASSUME SyncTypeOK, Counted, NEW d \in Dibits, air' = Append(air, d),
         \A n \in 1..Len(emitted) : matchedAt'[n] = matchedAt[n]
  PROVE  \A n \in 1..Len(emitted) :
           /\ matchedAt'[n] + Half <= Len(air')
           /\ emitted[n].type \in SyncTypes
           /\ emitted[n] = Abstract!BurstAt(air', matchedAt'[n], n)
<1> SUFFICES ASSUME NEW n \in 1..Len(emitted)
             PROVE  /\ matchedAt'[n] + Half <= Len(air')
                    /\ emitted[n].type \in SyncTypes
                    /\ emitted[n] = Abstract!BurstAt(air', matchedAt'[n], n)
  OBVIOUS
<1>0. air \in Seq(0..3) /\ d \in 0..3 /\ Half \in Nat /\ Len(air) \in Nat
  BY BurstBounds, LenProperties DEF SyncTypeOK
<1>1. matchedAt[n] \in Nat
  <2>1. emitted \in Seq(BurstSet) /\ matchedAt \in Seq(Nat)
    BY DEF SyncTypeOK
  <2>2. Len(emitted) \in Nat /\ Len(matchedAt) \in Nat
    BY <2>1, LenProperties
  <2>3. n \in 1..Len(matchedAt)
    BY <2>2 DEF Counted
  <2> QED
    BY <2>1, <2>3, ElementOfSeq
<1>2. PICK m \in Nat : m = matchedAt[n]
  BY <1>1
<1>3. m + Half <= Len(air) /\ emitted[n].type \in SyncTypes
      /\ emitted[n] = Abstract!BurstAt(air, m, n)
  BY <1>2 DEF Counted
<1>4. Len(Append(air, d)) = Len(air) + 1
  BY <1>0, AtAppend
<1>5. Abstract!BurstAt(Append(air, d), m, n) = Abstract!BurstAt(air, m, n)
  BY <1>0, <1>3, BurstAppend
<1> QED
  BY <1>0, <1>2, <1>3, <1>4, <1>5

(* Another dibit for the burst in progress. *)
LEMMA CollectsOne ==
  ASSUME SyncIInv, state = "COLLECTING", NEW d \in Dibits, Shift(d),
         current' = WithDibit(current, d), collect_idx' = collect_idx + 1,
         UNCHANGED matchedAt
  PROVE  /\ MatchAt' = MatchAt /\ MatchAt \in 1..Len(air)
         /\ matchedAt[Len(matchedAt)] = MatchAt
         /\ collect_idx \in Nat /\ collect_idx < Half + Guard
         /\ current' \in BurstSet /\ current'.type \in SyncTypes
         /\ current'.type
               = Abstract!TypeOf(Abstract!Slice(air', MatchAt - SyncLen + 1, SyncLen))
         /\ current'.timeslot = (IF Len(matchedAt) % 2 = 1 THEN 1 ELSE 2)
         /\ current'.sync_bits = Abstract!Slice(air', MatchAt - SyncLen + 1, SyncLen)
         /\ \A j \in 1..Half :
              current'.dibits[j] = Abstract!At(air', MatchAt - SyncLen - Half + j)
         /\ \A j \in 1..Half :
              j <= collect_idx'
                => current'.dibits[Half + j] = Abstract!At(air', MatchAt + j)
<1>0. /\ SyncLen \in Nat \ {0} /\ Half \in Nat \ {0} /\ Guard \in Nat \ {0} /\ d \in 0..3
      /\ air \in Seq(0..3) /\ current \in BurstSet /\ collect_idx \in Nat
      /\ SyncTypeOK /\ LastDibits /\ Collecting
  BY BurstBounds DEF SyncIInv, SyncTypeOK
<1>1. PICK L \in Nat : L = Len(air)
  BY <1>0, LenProperties
<1>2. PICK c \in Nat : c = collect_idx
  BY <1>0
<1>3. air' = Append(air, d) /\ Len(air') = L + 1
  BY <1>0, <1>1, ShiftHolds
<1>4. PICK m \in 1..L : m = MatchAt
  BY <1>0, <1>1 DEF Collecting
<1>5. m = L - c /\ MatchAt' = m
  BY <1>1, <1>2, <1>3, <1>4 DEF MatchAt
<1>6. /\ c < Half + Guard /\ matchedAt[Len(matchedAt)] = m
      /\ current.type = Abstract!TypeOf(Abstract!Slice(air, m - SyncLen + 1, SyncLen))
      /\ current.type \in SyncTypes
      /\ current.timeslot = (IF Len(matchedAt) % 2 = 1 THEN 1 ELSE 2)
      /\ current.sync_bits = Abstract!Slice(air, m - SyncLen + 1, SyncLen)
      /\ \A j \in 1..Half :
           current.dibits[j] = Abstract!At(air, m - SyncLen - Half + j)
      /\ \A j \in 1..Half :
           j <= c => current.dibits[Half + j] = Abstract!At(air, m + j)
  BY <1>0, <1>2, <1>4 DEF Collecting, WordAt
<1>7. /\ current' \in BurstSet
      /\ current'.type = current.type /\ current'.timeslot = current.timeslot
      /\ current'.sync_bits = current.sync_bits
      /\ \A j \in 1..(2 * Half) :
           current'.dibits[j] = IF c < Half /\ j = Half + c + 1
                                THEN d ELSE current.dibits[j]
  BY <1>0, <1>2, WithDibitHolds
<1>8. Abstract!Slice(air', m - SyncLen + 1, SyncLen)
        = Abstract!Slice(air, m - SyncLen + 1, SyncLen)
  <2>1. m \in Int /\ m <= Len(air)
    BY <1>1
  <2> QED
    BY <1>0, <1>3, <2>1, WordAppend
<1>9. ASSUME NEW j \in 1..Half
      PROVE  current'.dibits[j] = Abstract!At(air', m - SyncLen - Half + j)
  <2>1. PICK i \in Int : i = m - SyncLen - Half + j
    BY <1>0
  <2>2. i <= Len(air) /\ j \in 1..(2 * Half) /\ j # Half + c + 1
    BY <1>0, <1>1, <2>1
  <2>3. current'.dibits[j] = Abstract!At(air, i)
    BY <1>6, <1>7, <2>1, <2>2
  <2>4. Abstract!At(Append(air, d), i) = Abstract!At(air, i)
    BY <1>0, <2>2, AtAppend
  <2> QED
    BY <1>3, <2>1, <2>3, <2>4
<1>10. ASSUME NEW j \in 1..Half, j <= c + 1
       PROVE  current'.dibits[Half + j] = Abstract!At(air', m + j)
  <2>1. PICK i \in Int : i = m + j
    OBVIOUS
  <2>2. Half + j \in 1..(2 * Half)
    BY <1>0
  <2>3. CASE j = c + 1
    <3>1. c < Half /\ Half + j = Half + c + 1 /\ i = Len(air) + 1
      BY <1>0, <1>1, <1>5, <2>1, <2>3
    <3>2. current'.dibits[Half + j] = d
      BY <1>7, <2>2, <3>1
    <3>3. Abstract!At(Append(air, d), i) = d
      BY <1>0, <3>1, AtAppend
    <3> QED
      BY <1>3, <2>1, <3>2, <3>3
  <2>4. CASE j # c + 1
    <3>1. j <= c /\ Half + j # Half + c + 1 /\ i <= Len(air)
      BY <1>0, <1>1, <1>5, <1>10, <2>1, <2>4
    <3>2. current'.dibits[Half + j] = Abstract!At(air, i)
      BY <1>6, <1>7, <2>1, <2>2, <3>1
    <3>3. Abstract!At(Append(air, d), i) = Abstract!At(air, i)
      BY <1>0, <3>1, AtAppend
    <3> QED
      BY <1>3, <2>1, <3>2, <3>3
  <2> QED
    BY <2>3, <2>4
<1> QED
  BY <1>0, <1>1, <1>2, <1>4, <1>5, <1>6, <1>7, <1>8, <1>9, <1>10

-----------------------------------------------------------------------------
(* The operations. *)

(* push_dibit() without a match, while hunting. *)
LEMMA HuntMissStep ==
  ASSUME SyncIInv, NEW d \in Dibits, HuntMiss(d)
  PROVE  SyncIInv'
<1>0. SyncTypeOK /\ LastDibits /\ Counted /\ Shift(d)
  BY DEF SyncIInv, HuntMiss
<1>1. /\ state = "HUNTING" /\ state' = state /\ collect_idx' = collect_idx
      /\ current' = current /\ ts_toggle' = ts_toggle /\ burst_count' = burst_count
      /\ sync_matches' = sync_matches /\ matchedAt' = matchedAt /\ emitted' = emitted
  BY DEF HuntMiss
<1>2. /\ air' = Append(air, d) /\ air' \in Seq(0..3) /\ sync_reg' \in Words
      /\ hist' \in [0..(HistLen - 1) -> 0..3]
      /\ hist_head' \in 0..(HistLen - 1) /\ LastDibits'
  BY <1>0, ShiftHolds
<1>3. SyncTypeOK'
  BY <1>0, <1>1, <1>2 DEF SyncTypeOK
<1>4. Collecting'
  BY <1>1 DEF Collecting
<1>5. Counted'
  <2>1. \A n \in 1..Len(emitted) :
           /\ matchedAt'[n] + Half <= Len(air')
           /\ emitted[n].type \in SyncTypes
           /\ emitted[n] = Abstract!BurstAt(air', matchedAt'[n], n)
    BY <1>0, <1>1, <1>2, EmittedKept
  <2> QED
    BY <1>0, <1>1, <2>1 DEF Counted
<1> QED
  BY <1>2, <1>3, <1>4, <1>5 DEF SyncIInv

(* push_dibit() with a match: the first half is read back out of the       *)
(* history.                                                                *)
LEMMA HuntMatchStep ==
  ASSUME SyncIInv, NEW d \in Dibits, HuntMatch(d)
  PROVE  SyncIInv'
<1>0. /\ SyncTypeOK /\ LastDibits /\ Counted /\ Shift(d)
      /\ SyncLen \in Nat \ {0} /\ Half \in Nat \ {0} /\ Guard \in Nat \ {0}
  BY BurstBounds DEF SyncIInv, HuntMatch
<1>1. /\ state = "HUNTING" /\ state' = "COLLECTING" /\ collect_idx' = 0
      /\ match_sync(sync_reg') # "UNKNOWN"
      /\ current' = [type      |-> match_sync(sync_reg'),
                     timeslot  |-> IF ts_toggle % 2 = 1 THEN 2 ELSE 1,
                     sync_bits |-> sync_reg',
                     dibits    |-> extract_first_half(hist', hist_head') \o Zeroes(Half)]
      /\ ts_toggle' = ts_toggle + 1 /\ sync_matches' = sync_matches + 1
      /\ matchedAt' = Append(matchedAt, Len(air'))
      /\ burst_count' = burst_count /\ emitted' = emitted
  BY DEF HuntMatch
<1>2. /\ air' = Append(air, d) /\ air' \in Seq(0..3) /\ Len(air') = Len(air) + 1
      /\ sync_reg' \in Words
      /\ sync_reg' = Abstract!Slice(air', Len(air') - SyncLen + 1, SyncLen)
      /\ hist' \in [0..(HistLen - 1) -> 0..3]
      /\ hist_head' \in 0..(HistLen - 1) /\ LastDibits'
  BY <1>0, ShiftHolds
<1>3. PICK L \in Nat \ {0} : L = Len(air')
  <2>1. Len(air) \in Nat
    BY <1>0, LenProperties DEF SyncTypeOK
  <2> QED
    BY <1>2, <2>1
<1>4. /\ emitted \in Seq(BurstSet) /\ matchedAt \in Seq(Nat) /\ ts_toggle \in Nat
      /\ burst_count \in Nat /\ sync_matches \in Nat
      /\ ts_toggle = Len(matchedAt) /\ sync_matches = Len(matchedAt)
      /\ burst_count = Len(emitted) /\ Len(matchedAt) = Len(emitted)
  BY <1>0, <1>1 DEF SyncTypeOK, Counted
<1>5. /\ matchedAt' \in Seq(Nat) /\ Len(matchedAt') = Len(matchedAt) + 1
      /\ \A n \in 1..Len(matchedAt) : matchedAt'[n] = matchedAt[n]
      /\ matchedAt'[Len(matchedAt) + 1] = L
  <2>1. Len(air') \in Nat
    BY <1>3
  <2> QED
    BY <1>1, <1>3, <1>4, <2>1, AppendProperties
<1> DEFINE first == extract_first_half(hist', hist_head')
           both  == first \o Zeroes(Half)
<1>6. /\ first \in [1..Half -> 0..3]
      /\ \A j \in 1..Half : first[j] = Abstract!At(air', L - SyncLen - Half + j)
  <2>1. Holds(air', sync_reg', hist', hist_head')
    BY <1>2 DEF LastDibits
  <2>2. /\ first \in [1..Half -> 0..3]
        /\ \A j \in 1..Half :
              first[j] = Abstract!At(air', Len(air') - SyncLen - Half + j)
    <3>0. PICK s \in Seq(0..3) : s = air'
      BY <1>2
    <3>1. PICK reg, h, head :
            s = air' /\ reg = sync_reg' /\ h = hist' /\ head = hist_head'
      BY <3>0
    <3>2. Holds(s, reg, h, head)
      BY <2>1, <3>1
    <3>3. /\ extract_first_half(h, head) \in [1..Half -> 0..3]
          /\ \A j \in 1..Half : extract_first_half(h, head)[j]
                                  = Abstract!At(s, Len(s) - SyncLen - Half + j)
      BY <3>2, FirstHalf
    <3> QED
      BY <3>1, <3>3
  <2> HIDE DEF first
  <2> QED
    BY <1>3, <2>2
<1> HIDE DEF first
<1>7. /\ both \in [1..(2 * Half) -> 0..3]
      /\ \A j \in 1..Half : both[j] = Abstract!At(air', L - SyncLen - Half + j)
  <2>0. Zeroes(Half) \in [1..Half -> 0..3]
    BY DEF Zeroes
  <2>1. PICK z \in [1..Half -> 0..3] : z = Zeroes(Half)
    BY <2>0
  <2>2. Half \in Nat
    BY <1>0
  <2>3. /\ first \in Seq(0..3) /\ Len(first) = Half /\ z \in Seq(0..3) /\ Len(z) = Half
    BY <1>6, <2>1, <2>2, WordIsSeq
  <2>4. /\ first \o z \in Seq(0..3) /\ Len(first \o z) = Len(first) + Len(z)
        /\ \A j \in 1..(Len(first) + Len(z)) :
             (first \o z)[j] = IF j <= Len(first) THEN first[j] ELSE z[j - Len(first)]
    BY <2>3, ConcatProperties
  <2>5. PICK b \in Seq(0..3) : b = both /\ b = first \o z
    BY <2>1, <2>4
  <2>6. Len(b) = 2 * Half /\ \A j \in 1..Half : b[j] = first[j]
    BY <2>2, <2>3, <2>4, <2>5
  <2>7. b \in [1..Len(b) -> 0..3]
    BY LenProperties
  <2> QED
    BY <1>6, <2>5, <2>6, <2>7
<1> HIDE DEF both
<1>8. /\ current'.type = match_sync(sync_reg') /\ current'.sync_bits = sync_reg'
      /\ current'.timeslot = IF ts_toggle % 2 = 1 THEN 2 ELSE 1
      /\ current'.dibits = both /\ match_sync(sync_reg') \in SyncTypes
      /\ current' \in BurstSet
  <2>1. match_sync(sync_reg') \in SyncTypes
    BY <1>1, MatchType
  <2>2. current' = [type      |-> match_sync(sync_reg'),
                    timeslot  |-> IF ts_toggle % 2 = 1 THEN 2 ELSE 1,
                    sync_bits |-> sync_reg',
                    dibits    |-> both]
    BY <1>1 DEF both, first
  <2> QED
    BY <1>2, <1>7, <2>1, <2>2 DEF BurstSet, SyncTypes
<1>9. SyncTypeOK'
  BY <1>0, <1>1, <1>2, <1>4, <1>5, <1>8, SMTT(30) DEF SyncTypeOK
<1>10. Collecting'
  <2>1. MatchAt' = L
    BY <1>1, <1>3 DEF MatchAt
  <2>2. current'.type = Abstract!TypeOf(Abstract!Slice(air', L - SyncLen + 1, SyncLen))
    BY <1>2, <1>3, <1>8, SameMatch
  <2>3. current'.timeslot = (IF Len(matchedAt') % 2 = 1 THEN 1 ELSE 2)
    <3>1. PICK t \in Nat : t = ts_toggle /\ Len(matchedAt') = t + 1
      BY <1>4, <1>5
    <3>2. t % 2 = 1 <=> (t + 1) % 2 # 1
      OBVIOUS
    <3> QED
      BY <1>8, <3>1, <3>2
  <2>4. collect_idx' < Half + Guard /\ L \in 1..Len(air')
        /\ Len(matchedAt') > 0 /\ matchedAt'[Len(matchedAt')] = L
    BY <1>0, <1>1, <1>3, <1>4, <1>5
  <2>5. current'.sync_bits = Abstract!Slice(air', L - SyncLen + 1, SyncLen)
    BY <1>2, <1>3, <1>8
  <2>6. /\ \A j \in 1..Half :
             current'.dibits[j] = Abstract!At(air', L - SyncLen - Half + j)
        /\ \A j \in 1..Half :
             j <= collect_idx' => current'.dibits[Half + j] = Abstract!At(air', L + j)
    <3>1. collect_idx' = 0 /\ current'.dibits = both
      BY <1>1, <1>8
    <3>2. \A j \in 1..Half : ~(j <= collect_idx')
      BY <3>1
    <3> QED
      BY <1>7, <3>1, <3>2
  <2>7. WordAt(MatchAt)' = Abstract!Slice(air', L - SyncLen + 1, SyncLen)
    BY <2>1 DEF WordAt
  <2> QED
    BY <1>8, <2>1, <2>2, <2>3, <2>4, <2>5, <2>6, <2>7 DEF Collecting
<1>11. Counted'
  <2>1. \A n \in 1..Len(emitted) :
           /\ matchedAt'[n] + Half <= Len(air')
           /\ emitted[n].type \in SyncTypes
           /\ emitted[n] = Abstract!BurstAt(air', matchedAt'[n], n)
    BY <1>0, <1>2, <1>4, <1>5, EmittedKept
  <2> QED
    BY <1>1, <1>4, <1>5, <2>1 DEF Counted
<1> QED
  BY <1>2, <1>9, <1>10, <1>11 DEF SyncIInv

(* push_dibit() while collecting. *)
LEMMA CollectStep ==
  ASSUME SyncIInv, NEW d \in Dibits, Collect(d)
  PROVE  SyncIInv'
<1>0. /\ SyncTypeOK /\ LastDibits /\ Counted /\ Collecting /\ Shift(d)
      /\ SyncLen \in Nat \ {0} /\ Half \in Nat \ {0} /\ Guard \in Nat \ {0}
  BY BurstBounds DEF SyncIInv, Collect
<1>1. /\ state = "COLLECTING" /\ state' = state /\ collect_idx' = collect_idx + 1
      /\ ~(collect_idx + 1 >= Half + Guard) /\ current' = WithDibit(current, d)
      /\ ts_toggle' = ts_toggle /\ burst_count' = burst_count
      /\ sync_matches' = sync_matches /\ matchedAt' = matchedAt /\ emitted' = emitted
  BY DEF Collect, Completed
<1>2. /\ air' = Append(air, d) /\ air' \in Seq(0..3) /\ Len(air') = Len(air) + 1
      /\ sync_reg' \in Words
      /\ hist' \in [0..(HistLen - 1) -> 0..3]
      /\ hist_head' \in 0..(HistLen - 1) /\ LastDibits'
  BY <1>0, ShiftHolds
<1>3. /\ MatchAt' = MatchAt /\ MatchAt \in 1..Len(air)
      /\ matchedAt[Len(matchedAt)] = MatchAt
      /\ collect_idx \in Nat /\ collect_idx < Half + Guard
      /\ current' \in BurstSet /\ current'.type \in SyncTypes
      /\ current'.type
            = Abstract!TypeOf(Abstract!Slice(air', MatchAt - SyncLen + 1, SyncLen))
      /\ current'.timeslot = (IF Len(matchedAt) % 2 = 1 THEN 1 ELSE 2)
      /\ current'.sync_bits = Abstract!Slice(air', MatchAt - SyncLen + 1, SyncLen)
      /\ \A j \in 1..Half :
           current'.dibits[j] = Abstract!At(air', MatchAt - SyncLen - Half + j)
      /\ \A j \in 1..Half :
           j <= collect_idx'
             => current'.dibits[Half + j] = Abstract!At(air', MatchAt + j)
  BY <1>0, <1>1, CollectsOne
<1>4. SyncTypeOK'
  <2>1. collect_idx' \in 0..(Half + Guard)
    BY <1>0, <1>1, <1>3, SMTT(30)
  <2> QED
    BY <1>0, <1>1, <1>2, <1>3, <2>1 DEF SyncTypeOK
<1>5. Collecting'
  <2>1. collect_idx' < Half + Guard /\ MatchAt' \in 1..Len(air')
        /\ Len(matchedAt') > 0 /\ matchedAt'[Len(matchedAt')] = MatchAt'
    <3>1. Len(air) \in Nat
      BY <1>0, LenProperties DEF SyncTypeOK
    <3>2. Len(matchedAt) > 0
      BY <1>0, <1>1 DEF Collecting
    <3> QED
      BY <1>0, <1>1, <1>2, <1>3, <3>1, <3>2
  <2>2. WordAt(MatchAt)' = Abstract!Slice(air', MatchAt - SyncLen + 1, SyncLen)
    BY <1>3 DEF WordAt
  <2> QED
    BY <1>1, <1>3, <2>1, <2>2 DEF Collecting
<1>6. Counted'
  <2>1. \A n \in 1..Len(emitted) :
           /\ matchedAt'[n] + Half <= Len(air')
           /\ emitted[n].type \in SyncTypes
           /\ emitted[n] = Abstract!BurstAt(air', matchedAt'[n], n)
    BY <1>0, <1>1, <1>2, EmittedKept
  <2> QED
    BY <1>0, <1>1, <2>1 DEF Counted
<1> QED
  BY <1>2, <1>4, <1>5, <1>6 DEF SyncIInv

(* The burst that the callback gets. *)
LEMMA CompleteBurst ==
  ASSUME SyncIInv, NEW d \in Dibits, Complete(d)
  PROVE  /\ current' \in BurstSet /\ current'.type \in SyncTypes
         /\ MatchAt \in 1..Len(air) /\ MatchAt + Half + Guard = Len(air')
         /\ matchedAt[Len(matchedAt)] = MatchAt /\ Len(matchedAt) = Len(emitted) + 1
         /\ current'.timeslot = (IF Len(matchedAt) % 2 = 1 THEN 1 ELSE 2)
         /\ current' = Abstract!BurstAt(air', MatchAt, Len(emitted) + 1)
<1>0. /\ SyncTypeOK /\ LastDibits /\ Counted /\ Shift(d)
      /\ SyncLen \in Nat \ {0} /\ Half \in Nat \ {0} /\ Guard \in Nat \ {0}
  BY BurstBounds DEF SyncIInv, Complete
<1>1. /\ state = "COLLECTING" /\ collect_idx' = collect_idx + 1
      /\ collect_idx + 1 >= Half + Guard /\ current' = WithDibit(current, d)
      /\ matchedAt' = matchedAt
  BY DEF Complete, Completed
<1>2. /\ air' = Append(air, d) /\ air' \in Seq(0..3) /\ Len(air') = Len(air) + 1
      /\ Len(air) \in Nat
  BY <1>0, ShiftHolds, LenProperties DEF SyncTypeOK
<1>3. /\ MatchAt \in 1..Len(air)
      /\ matchedAt[Len(matchedAt)] = MatchAt
      /\ collect_idx \in Nat /\ collect_idx < Half + Guard
      /\ current' \in BurstSet /\ current'.type \in SyncTypes
      /\ current'.type
            = Abstract!TypeOf(Abstract!Slice(air', MatchAt - SyncLen + 1, SyncLen))
      /\ current'.timeslot = (IF Len(matchedAt) % 2 = 1 THEN 1 ELSE 2)
      /\ current'.sync_bits = Abstract!Slice(air', MatchAt - SyncLen + 1, SyncLen)
      /\ \A j \in 1..Half :
           current'.dibits[j] = Abstract!At(air', MatchAt - SyncLen - Half + j)
      /\ \A j \in 1..Half :
           j <= collect_idx'
             => current'.dibits[Half + j] = Abstract!At(air', MatchAt + j)
  BY <1>0, <1>1, CollectsOne
<1>4. Len(matchedAt) = Len(emitted) + 1
  BY <1>0, <1>1 DEF Counted
<1>5. MatchAt + Half + Guard = Len(air') /\ Half <= collect_idx'
  <2>1. collect_idx + 1 = Half + Guard /\ collect_idx' = Half + Guard
    BY <1>0, <1>1, <1>3
  <2>2. MatchAt = Len(air) - collect_idx
    BY DEF MatchAt
  <2>3. Len(air') = Len(air) + 1 /\ Len(air) \in Nat /\ collect_idx \in Nat
    BY <1>2, <1>3
  <2> QED
    BY <1>0, <2>1, <2>2, <2>3
<1>6. current' = Abstract!BurstAt(air', MatchAt, Len(emitted) + 1)
  <2>1. PICK m \in Int : m = MatchAt
    BY <1>2, <1>3
  <2>2. PICK n : n = Len(emitted) + 1
    OBVIOUS
  <2>3. \A j \in 1..Half :
           /\ current'.dibits[j] = Abstract!At(air', m - SyncLen - Half + j)
           /\ current'.dibits[Half + j] = Abstract!At(air', m + j)
    <3>1. ASSUME NEW j \in 1..Half PROVE j <= collect_idx'
      <4>1. collect_idx' \in Nat
        BY <1>1, <1>3
      <4> QED
        BY <1>0, <1>5, <4>1
    <3> QED
      BY <1>3, <2>1, <3>1
  <2>4. PICK b \in BurstSet : b = current'
    BY <1>3
  <2>5. /\ b.type = Abstract!TypeOf(Abstract!Slice(air', m - SyncLen + 1, SyncLen))
        /\ b.timeslot = (IF n % 2 = 1 THEN 1 ELSE 2)
        /\ b.sync_bits = Abstract!Slice(air', m - SyncLen + 1, SyncLen)
    BY <1>3, <1>4, <2>1, <2>2, <2>4
  <2>6. b = Abstract!BurstAt(air', m, n)
    BY <1>2, <2>3, <2>4, <2>5, BurstIs
  <2> QED
    BY <2>1, <2>2, <2>4, <2>6
<1> QED
  BY <1>3, <1>4, <1>5, <1>6

(* push_dibit() at the end of a burst. *)
LEMMA CompleteStep ==
  ASSUME SyncIInv, NEW d \in Dibits, Complete(d)
  PROVE  SyncIInv'
<1>0. /\ SyncTypeOK /\ LastDibits /\ Counted /\ Shift(d)
      /\ SyncLen \in Nat \ {0} /\ Half \in Nat \ {0} /\ Guard \in Nat \ {0}
  BY BurstBounds DEF SyncIInv, Complete
<1>1. /\ state = "COLLECTING" /\ state' = "HUNTING" /\ collect_idx' = collect_idx + 1
      /\ ts_toggle' = ts_toggle /\ burst_count' = burst_count + 1
      /\ sync_matches' = sync_matches /\ matchedAt' = matchedAt
      /\ emitted' = Append(emitted, current')
  BY DEF Complete
<1>2. /\ air' = Append(air, d) /\ air' \in Seq(0..3) /\ Len(air') = Len(air) + 1
      /\ sync_reg' \in Words
      /\ hist' \in [0..(HistLen - 1) -> 0..3]
      /\ hist_head' \in 0..(HistLen - 1) /\ LastDibits'
  BY <1>0, ShiftHolds
<1>3. /\ current' \in BurstSet /\ current'.type \in SyncTypes
      /\ MatchAt \in 1..Len(air) /\ MatchAt + Half + Guard = Len(air')
      /\ matchedAt[Len(matchedAt)] = MatchAt /\ Len(matchedAt) = Len(emitted) + 1
      /\ current' = Abstract!BurstAt(air', MatchAt, Len(emitted) + 1)
  BY CompleteBurst
<1>4. /\ emitted \in Seq(BurstSet) /\ Len(emitted) \in Nat
      /\ burst_count = Len(emitted) /\ collect_idx \in Nat
      /\ Len(air) \in Nat
  BY <1>0, LenProperties DEF SyncTypeOK, Counted
<1>5. /\ emitted' \in Seq(BurstSet) /\ Len(emitted') = Len(emitted) + 1
      /\ \A n \in 1..Len(emitted) : emitted'[n] = emitted[n]
      /\ emitted'[Len(emitted) + 1] = current'
  BY <1>1, <1>3, <1>4, AppendProperties
<1>6. SyncTypeOK'
  <2>1. collect_idx' \in 0..(Half + Guard)
    BY <1>0, <1>1, <1>2, <1>3, <1>4 DEF MatchAt
  <2>2. burst_count' \in Nat
    BY <1>1, <1>4
  <2> QED
    BY <1>0, <1>1, <1>2, <1>3, <1>5, <2>1, <2>2 DEF SyncTypeOK
<1>7. Collecting'
  BY <1>1 DEF Collecting
<1>8. Counted'
  <2>1. \A n \in 1..Len(emitted) :
           /\ matchedAt'[n] + Half <= Len(air')
           /\ emitted[n].type \in SyncTypes
           /\ emitted[n] = Abstract!BurstAt(air', matchedAt'[n], n)
    BY <1>0, <1>1, <1>2, EmittedKept
  <2>2. ASSUME NEW n \in 1..(Len(emitted) + 1)
        PROVE  /\ matchedAt'[n] + Half <= Len(air')
               /\ emitted'[n].type \in SyncTypes
               /\ emitted'[n] = Abstract!BurstAt(air', matchedAt'[n], n)
    <3>1. CASE n = Len(emitted) + 1
      <4>1. matchedAt'[n] = MatchAt /\ emitted'[n] = current'
        BY <1>1, <1>3, <1>5, <3>1
      <4>2. MatchAt + Half <= Len(air')
        BY <1>0, <1>3, <1>4
      <4> QED
        BY <1>3, <3>1, <4>1, <4>2
    <3>2. CASE n # Len(emitted) + 1
      <4>1. n \in 1..Len(emitted)
        BY <1>4, <3>2
      <4> QED
        BY <1>5, <2>1, <4>1
    <3> QED
      BY <3>1, <3>2
  <2>3. /\ ts_toggle' = Len(matchedAt') /\ sync_matches' = Len(matchedAt')
        /\ burst_count' = Len(emitted')
        /\ Len(matchedAt') = Len(emitted') + (IF state' = "COLLECTING" THEN 1 ELSE 0)
    BY <1>0, <1>1, <1>3, <1>4, <1>5 DEF Counted
  <2> QED
    BY <1>5, <2>2, <2>3 DEF Counted
<1> QED
  BY <1>2, <1>6, <1>7, <1>8 DEF SyncIInv

(* Every path through push_dibit() keeps the invariant. *)
LEMMA SyncNextIInv == SyncIInv /\ [SyncNext]_syncVars => SyncIInv'
<1> SUFFICES ASSUME SyncIInv, [SyncNext]_syncVars PROVE SyncIInv'
  OBVIOUS
<1>1. ASSUME NEW d \in Dibits, push_dibit(d) PROVE SyncIInv'
  BY <1>1, HuntMissStep, HuntMatchStep, CollectStep, CompleteStep DEF push_dibit
<1>2. CASE UNCHANGED syncVars
  BY <1>2 DEF syncVars, SyncIInv, SyncTypeOK, LastDibits, Holds, Window, Collecting,
    Counted, MatchAt, WordAt
<1> QED
  BY <1>1, <1>2 DEF SyncNext

-----------------------------------------------------------------------------
(* Every word has been looked at. *)

LEMMA NotMissedStep ==
  ASSUME SyncIInv, NoSyncMissed, [SyncNext]_syncVars
  PROVE  NoSyncMissed'
<1>0. /\ air \in Seq(0..3) /\ Len(air) \in Nat /\ matchedAt \in Seq(Nat)
      /\ Len(matchedAt) \in Nat /\ SyncTypeOK /\ LastDibits
      /\ SyncLen \in Nat \ {0} /\ Half \in Nat \ {0} /\ Guard \in Nat \ {0}
  BY BurstBounds, LenProperties DEF SyncIInv, SyncTypeOK
<1>1. CASE UNCHANGED syncVars
  <2>1. air' = air /\ matchedAt' = matchedAt
    BY <1>1 DEF syncVars
  <2> QED
    BY <2>1 DEF NoSyncMissed, WordAt
<1>2. ASSUME NEW d \in Dibits, push_dibit(d)
      PROVE  NoSyncMissed'
  <2>1. Shift(d)
    BY <1>2 DEF push_dibit, HuntMiss, HuntMatch, Collect, Complete
  <2>2. /\ air' = Append(air, d) /\ Len(air') = Len(air) + 1 /\ d \in 0..3
        /\ sync_reg' = Abstract!Slice(air', Len(air') - SyncLen + 1, SyncLen)
    BY <1>0, <2>1, ShiftHolds, BurstBounds
  <2>3. /\ \A n \in 1..Len(matchedAt) : matchedAt'[n] = matchedAt[n]
        /\ Len(matchedAt') \in Nat /\ Len(matchedAt') >= Len(matchedAt)
    <3>1. CASE matchedAt' = matchedAt
      BY <1>0, <3>1
    <3>2. CASE matchedAt' = Append(matchedAt, Len(air'))
      <4>1. PICK m \in Nat : m = Len(air')
        BY <1>0, <2>2
      <4>2. /\ Len(Append(matchedAt, m)) = Len(matchedAt) + 1
            /\ \A n \in 1..Len(matchedAt) : Append(matchedAt, m)[n] = matchedAt[n]
        BY <1>0, AppendProperties
      <4> QED
        BY <1>0, <3>2, <4>1, <4>2
    <3> QED
      BY <1>2, <3>1, <3>2 DEF push_dibit, HuntMiss, HuntMatch, Collect, Complete
  <2> SUFFICES ASSUME NEW i \in 1..(Len(air) + 1),
                      Abstract!TypeOf(Abstract!Slice(air', i - SyncLen + 1, SyncLen))
                         # "UNKNOWN"
               PROVE  \E n \in 1..Len(matchedAt') :
                        matchedAt'[n] <= i /\ i <= matchedAt'[n] + Half + Guard
    BY <2>2 DEF NoSyncMissed, WordAt
  <2>4. CASE i <= Len(air)
    <3>1. i \in Int /\ i \in 1..Len(air)
      BY <1>0, <2>4
    <3>2. Abstract!Slice(air', i - SyncLen + 1, SyncLen)
            = Abstract!Slice(air, i - SyncLen + 1, SyncLen)
      BY <1>0, <2>2, <2>4, <3>1, WordAppend
    <3>3. PICK n \in 1..Len(matchedAt) :
            matchedAt[n] <= i /\ i <= matchedAt[n] + Half + Guard
      BY <3>1, <3>2 DEF NoSyncMissed, WordAt
    <3>4. n \in 1..Len(matchedAt') /\ matchedAt'[n] = matchedAt[n]
      BY <1>0, <2>3
    <3> QED
      BY <3>3, <3>4
  <2>5. CASE i = Len(air) + 1
    <3>1. Abstract!TypeOf(sync_reg') # "UNKNOWN"
      BY <2>2, <2>5
    <3>2. CASE HuntMiss(d)
      BY <3>1, <3>2, SameMatch DEF HuntMiss
    <3>3. CASE HuntMatch(d)
      <4>1. PICK m \in Nat : m = Len(air')
        BY <1>0, <2>2
      <4>2. matchedAt' = Append(matchedAt, m)
        BY <3>3, <4>1 DEF HuntMatch
      <4>3. /\ Len(Append(matchedAt, m)) = Len(matchedAt) + 1
            /\ Append(matchedAt, m)[Len(matchedAt) + 1] = m
        BY <1>0, AppendProperties
      <4>4. Len(matchedAt) + 1 \in 1..Len(matchedAt') /\ matchedAt'[Len(matchedAt) + 1] = m
        BY <1>0, <4>2, <4>3
      <4>5. m <= i /\ i <= m + Half + Guard
        BY <1>0, <2>2, <2>5, <4>1
      <4> QED
        BY <4>4, <4>5
    <3>4. CASE Collect(d) \/ Complete(d)
      <4>1. /\ state = "COLLECTING" /\ matchedAt' = matchedAt
            /\ current' = WithDibit(current, d) /\ collect_idx' = collect_idx + 1
        BY <3>4 DEF Collect, Complete
      <4>2. /\ MatchAt \in 1..Len(air) /\ matchedAt[Len(matchedAt)] = MatchAt
            /\ collect_idx \in Nat /\ collect_idx < Half + Guard
        BY <2>1, <4>1, CollectsOne
      <4>3. Len(matchedAt) \in 1..Len(matchedAt')
        <5>1. Len(matchedAt) > 0
          BY <4>1 DEF SyncIInv, Collecting
        <5> QED
          BY <1>0, <4>1, <5>1
      <4>4. MatchAt = Len(air) - collect_idx
        BY DEF MatchAt
      <4>5. MatchAt <= i /\ i <= MatchAt + Half + Guard
        BY <1>0, <2>5, <4>2, <4>4
      <4> QED
        BY <4>1, <4>2, <4>3, <4>5
    <3> QED
      BY <1>2, <3>2, <3>3, <3>4 DEF push_dibit
  <2> QED
    BY <1>0, <2>4, <2>5
<1> QED
  BY <1>1, <1>2 DEF SyncNext

(* No sync word ends before the first dibit. *)
MatchedOnAir == \A n \in 1..Len(matchedAt) : matchedAt[n] >= 1

(* push_dibit() appends only where it is now. *)
LEMMA MatchedOnAirStep ==
  ASSUME SyncTypeOK, MatchedOnAir, [SyncNext]_syncVars
  PROVE  MatchedOnAir'
<1>1. CASE matchedAt' = matchedAt
  BY <1>1 DEF MatchedOnAir
<1>2. ASSUME NEW d \in Dibits, HuntMatch(d)
      PROVE  MatchedOnAir'
  <2>1. PICK L \in Nat : L = Len(air)
    BY LenProperties DEF SyncTypeOK
  <2>2. Len(air') = L + 1
    <3>1. d \in 0..3
      BY BurstBounds
    <3> QED
      BY <1>2, <2>1, <3>1, AtAppend DEF HuntMatch, Shift, SyncTypeOK
  <2>3. matchedAt' = Append(matchedAt, L + 1) /\ matchedAt \in Seq(Nat)
    BY <1>2, <2>2 DEF HuntMatch, SyncTypeOK
  <2>4. /\ Len(Append(matchedAt, L + 1)) = Len(matchedAt) + 1
        /\ Append(matchedAt, L + 1)[Len(matchedAt) + 1] = L + 1
        /\ \A n \in 1..Len(matchedAt) : Append(matchedAt, L + 1)[n] = matchedAt[n]
        /\ Len(matchedAt) \in Nat
    <3>1. L + 1 \in Nat
      BY <2>1
    <3> QED
      BY <2>3, <3>1, AppendProperties, LenProperties
  <2>5. ASSUME NEW n \in 1..(Len(matchedAt) + 1)
        PROVE  matchedAt'[n] >= 1
    <3>1. CASE n = Len(matchedAt) + 1
      BY <2>1, <2>3, <2>4, <3>1
    <3>2. CASE n \in 1..Len(matchedAt)
      BY <2>3, <2>4, <3>2 DEF MatchedOnAir
    <3> QED
      BY <2>4, <3>1, <3>2
  <2> QED
    BY <2>3, <2>4, <2>5 DEF MatchedOnAir
<1> QED
  BY <1>1, <1>2 DEF SyncNext, push_dibit, HuntMiss, Collect, Complete, syncVars

(* Every match was at a sync word, completed or in progress. *)
LEMMA MatchedSyncWords ==
  ASSUME SyncIInv, NEW n \in 1..Len(matchedAt)
  PROVE  /\ Abstract!TypeOf(WordAt(matchedAt[n])) # "UNKNOWN"
         /\ n \notin 1..Len(emitted) => matchedAt[n] + Half + Guard > Len(air)
<1>1. "UNKNOWN" \notin SyncTypes
  BY DEF SyncTypes
<1>2. CASE n \in 1..Len(emitted)
  <2>1. /\ emitted[n].type \in SyncTypes
        /\ emitted[n] = Abstract!BurstAt(air, matchedAt[n], n)
    BY <1>2 DEF SyncIInv, Counted
  <2>2. emitted[n].type = Abstract!TypeOf(WordAt(matchedAt[n]))
    BY <2>1 DEF Abstract!BurstAt, WordAt
  <2> QED
    BY <1>1, <1>2, <2>1, <2>2
<1>3. CASE n \notin 1..Len(emitted)
  <2>1. /\ Len(emitted) \in Nat /\ Len(air) \in Nat
        /\ Len(matchedAt) = Len(emitted) + (IF state = "COLLECTING" THEN 1 ELSE 0)
    BY LenProperties DEF SyncIInv, SyncTypeOK, Counted
  <2>2. state = "COLLECTING" /\ n = Len(matchedAt)
    BY <1>3, <2>1
  <2>3. /\ matchedAt[n] = MatchAt /\ current.type \in SyncTypes
        /\ current.type = Abstract!TypeOf(WordAt(MatchAt))
        /\ collect_idx < Half + Guard
    BY <2>2 DEF SyncIInv, Collecting
  <2>4. MatchAt + Half + Guard > Len(air)
    BY <2>1, <2>3, BurstBounds DEF MatchAt, SyncIInv, SyncTypeOK
  <2> QED
    BY <1>1, <2>3, <2>4
<1> QED
  BY <1>2, <1>3

(* A sync word that no other hides was matched, and its burst is complete  *)
(* when its guard is in.                                                   *)
LEMMA IsolatedArrives == SyncIInv /\ NoSyncMissed /\ MatchedOnAir => IsolatedBurstsArrive
<1> SUFFICES ASSUME SyncIInv, NoSyncMissed, MatchedOnAir,
                    NEW i \in 1..(Len(air) - Half - Guard),
                    NEW k \in 1..Len(SyncWords),
                    hamming48(WordAt(i), SyncWords[k].word) <= MaxErrors,
                    \A j \in 1..(i - 1) :
                      i <= j + Half + Guard => Abstract!TypeOf(WordAt(j)) = "UNKNOWN"
             PROVE  \E n \in 1..Len(emitted) :
                      /\ emitted[n] = Abstract!BurstAt(air, i, n)
                      /\ emitted[n].type = SyncWords[k].type
  BY DEF IsolatedBurstsArrive
<1>0. /\ Abstract!TypeOf(WordAt(i)) = SyncWords[k].type
      /\ SyncWords[k].type \in SyncTypes /\ "UNKNOWN" \notin SyncTypes
  <2>1. SyncWords[k] \in [type : SyncTypes, word : [1..SyncLen -> 0..3]]
    BY BurstConstants, ElementOfSeq DEF BurstConstants, SyncTypes
  <2>2. SyncWords[k].type \in SyncTypes /\ "UNKNOWN" \notin SyncTypes
    BY <2>1 DEF SyncTypes
  <2> QED
    BY <2>2, ForgivenWord, SameMatch, Zenon
<1>1. /\ Half \in Nat \ {0} /\ Guard \in Nat \ {0} /\ Len(air) \in Nat
      /\ i \in 1..Len(air) /\ i + Half + Guard <= Len(air)
  <2>1. Len(air) \in Nat
    BY LenProperties DEF SyncIInv, SyncTypeOK
  <2> QED
    BY <2>1, BurstBounds
<1>2. PICK n \in 1..Len(matchedAt) :
        matchedAt[n] <= i /\ i <= matchedAt[n] + Half + Guard
  BY <1>0, <1>1 DEF NoSyncMissed
<1>3. PICK m \in Nat : m = matchedAt[n] /\ m >= 1
  <2>1. matchedAt \in Seq(Nat)
    BY DEF SyncIInv, SyncTypeOK
  <2>2. matchedAt[n] \in Nat
    BY <2>1, ElementOfSeq
  <2> QED
    BY <2>2 DEF MatchedOnAir
<1>4. Abstract!TypeOf(WordAt(m)) # "UNKNOWN"
  BY <1>3, MatchedSyncWords
<1>5. m = i
  BY <1>1, <1>2, <1>3, <1>4
<1>6. n \in 1..Len(emitted)
  <2>1. CASE n \notin 1..Len(emitted)
    <3>1. matchedAt[n] + Half + Guard > Len(air)
      BY <2>1, MatchedSyncWords
    <3>2. i + Half + Guard > Len(air)
      BY <1>3, <1>5, <3>1
    <3> QED
      BY <1>1, <3>2
  <2> QED
    BY <2>1
<1>7. emitted[n] = Abstract!BurstAt(air, i, n)
  BY <1>3, <1>5, <1>6 DEF SyncIInv, Counted
<1>8. emitted[n].type = SyncWords[k].type
  BY <1>0, <1>7 DEF Abstract!BurstAt, WordAt
<1> QED
  BY <1>6, <1>7, <1>8

-----------------------------------------------------------------------------
(* The abstract framer. *)

(* A BurstSync just constructed has framed nothing. *)
LEMMA FramerInit ==
  ASSUME SyncInit
  PROVE  Abstract!Init
BY DEF SyncInit, Abstract!Init

(* Every path through push_dibit() is a step of the framing that           *)
(* burst_sync.h promises, or none.                                         *)
LEMMA FramerStep ==
  ASSUME SyncIInv, SyncIInv', [SyncNext]_syncVars
  PROVE  [Abstract!Next]_Abstract!frameVars
<1>0. /\ air \in Seq(0..3) /\ Len(air) \in Nat /\ SyncTypeOK /\ LastDibits
      /\ SyncLen \in Nat \ {0} /\ Half \in Nat \ {0} /\ Guard \in Nat \ {0}
  BY BurstBounds, LenProperties DEF SyncIInv, SyncTypeOK
<1>1. CASE UNCHANGED syncVars
  BY <1>1 DEF syncVars, Abstract!frameVars
<1>2. ASSUME NEW d \in Dibits, push_dibit(d)
      PROVE  Abstract!Receive(d)
  <2> DEFINE pending == IF state = "COLLECTING" THEN Len(air) - collect_idx ELSE 0
             w == Abstract!Slice(air', Len(air) + 1 - SyncLen + 1, SyncLen)
  <2>1. Shift(d)
    BY <1>2 DEF push_dibit, HuntMiss, HuntMatch, Collect, Complete
  <2>2. /\ air' = Append(air, d) /\ Len(air') = Len(air) + 1
        /\ sync_reg' = Abstract!Slice(air', Len(air') - SyncLen + 1, SyncLen)
        /\ Len(air) < MaxDibits
    BY <1>0, <2>1, ShiftHolds DEF Shift
  <2>3. w = sync_reg' /\ Abstract!TypeOf(w) = match_sync(sync_reg')
    <3>1. w = sync_reg'
      BY <1>0, <2>2
    <3> HIDE DEF w
    <3> QED
      BY <3>1, SameMatch
  <2> HIDE DEF w
  <2> DEFINE word == Abstract!TypeOf(w)
             start == IF word = "UNKNOWN" THEN 0 ELSE Len(air) + 1
             burst == Abstract!BurstAt(air', pending, Len(emitted) + 1)
  <2>r. ASSUME \/ pending = 0 /\ pending' = start /\ emitted' = emitted
               \/ /\ pending # 0 /\ Len(air) + 1 < pending + Half + Guard
                  /\ pending' = pending /\ emitted' = emitted
               \/ /\ pending # 0 /\ ~(Len(air) + 1 < pending + Half + Guard)
                  /\ pending' = 0 /\ emitted' = Append(emitted, burst)
        PROVE  Abstract!Receive(d)
    <3>1. CASE pending = 0 /\ pending' = start /\ emitted' = emitted
      <4>1. CASE word = "UNKNOWN"
        BY <1>0, <2>2, <3>1, <4>1 DEF Abstract!Receive, w
      <4>2. CASE word # "UNKNOWN"
        BY <1>0, <2>2, <3>1, <4>2 DEF Abstract!Receive, w
      <4> QED
        BY <4>1, <4>2
    <3>2. CASE /\ pending # 0 /\ Len(air) + 1 < pending + Half + Guard
               /\ pending' = pending /\ emitted' = emitted
      BY <2>2, <3>2 DEF Abstract!Receive, w
    <3>3. CASE /\ pending # 0 /\ ~(Len(air) + 1 < pending + Half + Guard)
               /\ pending' = 0 /\ emitted' = Append(emitted, burst)
      BY <2>2, <3>3 DEF Abstract!Receive, w
    <3> QED
      BY <2>r, <3>1, <3>2, <3>3
  <2>4. CASE HuntMiss(d)
    BY <2>3, <2>4, <2>r DEF HuntMiss
  <2>5. CASE HuntMatch(d)
    <3>1. /\ pending = 0 /\ emitted' = emitted /\ state' = "COLLECTING"
          /\ collect_idx' = 0 /\ match_sync(sync_reg') # "UNKNOWN"
      BY <2>5 DEF HuntMatch
    <3>2. pending' = Len(air) + 1
      BY <1>0, <2>2, <3>1
    <3> QED
      BY <2>3, <2>r, <3>1, <3>2
  <2>6. CASE Collect(d)
    <3>1. /\ state = "COLLECTING" /\ state' = state /\ matchedAt' = matchedAt
          /\ current' = WithDibit(current, d) /\ collect_idx' = collect_idx + 1
          /\ emitted' = emitted /\ ~(collect_idx + 1 >= Half + Guard)
      BY <2>6 DEF Collect, Completed
    <3>2. /\ MatchAt \in 1..Len(air) /\ MatchAt' = MatchAt
          /\ collect_idx \in Nat
      BY <2>1, <3>1, CollectsOne
    <3>3. pending = MatchAt /\ pending' = MatchAt'
      BY <3>1 DEF MatchAt
    <3>4. Len(air) + 1 < MatchAt + Half + Guard
      BY <1>0, <3>1, <3>2 DEF MatchAt
    <3>5. pending # 0
      BY <1>0, <3>2, <3>3
    <3> HIDE DEF pending
    <3> QED
      BY <2>r, <3>1, <3>2, <3>3, <3>4, <3>5
  <2>7. CASE Complete(d)
    <3>1. /\ state = "COLLECTING" /\ state' = "HUNTING"
          /\ emitted' = Append(emitted, current')
      BY <2>7 DEF Complete
    <3>2. /\ MatchAt \in 1..Len(air) /\ MatchAt + Half + Guard = Len(air')
          /\ current' = Abstract!BurstAt(air', MatchAt, Len(emitted) + 1)
      BY <2>7, CompleteBurst
    <3>3. pending = MatchAt /\ pending' = 0
      BY <3>1 DEF MatchAt
    <3>4. pending # 0 /\ ~(Len(air) + 1 < pending + Half + Guard)
      BY <1>0, <2>2, <3>2, <3>3
    <3> HIDE DEF pending
    <3> QED
      BY <2>r, <3>1, <3>2, <3>3, <3>4
  <2> QED
    BY <1>2, <2>4, <2>5, <2>6, <2>7 DEF push_dibit
<1> QED
  BY <1>1, <1>2 DEF SyncNext, Abstract!Next

-----------------------------------------------------------------------------
(* The timeslots. *)

(* The types of slots_. *)
SlotStates == {"IDLE", "VOICE", "DATA"}
SlotSet == [state : SlotStates, count : Nat, miss_count : Nat]

(* What each timeslot has heard and is in, and the event given last, in    *)
(* terms of the bursts completed.                                          *)
Heard ==
  /\ heard \in [{1, 2} -> Seq(SyncTypes)]
  /\ \A ts \in {1, 2} :
       /\ Len(heard[ts]) = slots[ts].count
       /\ \A n \in 1..slots[ts].count : heard[ts][n] = emitted[2 * n - 2 + ts].type

(* A timeslot is in VOICE exactly when its last burst was voice. *)
States ==
  \A ts \in {1, 2} :
    LET k == slots[ts].count
    IN  slots[ts].state = "VOICE" <=>
          k > 0 /\ emitted[2 * k - 2 + ts].type \in Slot!Voice

(* What the Layer 2 callback is given for the n-th burst of the channel. *)
EventOf(n) ==
  [timeslot    |-> IF n % 2 = 0 THEN 2 ELSE 1,
   type        |-> emitted[n].type,
   state       |-> IF emitted[n].type \in Slot!Voice THEN "VOICE"
                   ELSE IF n > 2 /\ emitted[n - 2].type \in Slot!Voice THEN "IDLE"
                   ELSE "DATA",
   burst_count |-> (n + 1) \div 2]

(* Bursts alternate between the timeslots, each of which has heard its     *)
(* own, and the last event is that of the last burst.                      *)
Booked ==
  /\ slots \in [{1, 2} -> SlotSet]
  /\ slots[1].count = (Len(emitted) + 1) \div 2 /\ slots[2].count = Len(emitted) \div 2
  /\ Heard /\ States
  /\ Len(emitted) > 0 => event = EventOf(Len(emitted))

FrameIInv == SyncIInv /\ Booked

(* Nothing is booked at first. *)
LEMMA BookedInit ==
  ASSUME FrameInit
  PROVE  Booked
<1>1. /\ slots = [ts \in {1, 2} |-> [state |-> "IDLE", count |-> 0, miss_count |-> 0]]
      /\ heard = [ts \in {1, 2} |-> <<>>] /\ Len(emitted) = 0
  BY DEF FrameInit, SyncInit, Slot!SlotInit, Slot!Timeslots
<1>2. slots \in [{1, 2} -> SlotSet] /\ \A ts \in {1, 2} : slots[ts].count = 0
  BY <1>1 DEF SlotSet, SlotStates
<1>3. Heard
  <2>1. \A ts \in {1, 2} : heard[ts] = <<>> /\ Len(heard[ts]) = 0
    BY <1>1
  <2>2. heard \in [{1, 2} -> Seq(SyncTypes)]
    BY <1>1
  <2> QED
    BY <1>2, <2>1, <2>2 DEF Heard
<1>4. States
  <2>1. \A ts \in {1, 2} : slots[ts].state # "VOICE"
    BY <1>1
  <2> QED
    BY <1>2, <2>1 DEF States
<1>5. slots[1].count = (Len(emitted) + 1) \div 2 /\ slots[2].count = Len(emitted) \div 2
  BY <1>1, <1>2
<1> QED
  BY <1>1, <1>2, <1>3, <1>4, <1>5 DEF Booked

(* advance_state() for a burst that BurstSync delivers. *)
LEMMA NextStateIs ==
  ASSUME NEW st, NEW type \in SyncTypes
  PROVE  Slot!NextState(st, type)
           = IF type \in Slot!Voice THEN "VOICE"
             ELSE IF st = "VOICE" THEN "IDLE" ELSE "DATA"
<1>1. type \in Slot!Voice <=> type \notin Slot!Data
  BY DEF SyncTypes, Slot!Voice, Slot!Data
<1>2. CASE type \in Slot!Voice
  BY <1>1, <1>2 DEF Slot!NextState
<1>3. CASE type \in Slot!Data /\ st = "VOICE"
  BY <1>1, <1>3 DEF Slot!NextState
<1>4. CASE type \in Slot!Data /\ st # "VOICE"
  BY <1>1, <1>4 DEF Slot!NextState
<1> QED
  BY <1>1, <1>2, <1>3, <1>4

(* The callback's effect on the timeslot it is for, and on no other. *)
LEMMA OnBurstEffect ==
  ASSUME NEW t \in {1, 2}, NEW type \in SyncTypes, slots \in [{1, 2} -> SlotSet],
         Slot!on_burst(t, type)
  PROVE  LET st == Slot!NextState(slots[t].state, type)
         IN  /\ slots' \in [{1, 2} -> SlotSet]
             /\ slots'[t].state = st /\ slots'[t].count = slots[t].count + 1
             /\ \A ts \in {1, 2} : ts # t => slots'[ts] = slots[ts]
             /\ event' = [timeslot |-> t, type |-> type, state |-> st,
                          burst_count |-> slots[t].count + 1]
             /\ heard' = [heard EXCEPT ![t] = Append(@, type)]
<1>1. Slot!SlotOf(t) = t
  BY DEF Slot!SlotOf
<1> DEFINE old   == slots[t]
           st    == Slot!NextState(old.state, type)
           more  == [old EXCEPT !.count = @ + 1]
           after == [more EXCEPT !.miss_count = 0, !.state = st]
<1>2. old \in SlotSet
  OBVIOUS
<1>3. st \in SlotStates
  BY NextStateIs DEF SlotStates
<1>4. more.state = old.state
  <2> HIDE DEF old
  <2> QED
    BY <1>2 DEF SlotSet
<1>5. /\ slots' = [slots EXCEPT ![t] = after]
      /\ event' = [timeslot |-> t, type |-> type, state |-> after.state,
                   burst_count |-> after.count]
      /\ heard' = [heard EXCEPT ![t] = Append(@, type)]
  BY <1>1, <1>4 DEF Slot!on_burst, Slot!advance_state
<1>6. after \in SlotSet /\ after.state = st /\ after.count = old.count + 1
  <2> HIDE DEF old, st
  <2>1. more \in SlotSet /\ more.count = old.count + 1
    BY <1>2 DEF SlotSet
  <2> HIDE DEF more
  <2> QED
    BY <1>3, <2>1 DEF SlotSet
<1> HIDE DEF after, st
<1>7. /\ slots' \in [{1, 2} -> SlotSet] /\ slots'[t] = after
      /\ \A ts \in {1, 2} : ts # t => slots'[ts] = slots[ts]
  BY <1>5, <1>6
<1>8. event' = [timeslot |-> t, type |-> type, state |-> st,
                burst_count |-> slots[t].count + 1]
  BY <1>5, <1>6
<1> QED
  BY <1>5, <1>6, <1>7, <1>8 DEF st

(* on_burst(), called by push_dibit() at the end of a burst, books it. *)
LEMMA CallbackStep ==
  ASSUME FrameIInv, NEW d \in Dibits, Callback(d)
  PROVE  Booked'
<1>1. /\ SyncIInv /\ Complete(d) /\ Booked /\ Heard /\ States
      /\ Slot!on_burst(current'.timeslot, current'.type)
      /\ slots \in [{1, 2} -> SlotSet] /\ emitted \in Seq(BurstSet)
  BY DEF FrameIInv, Booked, Callback, SyncIInv, SyncTypeOK
<1>2. PICK N \in Nat : N = Len(emitted)
  BY <1>1, LenProperties
<1>3. PICK type \in SyncTypes : type = current'.type
  BY <1>1, CompleteBurst
<1>4. PICK t \in {1, 2} : t = current'.timeslot /\ t = (IF (N + 1) % 2 = 1 THEN 1 ELSE 2)
  <2>1. current'.timeslot = (IF Len(matchedAt) % 2 = 1 THEN 1 ELSE 2)
        /\ Len(matchedAt) = N + 1
    BY <1>1, <1>2, CompleteBurst
  <2> QED
    BY <2>1
<1>t. t \in Int /\ 1 <= t /\ t <= 2
  OBVIOUS
<1>5. PICK k \in Nat : k = slots[t].count /\ 2 * k + t = N + 1
  <2>1. slots[1].count = (N + 1) \div 2 /\ slots[2].count = N \div 2
    BY <1>1, <1>2 DEF Booked
  <2>2. (N + 1) % 2 = 1 => 2 * ((N + 1) \div 2) + 1 = N + 1
    OBVIOUS
  <2>3. (N + 1) % 2 # 1 => 2 * (N \div 2) + 2 = N + 1
    OBVIOUS
  <2>4. (N + 1) \div 2 \in Nat /\ N \div 2 \in Nat
    OBVIOUS
  <2>5. CASE t = 1
    BY <1>4, <2>1, <2>2, <2>4, <2>5
  <2>6. CASE t = 2
    BY <1>4, <2>1, <2>3, <2>4, <2>6
  <2> QED
    BY <2>5, <2>6
<1> DEFINE st == Slot!NextState(slots[t].state, type)
<1>6. /\ slots' \in [{1, 2} -> SlotSet]
      /\ slots'[t].state = st /\ slots'[t].count = k + 1
      /\ \A ts \in {1, 2} : ts # t => slots'[ts] = slots[ts]
      /\ event' = [timeslot |-> t, type |-> type, state |-> st, burst_count |-> k + 1]
      /\ heard' = [heard EXCEPT ![t] = Append(@, type)]
  <2>1. Slot!on_burst(t, type)
    BY <1>1, <1>3, <1>4
  <2> QED
    BY <1>1, <1>5, <2>1, OnBurstEffect
<1>7. /\ Len(emitted') = N + 1 /\ emitted'[N + 1].type = type
      /\ \A n \in 1..N : emitted'[n] = emitted[n]
  <2>1. current' \in BurstSet /\ emitted' = Append(emitted, current')
    BY <1>1, CompleteBurst DEF Complete
  <2> QED
    BY <1>1, <1>2, <1>3, <2>1, AppendProperties
<1>8. st = IF type \in Slot!Voice THEN "VOICE"
           ELSE IF slots[t].state = "VOICE" THEN "IDLE" ELSE "DATA"
  BY NextStateIs
<1> HIDE DEF st
<1>9. slots[t].state = "VOICE" <=> k > 0 /\ emitted[N - 1].type \in Slot!Voice
  <2>1. 2 * k - 2 + t = N - 1
    <3>1. PICK a \in Int : a = 2 * k
      OBVIOUS
    <3>2. a + t = N + 1
      BY <1>5, <3>1
    <3>3. a - 2 + t = N - 1
      BY <1>t, <3>2
    <3> QED
      BY <3>1, <3>3
  <2> QED
    BY <1>1, <1>5, <2>1 DEF States
<1>10. \A ts \in {1, 2} : slots[ts].count \in Nat
  BY <1>1 DEF SlotSet
<1>11. slots'[1].count = (N + 2) \div 2 /\ slots'[2].count = (N + 1) \div 2
  <2>1. slots[1].count = (N + 1) \div 2 /\ slots[2].count = N \div 2
    BY <1>1, <1>2 DEF Booked
  <2>2. CASE t = 1
    <3>1. k + 1 = (N + 2) \div 2 /\ N \div 2 = (N + 1) \div 2
      BY <1>5, <2>2
    <3> QED
      BY <1>6, <2>1, <2>2, <3>1
  <2>3. CASE t = 2
    <3>0. N = 2 * k + 1
      <4>1. PICK a \in Int : a = 2 * k
        OBVIOUS
      <4>2. a + 2 = N + 1
        BY <1>5, <2>3, <4>1
      <4>3. N = a + 1
        BY <4>2
      <4> QED
        BY <4>1, <4>3
    <3>1. k + 1 = (N + 1) \div 2 /\ (N + 1) \div 2 = (N + 2) \div 2
      BY <3>0
    <3> QED
      BY <1>6, <2>1, <2>3, <3>1
  <2> QED
    BY <2>2, <2>3
(* The bursts booked on a timeslot before are among the first N. *)
<1>12. ASSUME NEW ts \in {1, 2}, NEW n \in 1..slots[ts].count
       PROVE  2 * n - 2 + ts \in 1..N
  <2>1. slots[1].count = (N + 1) \div 2 /\ slots[2].count = N \div 2
    BY <1>1, <1>2 DEF Booked
  <2>2. 2 * ((N + 1) \div 2) <= N + 1 /\ 2 * (N \div 2) <= N
        /\ (N + 1) \div 2 \in Nat /\ N \div 2 \in Nat
    OBVIOUS
  <2>3. CASE ts = 1
    BY <2>1, <2>2, <2>3
  <2>4. CASE ts = 2
    BY <2>1, <2>2, <2>4
  <2> QED
    BY <2>3, <2>4
<1>13. Heard'
  <2>1. /\ heard \in [{1, 2} -> Seq(SyncTypes)]
        /\ \A ts \in {1, 2} :
             /\ Len(heard[ts]) = slots[ts].count
             /\ \A n \in 1..slots[ts].count :
                   heard[ts][n] = emitted[2 * n - 2 + ts].type
    BY <1>1 DEF Heard
  <2>2. PICK h \in Seq(SyncTypes) : h = heard[t] /\ Len(h) = k
    BY <1>5, <2>1
  <2>3. /\ Append(h, type) \in Seq(SyncTypes) /\ Len(Append(h, type)) = k + 1
        /\ \A n \in 1..k : Append(h, type)[n] = h[n]
        /\ Append(h, type)[k + 1] = type
    BY <2>2, AppendProperties
  <2>4. /\ heard' \in [{1, 2} -> Seq(SyncTypes)] /\ heard'[t] = Append(h, type)
        /\ \A ts \in {1, 2} : ts # t => heard'[ts] = heard[ts]
    <3>1. heard' = [heard EXCEPT ![t] = Append(h, type)]
      BY <1>6, <2>1, <2>2
    <3> QED
      BY <2>1, <2>3, <3>1
  <2>5. ASSUME NEW ts \in {1, 2}
        PROVE  /\ Len(heard'[ts]) = slots'[ts].count
               /\ \A n \in 1..slots'[ts].count :
                    heard'[ts][n] = emitted'[2 * n - 2 + ts].type
    <3>1. CASE ts # t
      <4>1. heard'[ts] = heard[ts] /\ slots'[ts] = slots[ts]
        BY <1>6, <2>4, <3>1
      <4>2. ASSUME NEW n \in 1..slots[ts].count
            PROVE  heard[ts][n] = emitted'[2 * n - 2 + ts].type
        <5>1. PICK j \in 1..N : j = 2 * n - 2 + ts
          BY <1>12
        <5>2. heard[ts][n] = emitted[j].type
          BY <2>1, <5>1
        <5> QED
          BY <1>7, <5>1, <5>2
      <4> QED
        BY <2>1, <4>1, <4>2
    <3>2. CASE ts = t
      <4>1. Len(heard'[ts]) = k + 1 /\ slots'[ts].count = k + 1
        BY <1>6, <2>3, <2>4, <3>2
      <4>2. ASSUME NEW n \in 1..(k + 1)
            PROVE  heard'[ts][n] = emitted'[2 * n - 2 + ts].type
        <5>1. CASE n = k + 1
          <6>1. 2 * n - 2 + ts = N + 1
            <7>1. PICK a \in Int : a = 2 * k /\ 2 * n = a + 2
              BY <5>1
            <7>2. a + t = N + 1
              BY <1>5, <7>1
            <7>3. a + 2 - 2 + t = N + 1
              BY <1>t, <7>2
            <7> QED
              BY <3>2, <7>1, <7>3
          <6> QED
            BY <1>7, <2>3, <2>4, <3>2, <5>1, <6>1
        <5>2. CASE n # k + 1
          <6>1. n \in 1..k /\ n \in 1..slots[ts].count
            BY <1>5, <3>2, <5>2, SMTT(30)
          <6>2. heard'[ts][n] = heard[ts][n]
            BY <2>2, <2>3, <2>4, <3>2, <6>1
          <6>3. emitted'[2 * n - 2 + ts] = emitted[2 * n - 2 + ts]
            BY <1>7, <1>12, <6>1
          <6> QED
            BY <2>1, <6>1, <6>2, <6>3
        <5> QED
          BY <5>1, <5>2
      <4> QED
        BY <4>1, <4>2
    <3> QED
      BY <3>1, <3>2
  <2> QED
    BY <2>4, <2>5 DEF Heard
<1>14. States'
  <2>1. ASSUME NEW ts \in {1, 2}
        PROVE  slots'[ts].state = "VOICE" <=>
                 /\ slots'[ts].count > 0
                 /\ emitted'[2 * slots'[ts].count - 2 + ts].type \in Slot!Voice
    <3>1. CASE ts = t
      <4>1. slots'[ts].count > 0 /\ 2 * slots'[ts].count - 2 + ts = N + 1
        BY <1>5, <1>6, <3>1, SMTT(30)
      <4>2. slots'[ts].state = "VOICE" <=> type \in Slot!Voice
        BY <1>6, <1>8, <3>1
      <4> QED
        BY <1>7, <4>1, <4>2
    <3>2. CASE ts # t
      <4>1. PICK c \in Nat : c = slots[ts].count
        BY <1>10
      <4>2. slots'[ts] = slots[ts]
        BY <1>6, <3>2
      <4>3. slots[ts].state = "VOICE" <=> c > 0 /\ emitted[2 * c - 2 + ts].type \in Slot!Voice
        BY <1>1, <4>1 DEF States
      <4>4. c > 0 => emitted'[2 * c - 2 + ts] = emitted[2 * c - 2 + ts]
        <5> SUFFICES ASSUME c > 0
                     PROVE  emitted'[2 * c - 2 + ts] = emitted[2 * c - 2 + ts]
          OBVIOUS
        <5>1. 2 * c - 2 + ts \in 1..N
          BY <1>12, <4>1
        <5> QED
          BY <1>7, <5>1
      <4> QED
        BY <4>1, <4>2, <4>3, <4>4
    <3> QED
      BY <3>1, <3>2
  <2> QED
    BY <2>1 DEF States
<1>15. event' = EventOf(N + 1)'
  <2>1. /\ t = (IF (N + 1) % 2 = 0 THEN 2 ELSE 1) /\ k + 1 = (N + 1 + 1) \div 2
    BY <1>4, <1>5
  <2>2. k > 0 <=> N + 1 > 2
    BY <1>t, <1>5
  <2>3. N + 1 > 2 => emitted'[N + 1 - 2] = emitted[N - 1]
    BY <1>7
  <2>4. st = IF emitted'[N + 1].type \in Slot!Voice THEN "VOICE"
             ELSE IF N + 1 > 2 /\ emitted'[N + 1 - 2].type \in Slot!Voice THEN "IDLE"
             ELSE "DATA"
    BY <1>7, <1>8, <1>9, <2>2, <2>3
  <2> QED
    BY <1>6, <1>7, <2>1, <2>4 DEF EventOf
<1> QED
  BY <1>6, <1>7, <1>11, <1>13, <1>14, <1>15 DEF Booked

(* A dibit that completes no burst books nothing. *)
LEMMA BookedKept ==
  ASSUME FrameIInv, UNCHANGED slotVars, emitted' = emitted
  PROVE  Booked'
<1>1. slots' = slots /\ event' = event /\ heard' = heard
  BY DEF slotVars
<1> QED
  BY <1>1 DEF FrameIInv, Booked, Heard, States, EventOf

(* A step of the channel is one of its BurstSync. *)
LEMMA FrameStepIsSync ==
  ASSUME [FrameNext]_frameVars
  PROVE  [SyncNext]_syncVars
<1>1. CASE UNCHANGED frameVars
  BY <1>1 DEF frameVars
<1>2. ASSUME NEW d \in Dibits, NoCallback(d) \/ Callback(d)
      PROVE  push_dibit(d)
  BY <1>2 DEF NoCallback, Callback, push_dibit
<1> QED
  BY <1>1, <1>2 DEF FrameNext, SyncNext

(* Every dibit keeps the invariant of the channel. *)
LEMMA FrameNextIInv == FrameIInv /\ [FrameNext]_frameVars => FrameIInv'
<1> SUFFICES ASSUME FrameIInv, [FrameNext]_frameVars PROVE FrameIInv'
  OBVIOUS
<1>1. SyncIInv'
  BY FrameStepIsSync, SyncNextIInv DEF FrameIInv
<1>2. CASE UNCHANGED frameVars
  <2>1. UNCHANGED slotVars /\ emitted' = emitted
    BY <1>2 DEF frameVars, syncVars
  <2> QED
    BY <1>1, <2>1, BookedKept DEF FrameIInv
<1>3. ASSUME NEW d \in Dibits, NoCallback(d)
      PROVE  Booked'
  <2>1. UNCHANGED slotVars /\ emitted' = emitted
    BY <1>3 DEF NoCallback, HuntMiss, HuntMatch, Collect
  <2> QED
    BY <2>1, BookedKept
<1>4. ASSUME NEW d \in Dibits, Callback(d)
      PROVE  Booked'
  BY <1>4, CallbackStep
<1> QED
  BY <1>1, <1>2, <1>3, <1>4 DEF FrameIInv, FrameNext

(* What a burst says of itself is what was on the air. *)
LEMMA EmittedOnAir ==
  ASSUME SyncIInv, NEW n \in 1..Len(emitted)
  PROVE  emitted[n].type = OnAir(n) /\ OnAir(n) \in SyncTypes
<1>1. emitted[n].type \in SyncTypes /\ emitted[n] = Abstract!BurstAt(air, matchedAt[n], n)
  BY DEF SyncIInv, Counted
<1>2. emitted[n].type = OnAir(n)
  BY <1>1 DEF Abstract!BurstAt, OnAir, WordAt
<1> QED
  BY <1>1, <1>2

-----------------------------------------------------------------------------
(* Main results. *)

(* The slot manager only listens: whatever FrameSpec does is a behaviour   *)
(* of the burst synchronisation alone.                                     *)
THEOREM ChannelIsSync == FrameSpec => SyncSpec
<1>1. FrameInit => SyncInit
  BY DEF FrameInit
<1>2. [FrameNext]_frameVars => [SyncNext]_syncVars
  BY FrameStepIsSync
<1> QED
  BY <1>1, <1>2, PTL DEF FrameSpec, SyncSpec

(* The invariant: the shift register and the history buffer hold the last  *)
(* dibits, the burst in progress is a slice of the stream as far as it     *)
(* goes, and every match has become a burst or is the one in progress.     *)
THEOREM SyncInvariance == SyncSpec => []SyncIInv
<1>1. SyncInit => SyncIInv
  BY SyncInitIInv
<1> QED
  BY <1>1, SyncNextIInv, PTL DEF SyncSpec

(* The members of BurstSync keep their types and ranges. *)
THEOREM SyncTypeCorrect == SyncSpec => []SyncTypeOK
<1>1. SyncIInv => SyncTypeOK
  BY DEF SyncIInv
<1> QED
  BY <1>1, SyncInvariance, PTL

(* A word near a sync pattern starts a burst, unless it ends inside one    *)
(* that started before: push_dibit() looks at every word but these.        *)
THEOREM NothingMissed == SyncSpec => []NoSyncMissed
<1>1. SyncInit => NoSyncMissed
  <2>1. SyncInit => Len(air) = 0
    BY DEF SyncInit
  <2> QED
    BY <2>1 DEF NoSyncMissed
<1>2. SyncIInv /\ NoSyncMissed /\ [SyncNext]_syncVars => NoSyncMissed'
  BY NotMissedStep
<1> QED
  BY <1>1, <1>2, SyncInvariance, PTL DEF SyncSpec

(* A burst that no other sync word, or noise like one, hides arrives in    *)
(* full and as what it was sent, whatever was received before it and with  *)
(* as many errors in its sync word as match_sync() forgives.               *)
THEOREM IsolatedArrive == SyncSpec => []IsolatedBurstsArrive
<1>1. SyncInit => MatchedOnAir
  BY DEF SyncInit, MatchedOnAir
<1>2. SyncIInv /\ MatchedOnAir /\ [SyncNext]_syncVars => MatchedOnAir'
  BY MatchedOnAirStep DEF SyncIInv
<1> QED
  BY <1>1, <1>2, IsolatedArrives, NothingMissed, SyncInvariance, PTL DEF SyncSpec

(* push_dibit() with its shift register, circular history and collection   *)
(* index implements the framer of burst_sync.h, which cuts bursts out of   *)
(* the whole stream: every burst is the slice around its sync word.        *)
THEOREM FramerImplemented == SyncSpec => ImplementsFramer
<1>1. SyncInit => Abstract!Init
  BY FramerInit
<1>2. SyncIInv /\ SyncIInv' /\ [SyncNext]_syncVars
        => [Abstract!Next]_Abstract!frameVars
  BY FramerStep
<1> QED
  BY <1>1, <1>2, SyncInvariance, PTL DEF SyncSpec, ImplementsFramer, Abstract!Spec

(* The invariant of the whole channel: the timeslots' counts, histories    *)
(* and states and the last event follow from the bursts completed.         *)
THEOREM FrameInvariance == FrameSpec => []FrameIInv
<1>1. FrameInit => FrameIInv
  BY SyncInitIInv, BookedInit DEF FrameInit, FrameIInv
<1> QED
  BY <1>1, FrameNextIInv, PTL DEF FrameSpec

(* Every match becomes one burst, booked on the timeslot whose turn it is. *)
THEOREM BookedOnce == FrameSpec => []BurstsAreBookedOnce
<1>1. FrameIInv => BurstsAreBookedOnce
  <2> SUFFICES ASSUME FrameIInv PROVE BurstsAreBookedOnce
    OBVIOUS
  <2>1. /\ burst_count = Len(emitted)
        /\ sync_matches = burst_count + (IF state = "COLLECTING" THEN 1 ELSE 0)
    BY DEF FrameIInv, SyncIInv, Counted
  <2>2. ASSUME NEW ts \in {1, 2}
        PROVE  heard[ts] = [n \in 1..slots[ts].count |-> emitted[2 * n - 2 + ts].type]
    <3>1. /\ heard[ts] \in Seq(SyncTypes) /\ Len(heard[ts]) = slots[ts].count
          /\ \A n \in 1..slots[ts].count : heard[ts][n] = emitted[2 * n - 2 + ts].type
      BY DEF FrameIInv, Booked, Heard
    <3>2. heard[ts] \in [1..slots[ts].count -> SyncTypes]
      BY <3>1, LenProperties
    <3> QED
      BY <3>1, <3>2
  <2> QED
    BY <2>1, <2>2 DEF FrameIInv, Booked, BurstsAreBookedOnce
<1> QED
  BY <1>1, FrameInvariance, PTL

(* slot_state() says voice exactly when the last sync word booked on the   *)
(* timeslot, as it was received, is one of voice.                          *)
THEOREM StateTellsTheAir == FrameSpec => []SlotStateTellsTheAir
<1>1. FrameIInv => SlotStateTellsTheAir
  <2> SUFFICES ASSUME FrameIInv, NEW ts \in {1, 2}
               PROVE  slots[ts].state = "VOICE" <=>
                        LET n == 2 * slots[ts].count - 2 + ts
                        IN  n > 0 /\ slots[ts].count > 0 /\ OnAir(n) \in Slot!Voice
    BY DEF SlotStateTellsTheAir
  <2>1. PICK k \in Nat : k = slots[ts].count
    BY DEF FrameIInv, Booked, SlotSet
  <2>2. PICK N \in Nat : N = Len(emitted)
    BY LenProperties DEF FrameIInv, SyncIInv, SyncTypeOK
  <2>3. PICK n \in Int : n = 2 * k - 2 + ts
    OBVIOUS
  <2>4. slots[ts].state = "VOICE" <=> k > 0 /\ emitted[n].type \in Slot!Voice
    BY <2>1, <2>3 DEF FrameIInv, Booked, States
  <2>5. k > 0 => n \in 1..N
    <3>1. slots[1].count = (N + 1) \div 2 /\ slots[2].count = N \div 2
      BY <2>2 DEF FrameIInv, Booked
    <3>2. 2 * ((N + 1) \div 2) <= N + 1 /\ 2 * (N \div 2) <= N
      OBVIOUS
    <3>3. CASE ts = 1
      BY <2>1, <2>3, <3>1, <3>2, <3>3
    <3>4. CASE ts = 2
      BY <2>1, <2>3, <3>1, <3>2, <3>4
    <3> QED
      BY <3>3, <3>4
  <2>6. k > 0 => emitted[n].type = OnAir(n) /\ n > 0
    BY <2>2, <2>5, EmittedOnAir DEF FrameIInv
  <2> QED
    BY <2>1, <2>3, <2>4, <2>6
<1> QED
  BY <1>1, FrameInvariance, PTL

(* The event that Layer 2 was given last is the one the air calls for. *)
THEOREM LayerTwoToldTheAir == FrameSpec => []EventTellsTheAir
<1>1. FrameIInv => EventTellsTheAir
  <2> SUFFICES ASSUME FrameIInv, burst_count > 0 PROVE EventTellsTheAir
    BY DEF EventTellsTheAir
  <2>1. PICK n \in Nat : n = burst_count /\ n = Len(emitted)
    BY LenProperties DEF FrameIInv, SyncIInv, SyncTypeOK, Counted
  <2>2. event = EventOf(n)
    BY <2>1 DEF FrameIInv, Booked
  <2>3. emitted[n].type = OnAir(n)
    BY <2>1, EmittedOnAir DEF FrameIInv
  <2>4. n > 2 => emitted[n - 2].type = OnAir(n - 2)
    <3>1. n > 2 => n - 2 \in 1..Len(emitted)
      BY <2>1
    <3> QED
      BY <3>1, EmittedOnAir DEF FrameIInv
  <2> QED
    BY <2>1, <2>2, <2>3, <2>4 DEF EventTellsTheAir, EventOf
<1> QED
  BY <1>1, FrameInvariance, PTL
=============================================================================
