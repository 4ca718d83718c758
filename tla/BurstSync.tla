----------------------------- MODULE BurstSync -----------------------------
(***************************************************************************)
(* BurstSync of burst_sync.h/.cpp: the sync search and burst assembly that *)
(* push_dibit() performs for every dibit of one channel.                   *)
(*                                                                         *)
(* sync_reg is the 48-bit shift register as its sequence of dibits.  air,  *)
(* matchedAt and emitted are history: the dibits pushed, the length of air *)
(* at each sync match, and the bursts passed to the callback.              *)
(***************************************************************************)
EXTENDS Integers, Sequences, FiniteSets

CONSTANTS Half, SyncLen, Guard, MaxErrors, SyncWords, Dibits, MaxDibits,
          HistLen     \* kHistLen, the entries of hist_ (128)

ASSUME BurstConstants ==
  /\ Half \in Nat \ {0} /\ SyncLen \in Nat \ {0} /\ Guard \in Nat \ {0}
  /\ MaxErrors \in Nat /\ MaxDibits \in Nat
  /\ HistLen \in Nat /\ HistLen >= SyncLen + Half
  /\ Dibits \subseteq 0..3
  /\ SyncWords \in Seq([type : {"BS_VOICE", "MS_VOICE", "BS_DATA", "MS_DATA"},
                        word : [1..SyncLen -> 0..3]])

VARIABLES
  sync_reg, hist, hist_head, state, collect_idx, current,
  ts_toggle, burst_count, sync_matches,     \* the members of BurstSync
  air, matchedAt, emitted                   \* history

syncVars == <<sync_reg, hist, hist_head, state, collect_idx, current, ts_toggle,
              burst_count, sync_matches, air, matchedAt, emitted>>

Zeroes(n) == [i \in 1..n |-> 0]
NoBurst == [type |-> "UNKNOWN", timeslot |-> 1, sync_bits |-> Zeroes(SyncLen),
            dibits |-> Zeroes(2 * Half)]

-----------------------------------------------------------------------------
(* Bit b of a dibit. *)
Bit(d, b) == IF b = 0 THEN d % 2 ELSE d \div 2

(* Differing bits of two sync words. *)
hamming48(u, v) ==
  Cardinality({x \in (1..SyncLen) \X {0, 1} : Bit(u[x[1]], x[2]) # Bit(v[x[1]], x[2])})

(* No word is near two patterns, so the order match_sync tries them in     *)
(* does not matter.                                                        *)
ASSUME SyncWordsApart ==
  \A i, j \in 1..Len(SyncWords) :
    i # j => hamming48(SyncWords[i].word, SyncWords[j].word) > 2 * MaxErrors

(* The patterns a word is near enough to. *)
NearStrict(w) ==                     \* mutant: kMaxErrors errors are too many
  {k \in 1..Len(SyncWords) : hamming48(w, SyncWords[k].word) < MaxErrors}
Near(w) ==
  {k \in 1..Len(SyncWords) : hamming48(w, SyncWords[k].word) <= MaxErrors}

(* The type of the first of them. *)
match_sync(w) ==
  LET near == Near(w)
  IN  IF near = {} THEN "UNKNOWN"
      ELSE SyncWords[CHOOSE k \in near : \A j \in near : k <= j].type

(* The payload dibits before the sync word, out of the circular history.   *)
first_half_off_by_one(h, head) ==    \* mutant: one dibit too early
  LET start == (head - (SyncLen + Half + 1) + 2 * HistLen) % HistLen
  IN  [i \in 1..Half |-> h[(start + i - 1) % HistLen]]
extract_first_half(h, head) ==
  LET start == (head - (SyncLen + Half) + 2 * HistLen) % HistLen
  IN  [i \in 1..Half |-> h[(start + i - 1) % HistLen]]

-----------------------------------------------------------------------------
SyncInit ==
  /\ sync_reg = Zeroes(SyncLen)
  /\ hist = [i \in 0..(HistLen - 1) |-> 0] /\ hist_head = 0
  /\ state = "HUNTING" /\ collect_idx = 0 /\ current = NoBurst
  /\ ts_toggle = 0 /\ burst_count = 0 /\ sync_matches = 0
  /\ air = <<>> /\ matchedAt = <<>> /\ emitted = <<>>

(* The head of push_dibit(): history and shift register take every dibit. *)
Shift(d) ==
  /\ Len(air) < MaxDibits
  /\ air' = Append(air, d)
  /\ hist' = [hist EXCEPT ![hist_head] = d]
  /\ hist_head' = (hist_head + 1) % HistLen
  /\ sync_reg' = Append(Tail(sync_reg), d)

HuntMiss(d) ==
  /\ state = "HUNTING"
  /\ Shift(d)
  /\ match_sync(sync_reg') = "UNKNOWN"
  /\ UNCHANGED <<state, collect_idx, current, ts_toggle, burst_count,
                 sync_matches, matchedAt, emitted>>

(* A sync word ends here: start a burst with the first half from history. *)
HuntMatch(d) ==
  /\ state = "HUNTING"
  /\ Shift(d)
  /\ match_sync(sync_reg') # "UNKNOWN"
  /\ sync_matches' = sync_matches + 1
  /\ current' = [type      |-> match_sync(sync_reg'),
                 timeslot  |-> IF ts_toggle % 2 = 1 THEN 2 ELSE 1,
                 sync_bits |-> sync_reg',
                 dibits    |-> extract_first_half(hist', hist_head') \o Zeroes(Half)]
  /\ ts_toggle' = ts_toggle + 1
  /\ collect_idx' = 0
  /\ state' = "COLLECTING"
  /\ matchedAt' = Append(matchedAt, Len(air'))
  /\ UNCHANGED <<burst_count, emitted>>

(* The second half; the guard dibits are counted and not kept. *)
WithDibitEarly(b, d) ==              \* mutant: off by one
  IF collect_idx < Half THEN [b EXCEPT !.dibits[Half + collect_idx] = d] ELSE b
WithDibit(b, d) ==
  IF collect_idx < Half THEN [b EXCEPT !.dibits[Half + collect_idx + 1] = d] ELSE b

(* All of the second half and the guard are in with this dibit. *)
CompletedLate == collect_idx + 1 > Half + Guard      \* mutant: off by one
Completed == collect_idx + 1 >= Half + Guard

Collect(d) ==
  /\ state = "COLLECTING"
  /\ ~Completed
  /\ Shift(d)
  /\ current' = WithDibit(current, d)
  /\ collect_idx' = collect_idx + 1
  /\ UNCHANGED <<state, ts_toggle, burst_count, sync_matches, matchedAt, emitted>>

(* The last guard dibit: the callback, and back to hunting. *)
CompleteClearing(d) ==          \* mutant: the shift register is cleared
  /\ state = "COLLECTING"
  /\ Completed
  /\ Len(air) < MaxDibits
  /\ air' = Append(air, d)
  /\ hist' = [hist EXCEPT ![hist_head] = d]
  /\ hist_head' = (hist_head + 1) % HistLen
  /\ sync_reg' = Zeroes(SyncLen)
  /\ current' = WithDibit(current, d)
  /\ collect_idx' = collect_idx + 1
  /\ burst_count' = burst_count + 1
  /\ emitted' = Append(emitted, current')
  /\ state' = "HUNTING"
  /\ UNCHANGED <<ts_toggle, sync_matches, matchedAt>>
Complete(d) ==
  /\ state = "COLLECTING"
  /\ Completed
  /\ Shift(d)
  /\ current' = WithDibit(current, d)
  /\ collect_idx' = collect_idx + 1
  /\ burst_count' = burst_count + 1
  /\ emitted' = Append(emitted, current')
  /\ state' = "HUNTING"
  /\ UNCHANGED <<ts_toggle, sync_matches, matchedAt>>

push_dibit(d) == HuntMiss(d) \/ HuntMatch(d) \/ Collect(d) \/ Complete(d)

SyncNext == \E d \in Dibits : push_dibit(d)
SyncSpec == SyncInit /\ [][SyncNext]_syncVars

-----------------------------------------------------------------------------
Words == [1..SyncLen -> 0..3]
BurstSet == [type : {"BS_VOICE", "MS_VOICE", "BS_DATA", "MS_DATA", "UNKNOWN"},
             timeslot : {1, 2}, sync_bits : Words, dibits : [1..(2 * Half) -> 0..3]]

SyncTypeOK ==
  /\ sync_reg \in Words
  /\ hist \in [0..(HistLen - 1) -> 0..3] /\ hist_head \in 0..(HistLen - 1)
  /\ state \in {"HUNTING", "COLLECTING"}
  /\ collect_idx \in 0..(Half + Guard)
  /\ current \in BurstSet
  /\ ts_toggle \in Nat /\ burst_count \in Nat /\ sync_matches \in Nat
  /\ air \in Seq(0..3) /\ matchedAt \in Seq(Nat) /\ emitted \in Seq(BurstSet)

(* The burst assembly, with its circular history, shift register and       *)
(* collection index, delivers exactly the slices of the dibit stream that  *)
(* burst_sync.h describes: the sync search of a burst in progress never    *)
(* loses history, and no payload dibit is shifted, stale or from the guard.*)
Abstract == INSTANCE Framer WITH
              pending <- IF state = "COLLECTING" THEN Len(air) - collect_idx ELSE 0,
              bursts  <- emitted
ImplementsFramer == Abstract!Spec

(* The word of air that ends at dibit i. *)
WordAt(i) == Abstract!Slice(air, i - SyncLen + 1, SyncLen)

(* No sync word goes unnoticed: a word near a pattern starts a burst unless *)
(* it ends inside the second half or guard of a burst that started before.  *)
(* In particular a sync word that follows a burst without a gap, part of    *)
(* it in the guard, is found.                                               *)
NoSyncMissed ==
  \A i \in 1..Len(air) :
    Abstract!TypeOf(WordAt(i)) # "UNKNOWN" =>
      \E n \in 1..Len(matchedAt) :
        matchedAt[n] <= i /\ i <= matchedAt[n] + Half + Guard

(* A burst that nothing before it can hide arrives whole, as what it was   *)
(* sent: when a word with no more than MaxErrors errors ends where no word *)
(* like any pattern did in the Half + Guard dibits before, the callback    *)
(* gets the burst around it, of that word's type, with the dibit that ends *)
(* its guard, whatever the stream was before, be it bursts, noise or what  *)
(* an overrun spliced.                                                     *)
IsolatedBurstsArrive ==
  \A i \in 1..(Len(air) - Half - Guard), k \in 1..Len(SyncWords) :
    /\ hamming48(WordAt(i), SyncWords[k].word) <= MaxErrors
    /\ \A j \in 1..(i - 1) :
         i <= j + Half + Guard => Abstract!TypeOf(WordAt(j)) = "UNKNOWN"
    => \E n \in 1..Len(emitted) :
         emitted[n] = Abstract!BurstAt(air, i, n) /\ emitted[n].type = SyncWords[k].type
=============================================================================
