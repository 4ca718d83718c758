---------------------------- MODULE MCDmrFrames ----------------------------
(***************************************************************************)
(* BurstSync with the sizes and the four sync words of burst_sync.h, fed   *)
(* with consecutive DMR bursts after a gap.  A script says what is on the  *)
(* air (the gap, the types of the bursts, the bit errors in the sync word  *)
(* of the first) and what an overrun of the ring takes out of it: lost     *)
(* dibits after the first cut ones.                                        *)
(***************************************************************************)
EXTENDS BurstSync, SequencesExt

(* The dibits of a constant of burst_sync.h, from its hexadecimal digits. *)
FromHex(digits) ==
  [i \in 1..(2 * Len(digits)) |->
     LET x == digits[(i + 1) \div 2] IN IF i % 2 = 1 THEN x \div 4 ELSE x % 4]

kSyncBsVoice == FromHex(<<7, 5, 5, 15, 13, 7, 13, 15, 7, 5, 15, 7>>)
kSyncMsVoice == FromHex(<<13, 15, 15, 5, 7, 13, 7, 5, 5, 15, 15, 7>>)
kSyncBsData  == FromHex(<<13, 5, 13, 7, 15, 7, 7, 15, 13, 7, 5, 7>>)
kSyncMsData  == FromHex(<<7, 15, 7, 13, 5, 5, 15, 5, 13, 15, 5, 13>>)

DmrWords == << [type |-> "BS_VOICE", word |-> kSyncBsVoice],
               [type |-> "MS_VOICE", word |-> kSyncMsVoice],
               [type |-> "BS_DATA",  word |-> kSyncBsData],
               [type |-> "MS_DATA",  word |-> kSyncMsData] >>
DmrDibits == 0..3

-----------------------------------------------------------------------------
Clear == [gap : {0, 7}, types : (1..4) \X (1..4), errors : {0, 4, 5},
          cut : {0}, lost : {0}]
Cut == [gap : {0}, types : {<<1, 3, 2>>}, errors : {0},
        cut : {0, 30, 49, 60, 73, 100, 121, 126},
        lost : {1, 20, 45, 59, 80, 131, 132, 133, 150}]
Scripts == Clear \cup Cut

(* A payload that resembles no sync word, different for every position. *)
Payload(n, from) == [i \in 1..n |-> (((from + i) * (from + i + 1)) \div 2) % 4]

(* A sync word with its first errors dibits off by their high bit. *)
Damaged(w, errors) ==
  [i \in 1..SyncLen |-> IF i <= errors THEN (w[i] + 2) % 4 ELSE w[i]]

FrameOf(k, errors, from) ==
  Payload(Half, from) \o Damaged(DmrWords[k].word, errors)
    \o Payload(Half, from + Half) \o Zeroes(Guard)

FrameLen == 2 * Half + SyncLen + Guard
Seed(n) == 26 * n - 23              \* so that all payloads differ

OnAir(s) ==
  Zeroes(s.gap) \o FlattenSeq([n \in DOMAIN s.types |->
      FrameOf(s.types[n], IF n = 1 THEN s.errors ELSE 0, Seed(n))])
Streams ==
  [s \in Scripts |-> SubSeq(OnAir(s), 1, s.cut)
                       \o SubSeq(OnAir(s), s.cut + s.lost + 1, Len(OnAir(s)))]

VARIABLE script

DmrInit == SyncInit /\ script \in Scripts
DmrNext ==
  /\ Len(air) < Len(Streams[script])
  /\ push_dibit(Streams[script][Len(air) + 1])
  /\ UNCHANGED script
DmrSpec == DmrInit /\ [][DmrNext]_<<syncVars, script>>

(* Burst n of the script as BurstSync should report it, and the bursts     *)
(* that can be heard: no dibit but of the guard is lost, and the sync word *)
(* has at most four bit errors.                                            *)
Reported(b, n) ==
  /\ b.type = DmrWords[script.types[n]].type
  /\ b.dibits = Payload(2 * Half, Seed(n))

Audible ==
  {n \in DOMAIN script.types :
     LET start == script.gap + FrameLen * (n - 1)
     IN  /\ \/ start + FrameLen - Guard <= script.cut
            \/ start >= script.cut + script.lost
         /\ n = 1 => script.errors <= 4}

Over == Len(air) = Len(Streams[script])

(* What is on the air arrives: when nothing is lost on the way, the bursts *)
(* are the audible ones in order, each with its type and all 98 payload    *)
(* dibits.                                                                 *)
FramesArrive ==
  Over /\ script.lost = 0 =>
    LET heard == SetToSortSeq(Audible, <)
    IN  /\ Len(emitted) = Len(heard)
        /\ \A i \in DOMAIN heard : Reported(emitted[i], heard[i])

(* An overrun costs the bursts it touches and no others.  BurstSync may    *)
(* report the two at its ends all the same, spliced with what follows or   *)
(* came before; but although it is then collecting while the next burst    *)
(* begins, it is hunting again before the end of the next sync word.       *)
OverrunCostsWhatItTouches ==
  LET spliced == {i \in DOMAIN emitted : \A n \in Audible : ~Reported(emitted[i], n)}
  IN  Over =>
        /\ \A n \in Audible : \E i \in DOMAIN emitted : Reported(emitted[i], n)
        /\ Cardinality(spliced) <= 2
        /\ \A i \in spliced : \E n \in DOMAIN script.types \ Audible :
             emitted[i].type = DmrWords[script.types[n]].type
=============================================================================
