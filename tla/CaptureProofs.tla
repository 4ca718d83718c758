---------------------------- MODULE CaptureProofs ----------------------------
(***************************************************************************)
(* The safety of Capture for every ring, transfer size and number of       *)
(* sessions, whatever a client calls.  Everything is proved of a step of   *)
(* CapNext alone, without fairness, so that the program, which is one      *)
(* particular client, inherits it.                                         *)
(***************************************************************************)
EXTENDS Capture, TLAPS

(* The steps of start() from a device opened until running_ is set, and    *)
(* the steps of stop().                                                    *)
Opened   == call \in {"rate", "freq", "reset", "publish"}
Stopping == call \in {"cancel", "join", "close"}

(* dev_ is open exactly while it is being configured, captured from or     *)
(* stopped, and no other handle ever is.                                   *)
DeviceHeld ==
  open = IF running \/ Opened \/ Stopping THEN {devPtr} ELSE {}

(* running_ is set at the end of start() and cleared at the head of stop(). *)
RunningBetween ==
  /\ running => call \in {"idle", "launch"}
  /\ call = "launch" => running

(* A reader thread exists only after start() launched it and until stop()  *)
(* has joined it, and what it reads from is the device that is open.       *)
ReaderInSession ==
  /\ reader # "none" => \/ running /\ call = "idle"
                        \/ call \in {"cancel", "join"}
  /\ InAsync => handle = devPtr

(* An overrun takes a transfer. *)
OverrunsBounded == overruns <= transfers

CapIInv ==
  /\ CapTypeOK
  /\ DeviceHeld
  /\ RunningBetween
  /\ ReaderInSession
  /\ OverrunsBounded

-----------------------------------------------------------------------------
(* What write() keeps of a transfer fits. *)
LEMMA KeptFits ==
  ASSUME level \in 0..RingBlocks
  PROVE  Kept \in Nat /\ level + Kept \in 0..RingBlocks
BY CaptureConstants DEF CaptureConstants, Kept

(* A Capture just constructed satisfies the invariant. *)
LEMMA CapInitIInv == CapInit => CapIInv
<1> SUFFICES ASSUME CapInit PROVE CapIInv
  OBVIOUS
<1>1. CapTypeOK
  <2>1. running \in BOOLEAN /\ cancelled \in BOOLEAN
    BY Zenon DEF CapInit
  <2> QED
    BY <2>1, CaptureConstants DEF CaptureConstants, CapInit, CapTypeOK
<1>2. DeviceHeld
  BY DEF CapInit, DeviceHeld, Opened, Stopping
<1>3. RunningBetween /\ ReaderInSession /\ OverrunsBounded
  BY DEF CapInit, RunningBetween, ReaderInSession, InAsync, OverrunsBounded
<1> QED
  BY <1>1, <1>2, <1>3 DEF CapIInv

(* The steps of start(). *)
LEMMA StartStepIInv == CapIInv /\ (CallStart \/ StartStep) => CapIInv'
<1> USE CaptureConstants DEF CaptureConstants, CapIInv, CapTypeOK, DeviceHeld,
      RunningBetween, ReaderInSession, OverrunsBounded, InAsync, Opened,
      Stopping, ringVars, readerVars, deviceVars
<1> SUFFICES ASSUME CapIInv, CallStart \/ StartStep PROVE CapIInv'
  OBVIOUS
<1>1. CASE CallStart
  BY <1>1 DEF CallStart
<1>2. CASE Open
  <2>1. open = {} /\ reader = "none" /\ ~running
    BY <1>2 DEF Open
  <2>2. CASE Throw /\ UNCHANGED <<devPtr, deviceVars>>
    BY <1>2, <2>1, <2>2 DEF Open, Throw
  <2>3. CASE /\ opens < MaxOpens /\ opens' = opens + 1
             /\ open' = open \cup {opens + 1} /\ devPtr' = opens + 1
             /\ cancelled' = FALSE /\ call' = "rate" /\ UNCHANGED result
    <3>1. opens + 1 \in 1..MaxOpens /\ open' = {opens + 1}
      BY <2>1, <2>3
    <3>2. cancelled' \in BOOLEAN
      BY <2>3, Zenon
    <3>3. UNCHANGED <<running, bytesCaptured, level, overruns, reader, handle,
                      transfers>>
      BY <1>2 DEF Open
    <3>4. CapTypeOK'
      BY <2>3, <3>1, <3>2, <3>3
    <3> QED
      BY <2>1, <2>3, <3>1, <3>3, <3>4
  <2> QED
    BY <1>2, <2>2, <2>3 DEF Open
<1>3. CASE Configure
  BY <1>3 DEF Configure, Throw
<1>4. CASE ResetRing
  BY <1>4 DEF ResetRing
<1>5. CASE SetRunning
  BY <1>5 DEF SetRunning
<1>6. CASE Launch
  BY <1>6 DEF Launch, Throw
<1> QED
  BY <1>1, <1>2, <1>3, <1>4, <1>5, <1>6 DEF StartStep

(* The steps of stop(). *)
LEMMA StopStepIInv == CapIInv /\ (CallStop \/ StopStep) => CapIInv'
<1> USE CaptureConstants DEF CaptureConstants, CapIInv, CapTypeOK, DeviceHeld,
      RunningBetween, ReaderInSession, OverrunsBounded, InAsync, Opened,
      Stopping, ringVars, readerVars, deviceVars
<1> SUFFICES ASSUME CapIInv, CallStop \/ StopStep PROVE CapIInv'
  OBVIOUS
<1>1. CASE CallStop
  BY <1>1 DEF CallStop
<1>2. CASE Cancel
  BY <1>2 DEF Cancel
<1>3. CASE Join
  BY <1>3 DEF Join
<1>4. CASE Close
  BY <1>4 DEF Close
<1> QED
  BY <1>1, <1>2, <1>3, <1>4 DEF StopStep

(* The steps of the reader thread, and a block taken out of the ring. *)
LEMMA OtherStepIInv == CapIInv /\ (ReaderStep \/ Drain) => CapIInv'
<1> USE CaptureConstants DEF CaptureConstants, CapIInv, CapTypeOK, DeviceHeld,
      RunningBetween, ReaderInSession, OverrunsBounded, InAsync, Opened,
      Stopping, ringVars, readerVars, deviceVars
<1> SUFFICES ASSUME CapIInv, ReaderStep \/ Drain PROVE CapIInv'
  OBVIOUS
<1>1. CASE EnterAsync
  BY <1>1 DEF EnterAsync
<1>2. CASE TransferArrives
  BY <1>2, KeptFits DEF TransferArrives
<1>3. CASE CountBytes
  BY <1>3 DEF CountBytes
<1>4. CASE AsyncCancelled
  BY <1>4 DEF AsyncCancelled
<1>5. CASE AsyncFails
  BY <1>5 DEF AsyncFails
<1>6. CASE Drain
  BY <1>6 DEF Drain
<1> QED
  BY <1>1, <1>2, <1>3, <1>4, <1>5, <1>6 DEF ReaderStep

(* Every step of start(), stop(), the reader thread and the consumer keeps *)
(* it.                                                                     *)
LEMMA CapNextIInv == CapIInv /\ [CapNext]_capVars => CapIInv'
<1>1. CapIInv /\ UNCHANGED capVars => CapIInv'
  BY DEF CapIInv, CapTypeOK, DeviceHeld, RunningBetween, ReaderInSession,
    OverrunsBounded, InAsync, Opened, Stopping, capVars, ringVars, readerVars,
    deviceVars
<1> QED
  BY <1>1, StartStepIInv, StopStepIInv, OtherStepIInv DEF CapNext

(* The invariant gives the safety of the handles, of the failure paths and *)
(* of reset().                                                             *)
LEMMA CapIInvImplies ==
  CapIInv => NoUseAfterClose /\ NothingLeaks /\ ResetWithoutProducer
BY DEF CapIInv, CapTypeOK, DeviceHeld, RunningBetween, ReaderInSession, InAsync,
  Opened, Stopping, NoUseAfterClose, NothingLeaks, ResetWithoutProducer

-----------------------------------------------------------------------------
(* Main results. *)

(* The device, running_ and the reader thread follow the step that start() *)
(* or stop() has reached, through every failure of librtlsdr.              *)
THEOREM CapInvariance == CapSpec => []CapIInv
BY CapInitIInv, CapNextIInv, PTL DEF CapSpec

(* The members of Capture keep their types, and the ring never holds more  *)
(* than it has room for.                                                   *)
THEOREM CapTypeCorrect == CapSpec => []CapTypeOK
<1>1. CapIInv => CapTypeOK
  BY DEF CapIInv
<1> QED
  BY <1>1, CapInvariance, PTL

(* librtlsdr is never handed a closed handle, neither by start(), stop()   *)
(* nor the reader thread.                                                  *)
THEOREM HandlesAreOpen == CapSpec => []NoUseAfterClose
BY CapIInvImplies, CapInvariance, PTL

(* Between two sessions neither a device nor a thread is left, although    *)
(* every step of start() may fail.                                         *)
THEOREM NoLeak == CapSpec => []NothingLeaks
BY CapIInvImplies, CapInvariance, PTL

(* start() resets the ring while no callback can run. *)
THEOREM ResetIsAlone == CapSpec => []ResetWithoutProducer
BY CapIInvImplies, CapInvariance, PTL
=============================================================================
