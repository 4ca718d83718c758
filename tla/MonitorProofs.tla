---------------------------- MODULE MonitorProofs ----------------------------
(***************************************************************************)
(* The safety of the program of main.cpp, for every number of channels,    *)
(* bursts, transfers and ticks.  The program is a client of Capture: each  *)
(* of its steps is one of CapNext or leaves Capture alone, so the          *)
(* invariant of CaptureProofs holds here.  What is added says how far main *)
(* has come while Capture and the channelizer are where they are.          *)
(***************************************************************************)
EXTENDS Monitor, CaptureProofs

Starting == call \in {"open", "rate", "freq", "reset", "publish", "launch"}

(* Where start() or stop() may be while main is where it is. *)
CallFollowsMain ==
  /\ main = "starting" => call = "idle" \/ Starting
  /\ main \in {"stopping", "destroying"} => call = "idle" \/ Stopping
  /\ main \in {"boot", "status", "count", "print", "join", "destroy", "exited",
               "terminated"} => call = "idle"

(* running_ is clear before start() and after ~Capture. *)
RunningFollowsMain ==
  main \in {"boot", "stopping", "destroying", "exited"} => ~running

(* The channelizer thread exists from start() to join(). *)
ChannelizerFollowsMain ==
  /\ main \in {"boot", "starting", "terminated"} => channelizer = "none"
  /\ main \in {"status", "count", "print", "join"} => channelizer # "none"
  /\ main = "stopping" => channelizer = "done"
  /\ main \in {"destroy", "destroying", "exited"} => channelizer \in {"none", "done"}

(* The socket is opened before anything runs and closed after everything   *)
(* that sends has been joined.                                             *)
SocketFollowsMain ==
  main \in {"starting", "status", "count", "print", "join", "stopping"}
    => udp \in {"open", "failed"}

(* The status loop has printed of each channel what it remembers, and      *)
(* remembers no more than was detected.                                    *)
CountsFollow ==
  /\ \A c \in Chans : reported[c] = prevBursts[c] /\ prevBursts[c] <= bursts[c]
  /\ main = "print" => prevBursts[chan] <= read /\ read <= bursts[chan]

MonIInv ==
  /\ MonTypeOK
  /\ CallFollowsMain
  /\ RunningFollowsMain
  /\ ChannelizerFollowsMain
  /\ SocketFollowsMain
  /\ CountsFollow
  /\ OutputsAgree

-----------------------------------------------------------------------------
(* The program as a client of Capture. *)

(* Every step of the program is one that Capture takes or none of its.     *)
LEMMA StepOfCapture == [MonNext]_monVars => [CapNext]_capVars
<1> USE DEF CapNext
<1> SUFFICES ASSUME [MonNext]_monVars PROVE CapNext \/ UNCHANGED capVars
  OBVIOUS
<1>1. CASE MainStep
  BY <1>1 DEF MainStep, BeginStart, InsideCapture, StartFailed,
    SpawnChannelizer, StatusTick, SummaryRead, SummaryPrint, LeaveStatusLoop,
    JoinAndStop, StopReturned, Destroy, Exit
<1>2. CASE ChannelizerStep
  BY <1>2 DEF ChannelizerStep, CheckRunning, Wait, ReadBlock, ProcessChain,
    Puts, Send
<1>3. CASE Signal \/ MonReaderStep \/ Over \/ UNCHANGED monVars
  BY <1>3 DEF Signal, MonReaderStep, Over, monVars
<1> QED
  BY <1>1, <1>2, <1>3 DEF MonNext

(* The program uses Capture as one of the clients that CapSpec allows, so  *)
(* that what Capture promises to every client it promises to main().       *)
THEOREM ClientOfCapture == MonSpec => CapInit /\ [][CapNext]_capVars
<1>1. MonInit => CapInit
  BY DEF MonInit
<1> QED
  BY <1>1, StepOfCapture, PTL DEF MonSpec

(* The invariant of Capture holds in the program, of which main() is the   *)
(* client.                                                                 *)
THEOREM CaptureInvariance == MonSpec => []CapIInv
BY ClientOfCapture, CapInitIInv, CapNextIInv, PTL

-----------------------------------------------------------------------------
(* The invariant of the program. *)

LEMMA MonInitIInv == MonInit => MonIInv
<1> SUFFICES ASSUME MonInit PROVE MonIInv
  OBVIOUS
<1>1. CapTypeOK
  BY CapInitIInv DEF MonInit, CapIInv
<1>2. gRunning \in BOOLEAN
  BY Zenon DEF MonInit
<1>3. MonTypeOK
  BY <1>1, <1>2, MonitorConstants DEF MonitorConstants, MonInit, MonTypeOK, Chans
<1>4. CallFollowsMain /\ RunningFollowsMain
  BY DEF MonInit, CapInit, CallFollowsMain, RunningFollowsMain
<1>5. ChannelizerFollowsMain /\ SocketFollowsMain /\ OutputsAgree
  BY DEF MonInit, ChannelizerFollowsMain, SocketFollowsMain, OutputsAgree
<1>6. CountsFollow
  BY DEF MonInit, CountsFollow
<1> QED
  BY <1>3, <1>4, <1>5, <1>6 DEF MonIInv

(* A step that leaves main, the counts and the socket alone. *)
LEMMA ChannelizerIInv ==
  ASSUME MonIInv, CapTypeOK', ChannelizerStep
  PROVE  MonIInv'
<1> USE MonitorConstants DEF MonitorConstants, MonIInv, MonTypeOK,
    CallFollowsMain, RunningFollowsMain, ChannelizerFollowsMain,
    SocketFollowsMain, CountsFollow, OutputsAgree, Chans, Starting, Stopping,
    mainVars, capVars, channelizerVars
<1>1. CASE CheckRunning
  BY <1>1 DEF CheckRunning
<1>2. CASE Wait
  BY <1>2 DEF Wait
<1>3. CASE ReadBlock
  BY <1>3 DEF ReadBlock, Drain
<1>4. CASE ProcessChain
  <2>1. CASE NextChain /\ UNCHANGED bursts
    BY <1>4, <2>1 DEF ProcessChain, NextChain
  <2>2. CASE /\ bursts[chain] < MaxBursts
             /\ bursts' = [bursts EXCEPT ![chain] = @ + 1]
             /\ NextChain \/ (channelizer' = "emit" /\ UNCHANGED chain)
    <3>1. /\ bursts' \in [Chans -> 0..MaxBursts]
          /\ \A c \in Chans : bursts[c] <= bursts'[c]
      BY <2>2
    <3>2. chain' \in Chans /\ channelizer' \in {"process", "check", "emit"}
      BY <2>2, SMTT(30) DEF NextChain
    <3>3. MonTypeOK'
      BY <1>4, <3>1, <3>2 DEF ProcessChain
    <3>4. CountsFollow'
      <4>1. UNCHANGED <<reported, prevBursts, main, chan, read>>
        BY <1>4 DEF ProcessChain
      <4>2. ASSUME NEW c \in Chans PROVE prevBursts[c] <= bursts'[c]
        BY <3>1
      <4> QED
        BY <3>1, <4>1, <4>2
    <3> QED
      BY <1>4, <3>2, <3>3, <3>4 DEF ProcessChain
  <2> QED
    BY <1>4, <2>1, <2>2 DEF ProcessChain
<1>5. CASE Puts
  BY <1>5 DEF Puts
<1>6. CASE Send
  BY <1>6, SMTT(30) DEF Send, NextChain
<1> QED
  BY <1>1, <1>2, <1>3, <1>4, <1>5, <1>6 DEF ChannelizerStep

(* The steps of the main thread, start-up and shutdown included. *)
LEMMA MainIInv ==
  ASSUME MonIInv, CapIInv, CapTypeOK', MainStep
  PROVE  MonIInv'
<1> USE MonitorConstants DEF MonitorConstants, MonIInv, MonTypeOK,
    CallFollowsMain, RunningFollowsMain, ChannelizerFollowsMain,
    SocketFollowsMain, CountsFollow, OutputsAgree, Chans, Starting, Stopping,
    LoopVars, StatusVars, mainVars, capVars, channelizerVars
<1>1. CASE BeginStart
  BY <1>1 DEF BeginStart, CallStart, OpenUdp
<1>2. CASE InsideCapture
  BY <1>2 DEF InsideCapture, StartStep, StopStep, Open, Configure, ResetRing,
    SetRunning, Launch, Throw, Cancel, Join, Close
<1>3. CASE StartFailed
  BY <1>3 DEF StartFailed, CloseUdp
<1>4. CASE SpawnChannelizer
  BY <1>4 DEF SpawnChannelizer
<1>5. CASE StatusTick
  <2>1. tick' \in 0..(SummaryTicks - 1) /\ chan' \in Chans
    BY <1>5 DEF StatusTick
  <2>2. main' \in {"status", "count"}
    BY <1>5 DEF StatusTick
  <2>3. MonTypeOK'
    BY <1>5, <2>1, <2>2 DEF StatusTick
  <2> QED
    BY <1>5, <2>2, <2>3 DEF StatusTick
<1>6. CASE SummaryRead
  BY <1>6, SMTT(30) DEF SummaryRead
<1>7. CASE SummaryPrint
  <2>1. reported' = [reported EXCEPT ![chan] = read]
    <3>1. /\ reported[chan] = prevBursts[chan]
          /\ reported[chan] \in Int /\ read \in Int
      OBVIOUS
    <3>2. reported[chan] + read - prevBursts[chan] = read
      BY <3>1
    <3> QED
      BY <1>7, <3>2 DEF SummaryPrint
  <2>2. prevBursts' = [prevBursts EXCEPT ![chan] = read]
    BY <1>7 DEF SummaryPrint
  <2>3. chan' \in Chans /\ main' \in {"count", "status"}
    BY <1>7, SMTT(30) DEF SummaryPrint
  <2>4. CountsFollow'
    BY <1>7, <2>1, <2>2, <2>3 DEF SummaryPrint
  <2>5. MonTypeOK'
    <3>1. /\ reported' \in [Chans -> 0..MaxBursts]
          /\ prevBursts' \in [Chans -> 0..MaxBursts]
      BY <2>1, <2>2
    <3>2. UNCHANGED <<gRunning, tick, read, udp, channelizer, chain, bursts,
                      unsent>>
      BY <1>7 DEF SummaryPrint
    <3> QED
      BY <2>3, <3>1, <3>2
  <2> QED
    BY <1>7, <2>3, <2>4, <2>5 DEF SummaryPrint
<1>8. CASE LeaveStatusLoop
  BY <1>8 DEF LeaveStatusLoop
<1>9. CASE JoinAndStop
  BY <1>9 DEF JoinAndStop, CallStop
<1>10. CASE StopReturned
  BY <1>10 DEF StopReturned, CloseUdp
<1>11. CASE Destroy
  BY <1>11 DEF Destroy, CallStop
<1>12. CASE Exit
  BY <1>12 DEF Exit
<1> QED
  BY <1>1, <1>2, <1>3, <1>4, <1>5, <1>6, <1>7, <1>8, <1>9, <1>10, <1>11, <1>12
  DEF MainStep

(* Signals, the reader thread, and the end of the program. *)
LEMMA OthersIInv ==
  ASSUME MonIInv, CapTypeOK', \/ Signal \/ MonReaderStep \/ Over
                              \/ UNCHANGED monVars
  PROVE  MonIInv'
<1> USE MonitorConstants DEF MonitorConstants, MonIInv, MonTypeOK,
    CallFollowsMain, RunningFollowsMain, ChannelizerFollowsMain,
    SocketFollowsMain, CountsFollow, OutputsAgree, Chans, Starting, Stopping,
    mainVars, channelizerVars
<1>1. CASE Signal
  <2>1. gRunning' \in BOOLEAN
    BY <1>1, Zenon DEF Signal
  <2> QED
    BY <1>1, <2>1 DEF Signal, capVars
<1>2. CASE MonReaderStep
  <2>1. UNCHANGED <<call, running, result>>
    BY <1>2 DEF MonReaderStep, ReaderStep, EnterAsync, TransferArrives,
      CountBytes, AsyncCancelled, AsyncFails
  <2> QED
    BY <1>2, <2>1 DEF MonReaderStep
<1>3. CASE Over \/ UNCHANGED monVars
  <2>1. UNCHANGED <<gRunning, main, tick, chan, read, prevBursts, udp, reported,
                    channelizer, chain, bursts, unsent, call, running>>
    BY <1>3 DEF Over, monVars, capVars
  <2> QED
    BY <2>1
<1> QED
  BY <1>1, <1>2, <1>3

(* Every step of every thread, and a signal at any time, keeps the         *)
(* invariant.                                                              *)
LEMMA MonNextIInv == CapIInv /\ MonIInv /\ [MonNext]_monVars => MonIInv'
<1> SUFFICES ASSUME CapIInv, MonIInv, [MonNext]_monVars PROVE MonIInv'
  OBVIOUS
<1>1. CapTypeOK'
  BY StepOfCapture, CapNextIInv DEF CapIInv
<1> QED
  BY <1>1, ChannelizerIInv, MainIInv, OthersIInv DEF MonNext

-----------------------------------------------------------------------------
(* Main results. *)

(* Capture, the channelizer thread, the socket and the counts follow the   *)
(* point that main() has reached.                                          *)
THEOREM MonInvariance == MonSpec => [](CapIInv /\ MonIInv)
<1>1. MonSpec => []CapIInv
  BY CaptureInvariance
<1> QED
  BY <1>1, MonInitIInv, MonNextIInv, PTL DEF MonSpec

(* The variables of the program keep their types; the summaries index only *)
(* channels that exist.                                                    *)
THEOREM MonTypeCorrect == MonSpec => []MonTypeOK
<1>1. MonIInv => MonTypeOK
  BY DEF MonIInv
<1> QED
  BY <1>1, MonInvariance, PTL

(* ring_.reset() finds both its users paused: the channelizer thread does  *)
(* not exist before start() has returned.                                  *)
THEOREM ResetAlone == MonSpec => []ResetWhenPaused
<1>1. CapIInv /\ MonIInv => ResetWhenPaused
  <2> SUFFICES ASSUME CapIInv, MonIInv, call = "reset"
               PROVE  reader = "none" /\ channelizer = "none"
    BY DEF ResetWhenPaused
  <2>1. reader = "none"
    BY CapIInvImplies DEF ResetWithoutProducer
  <2>2. main = "starting"
    BY DEF MonIInv, MonTypeOK, CallFollowsMain, Stopping
  <2> QED
    BY <2>1, <2>2 DEF MonIInv, ChannelizerFollowsMain
<1> QED
  BY <1>1, MonInvariance, PTL

(* No thread outlives the ring, the chains and the device it uses. *)
THEOREM NobodyLeft == MonSpec => []NobodyOutlivesMain
<1>1. CapIInv /\ MonIInv => NobodyOutlivesMain
  <2> SUFFICES ASSUME CapIInv, MonIInv PROVE NobodyOutlivesMain
    OBVIOUS
  <2>1. main \in {"stopping", "destroy", "destroying", "exited"}
          => channelizer \in {"none", "done"}
    BY DEF MonIInv, ChannelizerFollowsMain
  <2>2. main = "exited" => open = {} /\ reader = "none"
    BY CapIInvImplies DEF NothingLeaks, MonIInv, CallFollowsMain,
      RunningFollowsMain
  <2> QED
    BY <2>1, <2>2 DEF NobodyOutlivesMain
<1> QED
  BY <1>1, MonInvariance, PTL

(* The summaries count every burst once, although the count they read is   *)
(* written by another thread in the meantime.                              *)
THEOREM SummariesCorrect == MonSpec => []SummariesAddUp
<1>1. MonIInv => SummariesAddUp
  <2> SUFFICES ASSUME MonIInv, NEW c \in Chans
               PROVE  reported[c] + (bursts[c] - prevBursts[c]) = bursts[c]
    BY DEF SummariesAddUp
  <2>1. reported[c] = prevBursts[c] /\ reported[c] \in Int /\ bursts[c] \in Int
    BY DEF MonIInv, MonTypeOK, CountsFollow
  <2> QED
    BY <2>1
<1> QED
  BY <1>1, MonInvariance, PTL

(* Every event that is printed is sent, if a socket could be opened. *)
THEOREM EveryEventIsSent == MonSpec => []OutputsAgree
<1>1. MonIInv => OutputsAgree
  BY DEF MonIInv
<1> QED
  BY <1>1, MonInvariance, PTL
=============================================================================
