------------------------------ MODULE Monitor ------------------------------
(***************************************************************************)
(* The program of main.cpp: the main thread (start-up, the 10 s summaries, *)
(* shutdown), the channelizer thread and the signal handler, composed with *)
(* Capture, whose start() and stop() the main thread executes.             *)
(*                                                                         *)
(* A block handed to the demodulators may complete a burst on any channel  *)
(* (at 2048 pairs a block is shorter than a burst), and the burst may make *)
(* an event; what a demodulator does is the subject of other modules.      *)
(* UdpOutput is not in the repository: it is open or closed.               *)
(***************************************************************************)
EXTENDS Capture

CONSTANTS
  Channels,       \* NUM_CHANNELS, the length of CHANNELS
  SummaryTicks,   \* sleeps of the status loop between two summaries
  MaxBursts       \* bound: bursts per channel

ASSUME MonitorConstants ==
  /\ Channels \in Nat \ {0} /\ SummaryTicks \in Nat \ {0} /\ MaxBursts \in Nat

VARIABLES
  gRunning,       \* g_running
  main,           \* where the main thread is
  tick, chan, read, prevBursts,   \* tick, i, b and prev_bursts of the status loop
  channelizer,    \* where the channelizer thread is; "none" before it exists
  chain,          \* the chain it is in
  bursts,         \* bursts_detected() of every chain
  udp,            \* the socket: "new", "open", "failed" or "closed"
  reported,       \* history: bursts printed per channel, all summaries together
  unsent          \* history: events printed, but not sent over a socket that opened

mainVars == <<main, tick, chan, read, prevBursts, udp, reported>>
channelizerVars == <<channelizer, chain, bursts, unsent>>
monVars == <<capVars, gRunning, mainVars, channelizerVars>>

Chans == 1..Channels

MonInit ==
  /\ CapInit
  /\ gRunning = TRUE
  /\ main = "boot" /\ tick = 0 /\ chan = 1 /\ read = 0
  /\ prevBursts = [c \in Chans |-> 0]
  /\ channelizer = "none" /\ chain = 1
  /\ bursts = [c \in Chans |-> 0]
  /\ udp = "new" /\ unsent = 0
  /\ reported = [c \in Chans |-> 0]

(* SIGINT or SIGTERM, at any time and any number of times. *)
Signal ==
  /\ gRunning' = FALSE
  /\ UNCHANGED <<capVars, mainVars, channelizerVars>>

-----------------------------------------------------------------------------
(* The main thread. *)

LoopVars == <<tick, chan, read, prevBursts, reported>>
StatusVars == <<LoopVars, udp>>

(* Everything up to cap.start(); without a socket the program goes on.      *)
OpenUdp == udp' \in {"open", "failed"}
CloseUdp == udp' = IF udp = "open" THEN "closed" ELSE udp

BeginStartTooLate ==       \* mutant: the channelizer thread is made first
  /\ main = "boot"
  /\ CallStart
  /\ OpenUdp
  /\ main' = "starting"
  /\ channelizer' = "check"
  /\ UNCHANGED <<gRunning, LoopVars, chain, bursts, unsent>>
BeginStart ==
  /\ main = "boot"
  /\ CallStart
  /\ OpenUdp
  /\ main' = "starting"
  /\ UNCHANGED <<gRunning, LoopVars, channelizerVars>>

(* The steps of start() and stop(), while main is inside one of them. *)
InsideCapture ==
  /\ main \in {"starting", "stopping", "destroying"}
  /\ StartStep \/ StopStep
  /\ UNCHANGED <<gRunning, mainVars, channelizerVars>>

(* start() threw: log, udp.close(), and return EXIT_FAILURE. *)
StartFailed ==
  /\ main = "starting" /\ call = "idle" /\ result = "threw"
  /\ CloseUdp
  /\ main' = "destroy"
  /\ UNCHANGED <<capVars, gRunning, LoopVars, channelizerVars>>

(* start() returned: construct the channelizer thread.  An exception of    *)
(* that constructor is not caught and terminates the program.              *)
SpawnChannelizer ==
  /\ main = "starting" /\ call = "idle" /\ result = "started"
  /\ \/ main' = "status" /\ channelizer' = "check"
     \/ main' = "terminated" /\ UNCHANGED channelizer
  /\ UNCHANGED <<capVars, gRunning, StatusVars, chain, bursts, unsent>>

(* One turn of the status loop: a second of sleep, and a summary when it   *)
(* is due.                                                                 *)
StatusTickNoReset ==       \* mutant: tick is not reset
  /\ main = "status" /\ gRunning
  /\ tick' = tick + 1
  /\ IF tick + 1 < SummaryTicks
       THEN UNCHANGED <<main, chan>>
       ELSE main' = "count" /\ chan' = 1
  /\ UNCHANGED <<capVars, gRunning, read, prevBursts, udp, reported, channelizerVars>>
StatusTick ==
  /\ main = "status" /\ gRunning
  /\ IF tick + 1 < SummaryTicks
       THEN tick' = tick + 1 /\ UNCHANGED <<main, chan>>
       ELSE tick' = 0 /\ main' = "count" /\ chan' = 1
  /\ UNCHANGED <<capVars, gRunning, read, prevBursts, udp, reported, channelizerVars>>

(* The summary of one channel: b is read once.  burst_count_ is not        *)
(* atomic: the word may be any the channelizer stored since the last read. *)
SummaryRead ==
  /\ main = "count"
  /\ read' \in prevBursts[chan]..bursts[chan]
  /\ main' = "print"
  /\ UNCHANGED <<capVars, gRunning, tick, chan, prevBursts, udp, reported,
                 channelizerVars>>

(* It is used for the difference, for prev_bursts and for the line.        *)
SummaryPrintRereads ==     \* mutant: prev_bursts takes a second reading
  /\ main = "print"
  /\ reported' = [reported EXCEPT ![chan] = @ + read - prevBursts[chan]]
  /\ prevBursts' = [prevBursts EXCEPT ![chan] = bursts[chan]]
  /\ IF chan < Channels THEN chan' = chan + 1 /\ main' = "count"
                        ELSE chan' = 1 /\ main' = "status"
  /\ UNCHANGED <<capVars, gRunning, tick, read, udp, channelizerVars>>
SummaryPrint ==
  /\ main = "print"
  /\ reported' = [reported EXCEPT ![chan] = @ + read - prevBursts[chan]]
  /\ prevBursts' = [prevBursts EXCEPT ![chan] = read]
  /\ IF chan < Channels THEN chan' = chan + 1 /\ main' = "count"
                        ELSE chan' = 1 /\ main' = "status"
  /\ UNCHANGED <<capVars, gRunning, tick, read, udp, channelizerVars>>

(* The loop ends; chann_thread.join(), then the call of cap.stop(). *)
LeaveAndClose ==           \* mutant: the socket is closed before the join
  /\ main = "status" /\ ~gRunning
  /\ CloseUdp
  /\ main' = "join"
  /\ UNCHANGED <<capVars, gRunning, LoopVars, channelizerVars>>
LeaveStatusLoop ==
  /\ main = "status" /\ ~gRunning
  /\ main' = "join"
  /\ UNCHANGED <<capVars, gRunning, StatusVars, channelizerVars>>

JoinAndStop ==
  /\ main = "join" /\ channelizer = "done"
  /\ CallStop
  /\ main' = "stopping"
  /\ UNCHANGED <<gRunning, StatusVars, channelizerVars>>

(* stop() returned: udp.close() and return EXIT_SUCCESS. *)
StopReturned ==
  /\ main = "stopping" /\ call = "idle"
  /\ CloseUdp
  /\ main' = "destroy"
  /\ UNCHANGED <<capVars, gRunning, LoopVars, channelizerVars>>

(* The destructors of main's locals: ~Capture stops a running capture. *)
DestroyWithoutStop ==      \* mutant: no ~Capture
  /\ main = "destroy"
  /\ main' = "destroying"
  /\ UNCHANGED <<capVars, gRunning, StatusVars, channelizerVars>>
Destroy ==
  /\ main = "destroy"
  /\ CallStop
  /\ main' = "destroying"
  /\ UNCHANGED <<gRunning, StatusVars, channelizerVars>>

Exit ==
  /\ main = "destroying" /\ call = "idle"
  /\ main' = "exited"
  /\ UNCHANGED <<capVars, gRunning, StatusVars, channelizerVars>>

MainStep ==
  \/ BeginStart \/ InsideCapture \/ StartFailed \/ SpawnChannelizer
  \/ StatusTick \/ SummaryRead \/ SummaryPrint \/ LeaveStatusLoop
  \/ JoinAndStop \/ StopReturned \/ Destroy \/ Exit

-----------------------------------------------------------------------------
(* The channelizer thread. *)

(* The test at the head of the loop. *)
CheckRunning ==
  /\ channelizer = "check"
  /\ channelizer' = IF gRunning THEN "wait" ELSE "done"
  /\ UNCHANGED <<capVars, gRunning, mainVars, chain, bursts, unsent>>

(* Waiting for a block: return when told to, else sleep and look again. *)
WaitDeaf ==                \* mutant: g_running is not looked at while waiting
  /\ channelizer = "wait"
  /\ channelizer' = IF level > 0 THEN "read" ELSE "wait"
  /\ UNCHANGED <<capVars, gRunning, mainVars, chain, bursts, unsent>>
Wait ==
  /\ channelizer = "wait"
  /\ channelizer' = IF level > 0 THEN "read"
                    ELSE IF gRunning THEN "wait" ELSE "done"
  /\ UNCHANGED <<capVars, gRunning, mainVars, chain, bursts, unsent>>

(* Taking a block out of the ring. *)
ReadBlock ==
  /\ channelizer = "read"
  /\ Drain
  /\ channelizer' = "process" /\ chain' = 1
  /\ UNCHANGED <<gRunning, mainVars, bursts, unsent>>

(* On to the next chain, or to the head of the loop. *)
NextChain ==
  IF chain < Channels
    THEN chain' = chain + 1 /\ channelizer' = "process"
    ELSE chain' = 1 /\ channelizer' = "check"

(* One chain's process(), in which it may detect a burst, and the burst    *)
(* may make an event.                                                      *)
ProcessChain ==
  /\ channelizer = "process"
  /\ \/ NextChain /\ UNCHANGED bursts
     \/ /\ bursts[chain] < MaxBursts
        /\ bursts' = [bursts EXCEPT ![chain] = @ + 1]
        /\ \/ NextChain
           \/ channelizer' = "emit" /\ UNCHANGED chain
  /\ UNCHANGED <<capVars, gRunning, mainVars, unsent>>

(* emit(): print the event, then send it if the socket is open.  Its mutex *)
(* is never contended, since no other thread emits.                        *)
Puts ==
  /\ channelizer = "emit"
  /\ channelizer' = "send"
  /\ unsent' = IF udp = "failed" THEN unsent ELSE unsent + 1
  /\ UNCHANGED <<capVars, gRunning, mainVars, chain, bursts>>

Send ==
  /\ channelizer = "send"
  /\ NextChain
  /\ unsent' = IF udp = "open" THEN unsent - 1 ELSE unsent
  /\ UNCHANGED <<capVars, gRunning, mainVars, bursts>>

ChannelizerStep ==
  CheckRunning \/ Wait \/ ReadBlock \/ ProcessChain \/ Puts \/ Send

-----------------------------------------------------------------------------
(* The reader thread; terminate() and exit() take every thread with them. *)
Alive == main \notin {"exited", "terminated"}
MonReaderStep ==
  ReaderStep /\ UNCHANGED <<gRunning, mainVars, channelizerVars>>

Over == ~Alive /\ UNCHANGED monVars

MonNext ==
  \/ Alive /\ Signal
  \/ Alive /\ MainStep
  \/ Alive /\ ChannelizerStep
  \/ Alive /\ MonReaderStep
  \/ Over

(* The three threads are scheduled, and librtlsdr notices a cancellation   *)
(* between two transfers.  No signal, transfer or fault need ever come.    *)
MonFairness ==
  /\ WF_monVars(Alive /\ MainStep)
  /\ WF_monVars(Alive /\ ChannelizerStep)
  /\ WF_monVars(Alive /\ EnterAsync /\ MonReaderStep)
  /\ WF_monVars(Alive /\ CountBytes /\ MonReaderStep)
  /\ SF_monVars(Alive /\ AsyncCancelled /\ MonReaderStep)

MonSpec == MonInit /\ [][MonNext]_monVars /\ MonFairness

-----------------------------------------------------------------------------
MonTypeOK ==
  /\ CapTypeOK
  /\ gRunning \in BOOLEAN
  /\ main \in {"boot", "starting", "status", "count", "print", "join",
               "stopping", "destroy", "destroying", "exited", "terminated"}
  /\ tick \in 0..(SummaryTicks - 1) /\ chan \in Chans /\ read \in 0..MaxBursts
  /\ channelizer \in {"none", "check", "wait", "read", "process", "emit",
                      "send", "done"}
  /\ chain \in Chans
  /\ udp \in {"new", "open", "failed", "closed"} /\ unsent \in Nat
  /\ \A f \in {prevBursts, bursts, reported} : f \in [Chans -> 0..MaxBursts]

(* ring_.reset() runs while neither thread can touch the ring: the         *)
(* "call only when both threads are paused" of ringbuffer.h:75.            *)
ResetWhenPaused ==
  call = "reset" => reader = "none" /\ channelizer = "none"

(* The ring and the chains outlive their users: no thread of the program   *)
(* is left when main destroys them, on the error paths either, and the     *)
(* channelizer is gone before the device is closed.                        *)
NobodyOutlivesMain ==
  /\ main \in {"stopping", "destroy", "destroying", "exited"}
       => channelizer \in {"none", "done"}
  /\ main = "exited" => reader = "none" /\ open = {}

(* The summaries never lose or repeat a burst: what was printed plus what  *)
(* the next summary will print is what was detected.                       *)
SummariesAddUp ==
  \A c \in Chans :
    main # "print" => reported[c] + (bursts[c] - prevBursts[c]) = bursts[c]

(* "Every JSON event is sent as a single UDP datagram ... in addition to   *)
(* being written to stdout" (main.cpp:25), to the last one: an event that  *)
(* is printed while the program shuts down still finds the socket open.    *)
OutputsAgree == unsent = IF channelizer = "send" /\ udp # "failed" THEN 1 ELSE 0

(* After SIGINT or SIGTERM the program ends, whether the dongle delivers,  *)
(* is silent or is gone, and wherever the threads were.                    *)
ShutdownCompletes == ~gRunning ~> ~Alive

(* It does end unless librtlsdr loses the cancellation: nothing else can   *)
(* keep the program from ending once main is told to and has not yet       *)
(* cancelled.                                                              *)
ShutdownUnlessLost ==
  (~gRunning /\ call # "join") ~> (~Alive \/ CancelLost)
=============================================================================
