------------------------------ MODULE Capture ------------------------------
(***************************************************************************)
(* The Capture class of capture.h/.cpp: start() and stop(), executed step  *)
(* by step by the thread that calls them, the reader thread they launch    *)
(* and join, and librtlsdr as capture.cpp uses it.                         *)
(*                                                                         *)
(* A device handle is a number, a new one for every rtlsdr_open; devPtr    *)
(* (the member dev_) is 0 for nullptr.  The ring is reduced to the number  *)
(* of blocks it holds and its overrun count: module RingBuffer shows that  *)
(* it behaves as such a queue.                                             *)
(***************************************************************************)
EXTENDS Integers, FiniteSets

CONSTANTS
  RingBlocks,     \* blocks the ring holds
  TransferBlocks, \* blocks in one librtlsdr transfer
  MaxOpens,       \* bound: successful rtlsdr_open calls
  MaxTransfers    \* bound: transfers delivered in all

ASSUME CaptureConstants ==
  /\ RingBlocks \in Nat \ {0} /\ TransferBlocks \in Nat \ {0}
  /\ MaxOpens \in Nat /\ MaxTransfers \in Nat

VARIABLES
  running, devPtr, bytesCaptured,   \* members of Capture
  level, overruns,                  \* ring_: blocks held, overrun_count()
  call,        \* where the thread inside start() or stop() is
  result,      \* how the last start() or stop() ended
  reader,      \* the reader thread: "none" when there is nothing to join
  handle,      \* the handle reader passed to rtlsdr_read_async
  open,        \* librtlsdr: the handles open now
  opens,       \* librtlsdr: the handles opened so far
  cancelled,   \* librtlsdr: rtlsdr_cancel_async took effect
  transfers    \* history: transfers delivered so far

capVars == <<running, devPtr, bytesCaptured, level, overruns, call, result,
             reader, handle, open, opens, cancelled, transfers>>
ringVars   == <<level, overruns>>
readerVars == <<reader, handle>>
deviceVars == <<open, opens, cancelled>>

InAsync == reader \in {"reading", "callback"}

CapInit ==
  /\ running = FALSE /\ devPtr = 0 /\ bytesCaptured = 0
  /\ level = 0 /\ overruns = 0
  /\ call = "idle" /\ result = "none"
  /\ reader = "none" /\ handle = 0
  /\ open = {} /\ opens = 0 /\ cancelled = FALSE
  /\ transfers = 0

-----------------------------------------------------------------------------
(* start() *)

(* Entry, and the early return when running_ is set. *)
CallStart ==
  /\ call = "idle"
  /\ IF running
       THEN call' = "idle" /\ result' = "started"
       ELSE call' = "open" /\ result' = "none"
  /\ UNCHANGED <<running, devPtr, bytesCaptured, ringVars, readerVars,
                 deviceVars, transfers>>

Throw == call' = "idle" /\ result' = "threw"

(* The lookup by serial and rtlsdr_open: either may fail, before dev_ is set. *)
Open ==
  /\ call = "open"
  /\ \/ /\ Throw
        /\ UNCHANGED <<devPtr, deviceVars>>
     \/ /\ opens < MaxOpens
        /\ opens' = opens + 1
        /\ open' = open \cup {opens + 1}
        /\ devPtr' = opens + 1
        /\ cancelled' = FALSE
        /\ call' = "rate" /\ UNCHANGED result
  /\ UNCHANGED <<running, bytesCaptured, ringVars, readerVars, transfers>>

(* Sample rate, then centre frequency: a failure closes the device but     *)
(* leaves dev_ pointing at it.                                             *)
Configure ==
  /\ call \in {"rate", "freq"}
  /\ \/ /\ open' = open \ {devPtr} /\ Throw
     \/ /\ call' = IF call = "rate" THEN "freq" ELSE "reset"
        /\ UNCHANGED <<open, result>>
  /\ UNCHANGED <<running, devPtr, bytesCaptured, ringVars, readerVars, opens,
                 cancelled, transfers>>

(* Gain (results ignored), rtlsdr_reset_buffer, ring_.reset(). *)
ResetRing ==
  /\ call = "reset"
  /\ level' = 0 /\ overruns' = 0
  /\ call' = "publish"
  /\ UNCHANGED <<running, devPtr, bytesCaptured, result, readerVars, deviceVars,
                 transfers>>

SetRunning ==
  /\ call = "publish"
  /\ running' = TRUE
  /\ call' = "launch"
  /\ UNCHANGED <<devPtr, bytesCaptured, ringVars, result, readerVars,
                 deviceVars, transfers>>

(* The std::thread constructor, which may throw. *)
Launch ==
  /\ call = "launch"
  /\ \/ Throw /\ UNCHANGED reader
     \/ reader' = "spawned" /\ call' = "idle" /\ result' = "started"
  /\ UNCHANGED <<running, devPtr, bytesCaptured, ringVars, handle, deviceVars,
                 transfers>>

-----------------------------------------------------------------------------
(* stop(), which the destructor calls as well when running_ is set. *)

CallStopUnguarded ==          \* mutant: no early return
  /\ call = "idle"
  /\ running' = FALSE /\ call' = "cancel" /\ result' = "none"
  /\ UNCHANGED <<devPtr, bytesCaptured, ringVars, readerVars, deviceVars,
                 transfers>>
CallStop ==
  /\ call = "idle"
  /\ IF running
       THEN running' = FALSE /\ call' = "cancel" /\ result' = "none"
       ELSE call' = "idle" /\ result' = "stopped" /\ UNCHANGED running
  /\ UNCHANGED <<devPtr, bytesCaptured, ringVars, readerVars, deviceVars,
                 transfers>>

(* rtlsdr_cancel_async, which librtlsdr ignores while no read is running. *)
CancelNot ==                  \* mutant: the read is not cancelled
  /\ call = "cancel"
  /\ call' = "join"
  /\ UNCHANGED <<running, devPtr, bytesCaptured, ringVars, result, readerVars,
                 deviceVars, transfers>>
Cancel ==
  /\ call = "cancel"
  /\ cancelled' = (cancelled \/ (devPtr # 0 /\ InAsync))
  /\ call' = "join"
  /\ UNCHANGED <<running, devPtr, bytesCaptured, ringVars, result, readerVars,
                 open, opens, transfers>>

(* thread_.join(), skipped when no thread was launched. *)
JoinNot ==                    \* mutant: the thread is not waited for
  /\ call = "join"
  /\ call' = "close"
  /\ UNCHANGED <<running, devPtr, bytesCaptured, ringVars, result, readerVars,
                 deviceVars, transfers>>
Join ==
  /\ call = "join"
  /\ reader \in {"none", "returned"}
  /\ reader' = "none"
  /\ call' = "close"
  /\ UNCHANGED <<running, devPtr, bytesCaptured, ringVars, result, handle,
                 deviceVars, transfers>>

CloseNot ==                   \* mutant: the handle is forgotten, not closed
  /\ call = "close"
  /\ devPtr' = 0
  /\ call' = "idle" /\ result' = "stopped"
  /\ UNCHANGED <<running, bytesCaptured, ringVars, readerVars, deviceVars,
                 transfers>>
Close ==
  /\ call = "close"
  /\ open' = open \ {devPtr}
  /\ devPtr' = 0
  /\ call' = "idle" /\ result' = "stopped"
  /\ UNCHANGED <<running, bytesCaptured, ringVars, readerVars, opens, cancelled,
                 transfers>>

-----------------------------------------------------------------------------
(* reader_thread() and the librtlsdr event loop it runs. *)

(* The call of rtlsdr_read_async. *)
EnterAsync ==
  /\ reader = "spawned"
  /\ reader' = "reading"
  /\ handle' = devPtr
  /\ UNCHANGED <<running, devPtr, bytesCaptured, ringVars, call, result,
                 deviceVars, transfers>>

(* The blocks of a transfer that write() keeps. *)
KeptAll == TransferBlocks     \* mutant: the free space is not looked at
Kept == IF level + TransferBlocks <= RingBlocks
          THEN TransferBlocks ELSE RingBlocks - level

(* A transfer arrives: on_samples writes it to the ring ... *)
TransferArrives ==
  /\ reader = "reading"
  /\ transfers < MaxTransfers
  /\ transfers' = transfers + 1
  /\ level' = level + Kept
  /\ overruns' = IF Kept < TransferBlocks THEN overruns + 1 ELSE overruns
  /\ reader' = "callback"
  /\ UNCHANGED <<running, devPtr, bytesCaptured, call, result, handle,
                 deviceVars>>

(* ... and counts its bytes, kept or not. *)
CountBytes ==
  /\ reader = "callback"
  /\ bytesCaptured' = bytesCaptured + TransferBlocks
  /\ reader' = "reading"
  /\ UNCHANGED <<running, devPtr, ringVars, call, result, handle, deviceVars,
                 transfers>>

(* rtlsdr_read_async returns because it was cancelled ... *)
AsyncCancelled ==
  /\ reader = "reading" /\ cancelled
  /\ reader' = "returned"
  /\ UNCHANGED <<running, devPtr, bytesCaptured, ringVars, call, result, handle,
                 deviceVars, transfers>>

(* ... or with an error (the dongle was unplugged), which nobody looks at. *)
AsyncFails ==
  /\ reader = "reading"
  /\ reader' = "returned"
  /\ UNCHANGED <<running, devPtr, bytesCaptured, ringVars, call, result, handle,
                 deviceVars, transfers>>

-----------------------------------------------------------------------------
StartStep == Open \/ Configure \/ ResetRing \/ SetRunning \/ Launch
StopStep  == Cancel \/ Join \/ Close
ReaderStep == \/ EnterAsync \/ TransferArrives \/ CountBytes
              \/ AsyncCancelled \/ AsyncFails

(* The thread that reads the ring, whoever it is. *)
Drain ==
  /\ level > 0
  /\ level' = level - 1
  /\ UNCHANGED <<running, devPtr, bytesCaptured, overruns, call, result,
                 readerVars, deviceVars, transfers>>

CapNext == CallStart \/ CallStop \/ StartStep \/ StopStep \/ ReaderStep \/ Drain

(* start(), stop() and the reader thread keep running once begun, and      *)
(* librtlsdr notices a cancellation between transfers (strong fairness:    *)
(* transfers may keep arriving).  The dongle need not deliver anything,    *)
(* and a client need not call.                                             *)
CapFairness ==
  /\ WF_capVars(StartStep) /\ WF_capVars(StopStep)
  /\ WF_capVars(EnterAsync) /\ WF_capVars(CountBytes)
  /\ SF_capVars(AsyncCancelled)

(* Capture with a client that calls start() and stop() in any order. *)
CapSpec == CapInit /\ [][CapNext]_capVars /\ CapFairness

-----------------------------------------------------------------------------
CapTypeOK ==
  /\ running \in BOOLEAN /\ devPtr \in 0..MaxOpens /\ bytesCaptured \in Nat
  /\ level \in 0..RingBlocks /\ overruns \in 0..MaxTransfers
  /\ call \in {"idle", "open", "rate", "freq", "reset", "publish", "launch",
               "cancel", "join", "close"}
  /\ result \in {"none", "started", "threw", "stopped"}
  /\ reader \in {"none", "spawned", "reading", "callback", "returned"}
  /\ handle \in 0..MaxOpens /\ open \subseteq 1..MaxOpens /\ opens \in 0..MaxOpens
  /\ cancelled \in BOOLEAN /\ transfers \in 0..MaxTransfers

(* librtlsdr is never called with a handle that is not open: not by the    *)
(* reader, and not by stop(), although a start() that failed half way      *)
(* leaves dev_ dangling.                                                   *)
NoUseAfterClose ==
  /\ InAsync => handle \in open
  /\ reader = "spawned" => devPtr \in open
  /\ call \in {"rate", "freq", "reset", "cancel", "close"} => devPtr \in open

(* Whenever no call is in progress and running_ is clear, everything is    *)
(* released: the device is closed and the reader thread joined, whatever   *)
(* step of start() failed before.                                          *)
NothingLeaks ==
  call = "idle" /\ ~running => open = {} /\ reader = "none"

(* ring_.reset(), which is not thread-safe, runs while no callback can. *)
ResetWithoutProducer == call = "reset" => reader = "none"

(* The one cancellation librtlsdr can lose: stop() has called             *)
(* rtlsdr_cancel_async before the reader thread got to rtlsdr_read_async.  *)
CancelLost == call = "join" /\ reader = "spawned" /\ ~cancelled

(* stop() returns, with or without a dongle, a callback in progress or a   *)
(* reader thread, unless its cancellation was lost.                        *)
StopReturns == call = "cancel" ~> (call = "idle" \/ CancelLost)

(* capture.h:61, start(): "Open device, configure, and launch the reader   *)
(* thread.  Throws std::runtime_error on failure."  A start() that returns *)
(* normally has left a capture thread behind.                              *)
StartLaunchesReader ==
  [][(CallStart \/ Launch) /\ result' = "started" =>
       reader' \in {"spawned", "reading", "callback"}]_capVars
=============================================================================
